--------------------------- MODULE MCTopicFilter ---------------------------
EXTENDS TopicFilter

\* Two ordinary characters (so that fields can differ), '$' for the
\* system-topic rule, the separator and both wildcards.
MCChars == {"a", "$", "/", "+", "#"}

=============================================================================
