---------------------------- MODULE TopicFilter ----------------------------
(***************************************************************************)
(* topic::split and topic_filter (src/src/topic.cpp): a topic filter is    *)
(* parsed once, on construction, into either the plain string (no         *)
(* wildcards) or its '/'-separated fields, and matches() compares a topic *)
(* name with it.                                                           *)
(*                                                                         *)
(* A C++ string is a sequence of one-character strings, so a field is a   *)
(* sequence too and string equality is sequence equality.  std::string's  *)
(* positions are 0-based; here they are 1-based, with 0 for npos.         *)
(*                                                                         *)
(* The module also has a small state machine: the object's filter_, set   *)
(* by the constructor, and the result of the last matches() call.         *)
(***************************************************************************)
EXTENDS Integers, Sequences, SequencesExt, FiniteSetsExt

CONSTANTS
    Chars,      \* the characters strings are made of
    MaxLen      \* longest filter or topic string considered

ASSUME {"/", "+", "#"} \subseteq Chars /\ MaxLen \in Nat

NPOS == 0

\* string::find(c, from): the first position >= from holding c, or npos.
Find(s, c, from) ==
    LET at == {i \in from..Len(s) : s[i] = c} IN
    IF at = {} THEN NPOS ELSE Min(at)

\* Faulty variant (mutant): a split that skips empty fields.
RECURSIVE SplitSkipEmpty(_, _)
SplitSkipEmpty(s, startPos) ==
    LET pos   == Find(s, "/", startPos)
        field == SubSeq(s, startPos, IF pos = NPOS THEN Len(s) ELSE pos - 1)
        this  == IF field = <<>> THEN <<>> ELSE <<field>>
    IN IF pos = NPOS THEN this ELSE this \o SplitSkipEmpty(s, pos + 1)

\* Faulty variant (mutant): substr length pos - startPos + 1, which keeps
\* the separator in the field.
RECURSIVE SplitKeepDelim(_, _)
SplitKeepDelim(s, startPos) ==
    LET pos == Find(s, "/", startPos) IN
    IF pos = NPOS THEN << SubSeq(s, startPos, Len(s)) >>
    ELSE << SubSeq(s, startPos, pos) >> \o SplitKeepDelim(s, pos + 1)

\* The do-while loop of topic::split: push the field from startPos to the
\* next '/', or to the end when there is none.
RECURSIVE SplitFrom(_, _)
SplitFrom(s, startPos) ==
    LET pos == Find(s, "/", startPos) IN
    IF pos = NPOS THEN << SubSeq(s, startPos, Len(s)) >>
    ELSE << SubSeq(s, startPos, pos - 1) >> \o SplitFrom(s, pos + 1)

\* topic::split: the empty string has no fields.
Split(s) == IF s = <<>> THEN <<>> ELSE SplitFrom(s, 1)

\* topic_filter::has_wildcards(filter): ends in '#' or contains '+'.
HasWildcards(filter) ==
    filter # <<>> /\ (Last(filter) = "#" \/ "+" \in ToSet(filter))

\* topic_filter::topic_filter: filter_ holds the string or its fields.
TopicFilterOf(filter) ==
    IF HasWildcards(filter)
    THEN [wild |-> TRUE,  str |-> <<>>,   fields |-> Split(filter)]
    ELSE [wild |-> FALSE, str |-> filter, fields |-> <<>>]

\* topic::is_wildcard (topic.h, not in this tree): a field that is exactly
\* "+" or "#".
IsWildcard(field) == field \in {<<"+">>, <<"#">>}

\* The for loop of matches(), i 0-based as in the code.
RECURSIVE MatchFrom(_, _, _)
MatchFrom(fields, topicFields, i) ==
    LET n == Len(fields) nt == Len(topicFields) IN
    CASE i >= n                                   -> TRUE
      [] fields[i + 1] = <<"#">>                  -> TRUE
      [] i = nt /\ i < n - 1                      -> fields[i + 2] = <<"#">>
      [] fields[i + 1] # <<"+">> /\ fields[i + 1] # topicFields[i + 1]
                                                  -> FALSE
      [] OTHER                                    -> MatchFrom(fields, topicFields, i + 1)

\* Faulty variant (mutant): the '$' rule of section 4.7.2 is missing.
MatchesNoDollarRule(tf, topic) ==
    IF ~tf.wild THEN tf.str = topic
    ELSE LET fields == tf.fields  n == Len(fields)
             tfs == Split(topic)  nt == Len(tfs)
         IN /\ n # 0
            /\ ~(n > nt /\ ~(n = nt + 1 /\ fields[n] = <<"#">>))
            /\ ~(nt > n /\ fields[n] # <<"#">>)
            /\ MatchFrom(fields, tfs, 0)

\* topic_filter::matches: a plain filter is a string comparison; otherwise
\* the early returns on the field counts and on a '$' topic, then the loop.
Matches(tf, topic) ==
    IF ~tf.wild THEN tf.str = topic
    ELSE LET fields == tf.fields  n == Len(fields)
             tfs == Split(topic)  nt == Len(tfs)
         IN /\ n # 0
            /\ ~(n > nt /\ ~(n = nt + 1 /\ fields[n] = <<"#">>))
            /\ ~(nt > n /\ fields[n] # <<"#">>)
            /\ ~(IsWildcard(fields[1]) /\ nt > 0 /\ Len(tfs[1]) > 0
                 /\ tfs[1][1] = "$")
            /\ MatchFrom(fields, tfs, 0)

\* topic_filter::to_string: the string, or the fields joined with '/'.
FilterToString(tf) ==
    IF ~tf.wild THEN tf.str
    ELSE IF tf.fields = <<>> THEN <<>>
    ELSE FoldLeft(LAMBDA acc, f : acc \o <<"/">> \o f,
                  Head(tf.fields), Tail(tf.fields))

-----------------------------------------------------------------------------
(***************************************************************************)
(* MQTT v5 section 4.7, stated without the code's loop: the reference the *)
(* properties compare matches() with.                                      *)
(***************************************************************************)
\* The topic levels: the maximal '/'-free pieces between separators.
Levels(s) ==
    LET cuts == SetToSortSeq({i \in 1..Len(s) : s[i] = "/"} \cup {0, Len(s) + 1},
                             LAMBDA a, b : a < b)
    IN [k \in 1..Len(cuts) - 1 |-> SubSeq(s, cuts[k] + 1, cuts[k + 1] - 1)]

\* 4.7.1: a non-empty filter whose '+' and '#' each fill a whole level,
\* '#' only as the last one; a topic name is non-empty without wildcards.
ValidFilter(f) ==
    LET L == Levels(f) IN
    /\ f # <<>>
    /\ \A k \in DOMAIN L :
          /\ "+" \in ToSet(L[k]) => L[k] = <<"+">>
          /\ "#" \in ToSet(L[k]) => L[k] = <<"#">> /\ k = Len(L)
ValidTopic(t) == t # <<>> /\ ToSet(t) \cap {"+", "#"} = {}

\* 4.7.1-4.7.2: level by level, '+' matches one level, a final '#' any
\* number including none (with its parent level), and a filter starting
\* with a wildcard never matches a topic starting with '$'.
MqttMatches(f, t) ==
    LET F == Levels(f) T == Levels(t)
        LevelOk(k) == F[k] = <<"+">> \/ F[k] = T[k]
    IN /\ ~(IsWildcard(F[1]) /\ t[1] = "$")
       /\ \/ Len(F) = Len(T) /\ \A k \in 1..Len(F) : LevelOk(k)
          \/ /\ F[Len(F)] = <<"#">> /\ Len(T) >= Len(F) - 1
             /\ \A k \in 1..Len(F) - 1 : LevelOk(k)

-----------------------------------------------------------------------------
Strings == BoundedSeq(Chars, MaxLen)

VARIABLES
    filter,    \* the string the object was constructed from
    tf,        \* its filter_
    topic,     \* the topic of the last matches() call
    result     \* what it returned

vars == <<filter, tf, topic, result>>

Init == \E f \in Strings :
          /\ filter = f /\ tf = TopicFilterOf(f)
          /\ topic = <<>> /\ result = Matches(tf, topic)

\* Construct a topic_filter (the previous result belongs to the old one).
Construct(f) ==
    /\ filter' = f /\ tf' = TopicFilterOf(f)
    /\ result' = Matches(tf', topic)
    /\ UNCHANGED topic

\* matches(t).
Match(t) ==
    /\ topic' = t /\ result' = Matches(tf, t)
    /\ UNCHANGED <<filter, tf>>

Next == \E s \in Strings : Construct(s) \/ Match(s)

Spec == Init /\ [][Next]_vars

-----------------------------------------------------------------------------
TypeOK ==
    /\ filter \in Seq(Chars) /\ Len(filter) <= MaxLen
    /\ topic \in Seq(Chars) /\ Len(topic) <= MaxLen
    /\ result \in BOOLEAN /\ tf.wild \in BOOLEAN
    /\ tf.str \in Seq(Chars) /\ tf.fields \in Seq(Seq(Chars \ {"/"}))

(* For every valid filter and topic name, matches() answers exactly what  *)
(* MQTT v5 section 4.7 says: the field-count early returns, the '$' rule  *)
(* and the loop's '#' and '+' handling together implement the standard.  *)
MatchesPerMqtt ==
    ValidFilter(filter) /\ ValidTopic(topic) =>
        result = MqttMatches(filter, topic)

(* to_string() gives back the string the filter was built from: split()  *)
(* keeps every field, empty ones included, so parsing loses nothing.      *)
ToStringRoundTrip == FilterToString(tf) = filter


=============================================================================
