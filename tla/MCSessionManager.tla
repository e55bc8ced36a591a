------------------------- MODULE MCSessionManager -------------------------
EXTENDS SessionManager

CONSTANTS b1, b2, b3

\* Three brokers: enough for the failover to skip over one.
MCBrokers == <<b1, b2, b3>>

\* Two brokers: a failover target besides the current one, for the
\* liveness run, whose temporal check is costly.
MCTwoBrokers == <<b1, b2>>
=============================================================================
