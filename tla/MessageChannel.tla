--------------------------- MODULE MessageChannel ---------------------------
(***************************************************************************)
(* What the consumer API of mqtt::async_client promises its reader about  *)
(* messages, stated without events, timeouts or loops: after              *)
(* start_consuming() the client receives messages in the order the        *)
(* broker delivers them; the reader takes them oldest first, each once;   *)
(* clear_consumer() discards what has not been read; after                *)
(* stop_consuming() no message is added, and what is left can still be    *)
(* read (async_client.h, the comments of start_consuming, stop_consuming,  *)
(* clear_consumer and consume_message).                                    *)
(***************************************************************************)
EXTENDS Naturals, Sequences, SequencesExt

CONSTANT MaxMsg   \* messages the broker delivers, numbered 1..MaxMsg

VARIABLES
    phase,      \* "new" before start_consuming, then "open", then "closed"
    pending,    \* messages received and not yet read, oldest first
    delivered,  \* messages the reader has taken, in order
    discarded,  \* messages dropped by clear_consumer
    next        \* number of the next message the broker delivers

chanVars == <<phase, pending, delivered, discarded, next>>

Init ==
    /\ phase = "new" /\ pending = <<>> /\ delivered = <<>>
    /\ discarded = {} /\ next = 1

Start   == /\ phase = "new" /\ phase' = "open"
           /\ UNCHANGED <<pending, delivered, discarded, next>>

Arrive  == /\ phase = "open" /\ next <= MaxMsg
           /\ pending' = Append(pending, next) /\ next' = next + 1
           /\ UNCHANGED <<phase, delivered, discarded>>

Close   == /\ phase = "open" /\ phase' = "closed"
           /\ UNCHANGED <<pending, delivered, discarded, next>>

Receive == /\ pending # <<>>
           /\ delivered' = Append(delivered, Head(pending))
           /\ pending' = Tail(pending)
           /\ UNCHANGED <<phase, discarded, next>>

Discard == /\ phase # "new"
           /\ discarded' = discarded \cup ToSet(pending) /\ pending' = <<>>
           /\ UNCHANGED <<phase, delivered, next>>

Next == Start \/ Arrive \/ Close \/ Receive \/ Discard

Spec == Init /\ [][Next]_chanVars
=============================================================================
