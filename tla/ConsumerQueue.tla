--------------------------- MODULE ConsumerQueue ---------------------------
(***************************************************************************)
(* The consumer API of mqtt::async_client (src/include/mqtt/async_client.h)*)
(* start_consuming() hooks the client's callbacks to a thread_queue of     *)
(* events; the library's callback thread pushes every arrived message and *)
(* every connect / connection-lost / disconnect event into it; an          *)
(* application thread reads it with try_consume_message_for or              *)
(* try_consume_message_until, each a loop over try_consume_event_*.        *)
(* stop_consuming() closes the queue: what is in it can still be read,    *)
(* then every read raises queue_closed, which the event readers turn into *)
(* a shutdown event.                                                       *)
(*                                                                         *)
(* A message is a number 1..MaxMsg (the order the library delivers them); *)
(* NullMsg stands for an empty const_message_ptr.  One consumer step is    *)
(* one iteration of the message loop: one try_consume_event_* call and the*)
(* tests on the event it returns.  A timed wait that ends with an event is *)
(* the event's push followed by the read; one that ends empty is a         *)
(* timeout, possible whenever the queue is open and empty.                 *)
(***************************************************************************)
EXTENDS Naturals, Sequences, SequencesExt

CONSTANTS
    MaxMsg,     \* messages the broker delivers
    MaxOther,   \* connect / connection-lost / disconnect events
    Variants    \* the calls the application makes: the message loops "for"
                \* (relative) and "until" (absolute), and the single-event
                \* reads "event" (bool form) and "event_value" (value form)

CallKinds == {"for", "until", "event", "event_value"}

ASSUME MaxMsg \in Nat /\ MaxOther \in Nat /\ Variants \subseteq CallKinds

NullMsg == 0
Msgs    == 1..MaxMsg
\* The non-message events of mqtt::event (event.h).
Kinds   == {"connected", "connection_lost", "disconnected", "shutdown"}
\* An event: a message (with its number) or one of the other kinds.
Event(k, n) == [kind |-> k, msg |-> n]
Events  == {Event("message", m) : m \in Msgs} \cup {Event(k, NullMsg) : k \in Kinds}
Shutdown == Event("shutdown", NullMsg)
NoEvent  == Event("none", NullMsg)

VARIABLES
    started,   \* que_ is non-null
    items,     \* the events in que_
    closed,    \* que_->closed()
    nextMsg,   \* next message the library will deliver
    nOther,    \* non-message events pushed so far
    call,      \* the consumer thread: "idle", or inside one of the calls
    evt,       \* the loop's event variable: the last event it read
    ret,       \* what the last call returned: [ok, msg, thrown], and
               \* which call it came from
    got,       \* history: messages handed to the application, in order
    cleared    \* history: messages discarded by clear_consumer

vars == <<started, items, closed, nextMsg, nOther, call, evt, ret, got, cleared>>

-----------------------------------------------------------------------------
\* Faulty variant (mutant): a shutdown event is not taken for a disconnect.
IsAnyDisconnectNoShutdown(e) == e.kind \in {"connection_lost", "disconnected"}

\* event::is_any_disconnect: connection lost, disconnected, or shutdown.
IsAnyDisconnect(e) == e.kind \in {"connection_lost", "disconnected", "shutdown"}

\* Faulty variant (mutant): the reader pops the newest event.
TakeEventNewest(e) ==
    \/ items # <<>> /\ e = Last(items) /\ items' = Front(items)
    \/ items = <<>> /\ closed /\ e = Shutdown /\ UNCHANGED items

\* thread_queue::try_get_* inside try_consume_event_*: pop the head; on a
\* closed, empty queue queue_closed is caught and the event is a shutdown.
TakeEvent(e) ==
    \/ items # <<>> /\ e = Head(items) /\ items' = Tail(items)
    \/ items = <<>> /\ closed /\ e = Shutdown /\ UNCHANGED items

\* The call returns ok with *msg = m (the caller's message).
Return(ok, m) ==
    /\ ret' = [ok |-> ok, msg |-> m, thrown |-> FALSE, via |-> call]
    /\ call' = "idle"
    /\ got' = IF m # NullMsg THEN Append(got, m) ELSE got

\* The loop takes another turn.
Continue == UNCHANGED <<call, ret, got>>

\* try_consume_event_* waited and timed out: "return false".
TimedOut ==
    /\ items = <<>> /\ ~closed
    /\ Return(FALSE, NullMsg)
    /\ UNCHANGED <<items, evt>>

ConsumerUnchanged == UNCHANGED <<started, closed, nextMsg, nOther, cleared>>

-----------------------------------------------------------------------------
(***************************************************************************)
(* The library's side: start/stop/clear, and the callbacks that push.     *)
(***************************************************************************)

\* start_consuming(): create the queue (called once, before connecting).
StartConsuming ==
    /\ ~started
    /\ started' = TRUE /\ items' = <<>> /\ closed' = FALSE
    /\ UNCHANGED <<nextMsg, nOther, call, evt, ret, got, cleared>>

\* message_arrived hook: push the message while the queue is open.
PushMessage ==
    /\ started /\ ~closed /\ nextMsg <= MaxMsg
    /\ items' = Append(items, Event("message", nextMsg))
    /\ nextMsg' = nextMsg + 1
    /\ UNCHANGED <<started, closed, nOther, call, evt, ret, got, cleared>>

\* connected / connection_lost / disconnected hooks.
PushEvent(k) ==
    /\ started /\ ~closed /\ nOther < MaxOther
    /\ items' = Append(items, Event(k, NullMsg))
    /\ nOther' = nOther + 1
    /\ UNCHANGED <<started, closed, nextMsg, call, evt, ret, got, cleared>>

\* Faulty variant (mutant): closing by pushing a shutdown event, which a
\* reader then takes for a queued event.
StopConsumingPushesShutdown ==
    /\ started /\ ~closed
    /\ closed' = TRUE
    /\ items' = Append(items, Shutdown)
    /\ UNCHANGED <<started, nextMsg, nOther, call, evt, ret, got, cleared>>

\* stop_consuming(): close the queue, waking any waiting reader.
StopConsuming ==
    /\ started /\ ~closed
    /\ closed' = TRUE
    /\ UNCHANGED <<started, items, nextMsg, nOther, call, evt, ret, got, cleared>>

\* clear_consumer(): if (que_) que_->clear().  It takes the queue's lock,
\* so it falls between two iterations of a consumer loop.
ClearConsumer ==
    /\ started
    /\ items' = <<>>
    /\ cleared' = cleared \cup ({e.msg : e \in ToSet(items)} \ {NullMsg})
    /\ UNCHANGED <<started, closed, nextMsg, nOther, call, evt, ret, got>>

-----------------------------------------------------------------------------
(***************************************************************************)
(* The application's side.                                                *)
(***************************************************************************)

\* Enter a consumer call; without a queue the call throws "Consumer not
\* started".  The value form of try_consume_event_* has no such check and
\* dereferences the null que_: calling it before start_consuming() is the
\* precondition the class comment states, and is not modelled.
BeginConsume(v) ==
    /\ call = "idle"
    /\ v = "event_value" => started
    /\ IF started
       THEN call' = v /\ UNCHANGED ret
       ELSE ret' = [ok |-> FALSE, msg |-> NullMsg, thrown |-> TRUE, via |-> v]
            /\ UNCHANGED call
    /\ UNCHANGED <<started, items, closed, nextMsg, nOther, evt, got, cleared>>

\* try_consume_message_for: one turn of while (true): a message ends the
\* call with it, a disconnect ends it with an empty message, any other
\* event is skipped.
ConsumeMessageFor ==
    /\ call = "for"
    /\ \/ TimedOut
       \/ \E e \in Events :
            /\ TakeEvent(e) /\ evt' = e
            /\ IF e.kind = "message" THEN Return(TRUE, e.msg)
               ELSE IF IsAnyDisconnect(e) THEN Return(TRUE, NullMsg)
               ELSE Continue
    /\ ConsumerUnchanged

\* try_consume_message_until: the same loop, with "if (!evt.is_any_
\* disconnect())" as its second test.
ConsumeMessageUntil ==
    /\ call = "until"
    /\ \/ TimedOut
       \/ \E e \in Events :
            /\ TakeEvent(e) /\ evt' = e
            /\ IF e.kind = "message" THEN Return(TRUE, e.msg)
               ELSE IF ~IsAnyDisconnect(e) THEN Return(TRUE, NullMsg)
               ELSE Continue
    /\ ConsumerUnchanged

\* try_consume_event_for / _until (bool form): one timed try_get; a
\* timeout returns false, anything else (a shutdown on a closed, empty
\* queue included) returns true with the event.
TryConsumeEvent ==
    /\ call = "event"
    /\ \/ TimedOut
       \/ \E e \in Events : TakeEvent(e) /\ evt' = e /\ Return(TRUE, e.msg)
    /\ ConsumerUnchanged

\* try_consume_event_for / _until (value form): the try_get's result is
\* dropped, so a timeout returns the default-constructed event.
TryConsumeEventValue ==
    /\ call = "event_value"
    /\ \/ items = <<>> /\ ~closed /\ evt' = NoEvent
          /\ Return(FALSE, NullMsg) /\ UNCHANGED items
       \/ \E e \in Events : TakeEvent(e) /\ evt' = e /\ Return(TRUE, e.msg)
    /\ ConsumerUnchanged

-----------------------------------------------------------------------------
Init ==
    /\ started = FALSE /\ items = <<>> /\ closed = FALSE
    /\ nextMsg = 1 /\ nOther = 0
    /\ call = "idle" /\ evt = NoEvent
    /\ ret = [ok |-> FALSE, msg |-> NullMsg, thrown |-> FALSE, via |-> "for"]
    /\ got = <<>> /\ cleared = {}

Next ==
    \/ StartConsuming \/ PushMessage \/ StopConsuming \/ ClearConsumer
    \/ \E k \in Kinds \ {"shutdown"} : PushEvent(k)
    \/ \E v \in Variants : BeginConsume(v)
    \/ ConsumeMessageFor \/ ConsumeMessageUntil
    \/ TryConsumeEvent \/ TryConsumeEventValue

\* The reading thread runs; a timed wait does end.  The library and the
\* application decide freely when to push, stop, clear or call.
Spec == Init /\ [][Next]_vars
             /\ WF_vars(ConsumeMessageFor) /\ WF_vars(ConsumeMessageUntil)
             /\ WF_vars(TryConsumeEvent) /\ WF_vars(TryConsumeEventValue)

-----------------------------------------------------------------------------
TypeOK ==
    /\ {started, closed} \subseteq BOOLEAN
    /\ items \in Seq(Events \ {Shutdown})
    /\ nextMsg \in 1..MaxMsg + 1 /\ nOther \in 0..MaxOther
    /\ call \in {"idle"} \cup Variants
    /\ evt \in Events \cup {NoEvent}
    /\ ret \in [ok : BOOLEAN, msg : Msgs \cup {NullMsg}, thrown : BOOLEAN,
               via : CallKinds]
    /\ got \in Seq(Msgs) /\ cleared \subseteq Msgs

(* Every try_consume_message_for call returns: each wait is bounded, and a *)
(* stopped consumer ends it with a shutdown event (stop_consuming "will    *)
(* also wake up any thread waiting on the queue").                         *)
ForCallReturns ==
    call = "for" ~> call = "idle"

(* The consumer queue, seen through its messages only, implements the     *)
(* MessageChannel promise: messages are read oldest first, each once,    *)
(* none is added after stop_consuming(), and clear_consumer() drops       *)
(* exactly the unread ones.  Non-message events, timeouts and loop turns *)
(* are stuttering steps of the channel.                                   *)
Channel == INSTANCE MessageChannel WITH
    phase     <- IF ~started THEN "new" ELSE IF closed THEN "closed" ELSE "open",
    pending   <- [i \in 1..Len(SelectSeq(items, LAMBDA e : e.kind = "message"))
                     |-> SelectSeq(items, LAMBDA e : e.kind = "message")[i].msg],
    delivered <- got,
    discarded <- cleared,
    next      <- nextMsg

ImplementsMessageChannel == Channel!Spec

(* The same for try_consume_message_until.                                 *)
UntilCallReturns ==
    call = "until" ~> call = "idle"

=============================================================================
