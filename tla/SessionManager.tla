--------------------------- MODULE SessionManager ---------------------------
(***************************************************************************)
(* SelfAdaptiveMqttManager (mqtt_manager.cpp) together with the threads   *)
(* that drive it in the self_adaptive_publisher example:                  *)
(*   "app" - the main loop: publish while connected, connect() when not;  *)
(*   "cb"  - the MQTT client's callback thread: connection_lost, which    *)
(*           runs switch_to_best_broker;                                  *)
(*   "mon" - BrokerMonitorThread: measurements that update the registry   *)
(*           and, when should_switch_broker holds, switch_to_best_broker. *)
(* and an environment in which brokers go down and come back.             *)
(*                                                                         *)
(* is_connected_ and is_connecting_ are atomics read without any lock;    *)
(* client_ is a unique_ptr written under connection_mutex_ but read by    *)
(* publish() without it.  A step of this model is one access to shared    *)
(* state, or one whole locked region when nothing outside the lock can    *)
(* observe its middle.  A blocking connect (token->wait_for(10 s)) is one *)
(* step: it completes, or it is still in flight when the wait ends and    *)
(* the library resolves it later.                                         *)
(***************************************************************************)
EXTENDS Integers, Sequences, SequencesExt, Functions, FiniteSets

CONSTANTS
    Brokers,         \* the URIs given to set_brokers, in order
    Category,        \* category given to the constructor
    NoUri,           \* model value: no broker / a null client_
    Latencies,       \* latencies a probe may measure (ms)
    Bandwidths,      \* bandwidths a probe may measure (bytes/s)
    ConnCounts,      \* connection counts the $SYS topic may report
    MAX_QUEUE_SIZE,  \* mqtt_manager.h: 1000, scaled down
    MaxMsg,          \* number of messages the application publishes
    MaxFaults,       \* number of broker outages / recoveries / slow connects
    SlowConnects     \* whether a connect may outlive the 10 s wait

ASSUME /\ Brokers # <<>> /\ IsInjective(Brokers)
       /\ MAX_QUEUE_SIZE \in Nat \ {0} /\ MaxMsg \in Nat /\ MaxFaults \in Nat
       /\ SlowConnects \in BOOLEAN

NoClient == NoUri
NoThread == "none"
Threads  == {"app", "cb", "mon"}

VARIABLES
    registry,      \* broker_manager_
    up,            \* brokers currently reachable (environment)
    client,        \* client_: the broker it was created for, or NoClient
    live,          \* client_ holds an established connection
    lostPending,   \* the client has lost its connection; connection_lost
                   \* is queued for the callback thread
    isConnected,   \* is_connected_
    isConnecting,  \* is_connecting_
    tryIdx,        \* current_broker_try_index_
    lock,          \* holder of connection_mutex_
    queue,         \* message_queue_ (message numbers)
    sent,          \* history: messages handed to a client's publish, in order
    dropped,       \* history: messages popped by the queue-full policy
    nextMsg,       \* next message number the application publishes
    faults,        \* environment events so far
    pc,            \* program counter of each thread
    cands,         \* connect(): its snapshot of the available brokers
    idx,           \* connect(): loop index over cands, 1-based
    tgt,           \* cb/mon: broker being tried by the failover
    initial,       \* main has not yet returned from its first connect()
    inDtor,        \* the app thread is in ~SelfAdaptiveMqttManager
    shouldStop,    \* BrokerMonitorThread::should_stop_ (running_ is its
                   \* negation in every state the code can reach)
    disconnected,  \* history: disconnect() has returned
    reqDuring,     \* history: cb/mon asked for a switch while
                   \* is_connecting_ was set
    pending,       \* client_'s connect is still in flight (its token had
                   \* not completed when wait_for returned)
    connCb,        \* the library has queued connected() for client_ on the
                   \* callback thread
    monCur         \* mon: the current broker its should_switch_broker read

vars == <<registry, up, client, live, lostPending, isConnected, isConnecting,
          tryIdx, lock, queue, sent, dropped, nextMsg, faults, pc, cands,
          idx, tgt, initial, inDtor, shouldStop, disconnected, reqDuring,
          pending, connCb, monCur>>

\* The variables of the program's life cycle and the two histories.
lifeVars == <<initial, inDtor, shouldStop, disconnected, reqDuring>>

\* Every variable but the life cycle's, the token's and monCur.
Unchanged == <<registry, up, client, live, lostPending, isConnected,
               isConnecting, tryIdx, lock, queue, sent, dropped, nextMsg,
               faults, cands, idx, tgt>>

\* The state of client_'s connect token and its callbacks.
tokVars == <<pending, connCb>>

\* The registry's operators; the registry's own variable is this one.
R == INSTANCE BrokerRegistry WITH reg <- registry, Uris <- ToSet(Brokers),
                                  Metrics <- {}

-----------------------------------------------------------------------------
\* The "is_available" filter repeated in connect, handle_connection_failure
\* and switch_to_best_broker.
AvailableUris(r) == SelectSeq(R!GetAllBrokers(r), LAMBDA u : r.info[u].is_available)

\* Faulty variant (mutant): "size() > MAX_QUEUE_SIZE" instead of ">=".
AddMessageToQueueOffByOne(m) ==
    IF Len(queue) > MAX_QUEUE_SIZE
    THEN /\ queue' = Append(Tail(queue), m)
         /\ dropped' = dropped \cup {Head(queue)}
    ELSE /\ queue' = Append(queue, m)
         /\ UNCHANGED dropped

\* Faulty variant (mutant): a full queue discards the new message.
AddMessageToQueueDropsNewest(m) ==
    IF Len(queue) >= MAX_QUEUE_SIZE
    THEN /\ dropped' = dropped \cup {m}
         /\ UNCHANGED queue
    ELSE /\ queue' = Append(queue, m)
         /\ UNCHANGED dropped

\* add_message_to_queue: pop the oldest when full, then push.
AddMessageToQueue(m) ==
    IF Len(queue) >= MAX_QUEUE_SIZE
    THEN /\ queue' = Append(Tail(queue), m)
         /\ dropped' = dropped \cup {Head(queue)}
    ELSE /\ queue' = Append(queue, m)
         /\ UNCHANGED dropped

\* queue_mutex_ is held by resend_queued_messages for its whole loop.
QueueFree == \A t \in Threads : pc[t] # "flush"

\* The message the application thread is publishing.
Publishing == nextMsg - 1

\* What try_connect_to_broker(u) sees after token->wait_for(10 s), whose
\* result it ignores: the connect completed ("ok", or "refused" by a
\* broker that is down), or it is still in flight and get_return_code
\* reads the incomplete token as 0 or as an error (token.h is not in the
\* tree, so both are taken as possible).  A slow connect is an environment
\* event and spends the fault budget.
Outcomes(u) ==
    (IF u \in up THEN {"ok"} ELSE {"refused"})
    \cup (IF SlowConnects /\ faults < MaxFaults THEN {"slow_rc0", "slow_err"}
                                                ELSE {})

Slow(o) == o \in {"slow_rc0", "slow_err"}

\* get_return_code() == 0.
Succeeds(o) == o \in {"ok", "slow_rc0"}

SpendFault(o) == faults' = IF Slow(o) THEN faults + 1 ELSE faults

\* Faulty variant (mutant): the caller's "is_connecting_ = false" after a
\* successful connect is missing.
ConnectedKeepsConnecting(u, o) ==
    /\ client' = u
    /\ live' = (o = "ok")
    /\ pending' = Slow(o)
    /\ connCb' = FALSE
    /\ lostPending' = FALSE
    /\ registry' = R!SetCurrentBroker(registry, u)
    /\ isConnected' = TRUE
    /\ UNCHANGED isConnecting

\* try_connect_to_broker(u) returning true, followed by the caller's
\* set_current_broker, is_connected_ = true and is_connecting_ = false.
\* create_client replaced client_, dropping the old client's callbacks.
Connected(u, o) ==
    /\ client' = u
    /\ live' = (o = "ok")
    /\ pending' = Slow(o)
    /\ connCb' = FALSE
    /\ lostPending' = FALSE
    /\ registry' = R!SetCurrentBroker(registry, u)
    /\ isConnected' = TRUE
    /\ isConnecting' = FALSE

\* try_connect_to_broker(u) returning false: the new client replaces the
\* old one, its connect possibly still in flight.
ConnectFailed(u, o) ==
    /\ client' = u
    /\ live' = FALSE
    /\ pending' = Slow(o)
    /\ connCb' = FALSE
    /\ lostPending' = FALSE

Goto(t, l) == pc' = [pc EXCEPT ![t] = l]

\* connect() returns ok to main: a false from the first call is
\* "return 1", which runs ~SelfAdaptiveMqttManager; later results are
\* only logged.
ConnectReturns(ok) ==
    /\ IF initial /\ ~ok
       THEN Goto("app", "stop_mon") /\ inDtor' = TRUE
       ELSE Goto("app", "loop") /\ UNCHANGED inDtor
    /\ initial' = FALSE
    /\ UNCHANGED <<shouldStop, disconnected, reqDuring>>

-----------------------------------------------------------------------------
(***************************************************************************)
(* Application thread: the main loop of self_adaptive_publisher.cpp.      *)
(***************************************************************************)

\* Main loop: publish only when is_connected() (the interval is abstracted).
AppPublish ==
    /\ pc["app"] = "loop" /\ isConnected /\ nextMsg <= MaxMsg
    /\ nextMsg' = nextMsg + 1
    /\ Goto("app", "pub_check")
    /\ UNCHANGED <<registry, up, client, live, lostPending, isConnected,
                   isConnecting, tryIdx, lock, queue, sent, dropped, faults,
                   cands, idx, tgt>>
    /\ UNCHANGED lifeVars
    /\ UNCHANGED <<tokVars, monCur>>

\* publish(): its own read of is_connected_.
PubCheck ==
    /\ pc["app"] = "pub_check"
    /\ Goto("app", IF isConnected THEN "pub_send" ELSE "pub_enqueue")
    /\ UNCHANGED <<registry, up, client, live, lostPending, isConnected,
                   isConnecting, tryIdx, lock, queue, sent, dropped, nextMsg,
                   faults, cands, idx, tgt>>
    /\ UNCHANGED lifeVars
    /\ UNCHANGED <<tokVars, monCur>>

\* publish(): client_->publish without connection_mutex_.  A null client_
\* is a crash of the process; a client that is not connected throws and the
\* message goes to the queue.
PubSend ==
    /\ pc["app"] = "pub_send"
    /\ \/ /\ client = NoClient
          /\ Goto("app", "crashed")
          /\ UNCHANGED sent
       \/ /\ client # NoClient /\ live
          /\ sent' = Append(sent, Publishing)
          /\ Goto("app", "loop")
       \/ /\ client # NoClient /\ ~live
          /\ Goto("app", "pub_enqueue")
          /\ UNCHANGED sent
    /\ UNCHANGED <<registry, up, client, live, lostPending, isConnected,
                   isConnecting, tryIdx, lock, queue, dropped, nextMsg,
                   faults, cands, idx, tgt>>
    /\ UNCHANGED lifeVars
    /\ UNCHANGED <<tokVars, monCur>>

\* publish(): add_message_to_queue under queue_mutex_.
PubEnqueue ==
    /\ pc["app"] = "pub_enqueue" /\ QueueFree
    /\ AddMessageToQueue(Publishing)
    /\ Goto("app", "loop")
    /\ UNCHANGED <<registry, up, client, live, lostPending, isConnected,
                   isConnecting, tryIdx, lock, sent, nextMsg, faults, cands,
                   idx, tgt>>
    /\ UNCHANGED lifeVars
    /\ UNCHANGED <<tokVars, monCur>>

\* Main loop: if !is_connected() then connect().
AppReconnect ==
    /\ pc["app"] = "loop" /\ ~isConnected
    /\ Goto("app", "connect")
    /\ UNCHANGED <<registry, up, client, live, lostPending, isConnected,
                   isConnecting, tryIdx, lock, queue, sent, dropped, nextMsg,
                   faults, cands, idx, tgt>>
    /\ UNCHANGED lifeVars
    /\ UNCHANGED <<tokVars, monCur>>

\* connect(): take connection_mutex_ and return early when connected or
\* connecting; else set is_connecting_ and start the copy of the list.
ConnectBegin ==
    /\ pc["app"] = "connect" /\ lock = NoThread
    /\ IF isConnected \/ isConnecting
       THEN /\ ConnectReturns(isConnected)
            /\ UNCHANGED <<isConnecting, lock, cands, idx>>
       ELSE /\ isConnecting' = TRUE
            /\ lock' = "app"
            /\ cands' = <<>>
            /\ idx' = 1
            /\ Goto("app", "conn_read")
            /\ UNCHANGED lifeVars
    /\ UNCHANGED <<registry, up, client, live, lostPending, isConnected,
                   tryIdx, queue, sent, dropped, nextMsg, faults, tgt>>
    /\ UNCHANGED <<tokVars, monCur>>

\* connect(): one turn of the filter over get_all_brokers().  The vector is
\* copied under the registry mutex, but each broker->is_available is read
\* through its shared_ptr afterwards, without it, so the monitor can mark
\* a broker between two reads.  (The list itself does not change during a
\* session, so the current list is the copy.)  An empty result clears
\* is_connecting_ and returns false.
ConnectRead ==
    /\ pc["app"] = "conn_read"
    /\ LET u == R!GetAllBrokers(registry)[idx]
           c == IF registry.info[u].is_available THEN Append(cands, u)
                                                ELSE cands
       IN IF idx < Len(R!GetAllBrokers(registry))
          THEN /\ cands' = c /\ idx' = idx + 1
               /\ UNCHANGED <<isConnecting, lock, pc, initial, inDtor>>
          ELSE IF c = <<>>
          THEN /\ isConnecting' = FALSE /\ lock' = NoThread
               /\ cands' = <<>> /\ idx' = 1
               /\ ConnectReturns(FALSE)
          ELSE /\ cands' = c /\ idx' = 1
               /\ Goto("app", "conn_try")
               /\ UNCHANGED <<isConnecting, lock, initial, inDtor>>
    /\ UNCHANGED <<registry, up, client, live, lostPending, isConnected,
                   tryIdx, queue, sent, dropped, nextMsg, faults, tgt>>
    /\ UNCHANGED <<shouldStop, disconnected, reqDuring, tokVars, monCur>>

\* connect(): one iteration of the loop over the snapshot.
ConnectTry ==
    /\ pc["app"] = "conn_try"
    /\ LET u == cands[idx] IN
       \E o \in Outcomes(u) :
          /\ SpendFault(o)
          /\ IF Succeeds(o)
             THEN /\ Connected(u, o)
                  /\ tryIdx' = idx - 1
                  /\ Goto("app", "flush")
                  /\ UNCHANGED idx
             ELSE /\ ConnectFailed(u, o)
                  /\ registry' = R!MarkBrokerUnavailable(registry, u)
                  /\ UNCHANGED <<isConnected, tryIdx>>
                  /\ IF idx < Len(cands)
                     THEN /\ idx' = idx + 1
                          /\ Goto("app", "conn_try")
                          /\ UNCHANGED isConnecting
                     ELSE /\ isConnecting' = FALSE
                          /\ Goto("app", "conn_failed")
                          /\ UNCHANGED idx
    /\ UNCHANGED <<up, lock, queue, sent, dropped, nextMsg, cands, tgt>>
    /\ UNCHANGED lifeVars
    /\ UNCHANGED monCur

\* connect() returns true after the flush, false when every broker
\* failed, releasing connection_mutex_.
ConnectEnd ==
    /\ pc["app"] \in {"conn_done", "conn_failed"}
    /\ lock' = NoThread
    /\ cands' = <<>>
    /\ idx' = 1
    /\ ConnectReturns(pc["app"] = "conn_done")
    /\ UNCHANGED <<registry, up, client, live, lostPending, isConnected,
                   isConnecting, tryIdx, queue, sent, dropped, nextMsg,
                   faults, tgt>>
    /\ UNCHANGED <<tokVars, monCur>>

-----------------------------------------------------------------------------
(***************************************************************************)
(* resend_queued_messages: runs under connection_mutex_ (taken by connect *)
(* or switch_to_best_broker) and holds queue_mutex_ for the whole loop.   *)
(* One step per message; a publish that throws leaves the message queued  *)
(* and ends the loop.                                                     *)
(***************************************************************************)
FlushReturn(t) == IF t = "app" THEN "conn_done" ELSE "sw_end"

\* Faulty variants (mutants) of the resend loop: pop() outside the try, so
\* a message whose publish threw is discarded; "continue" in place of
\* "break", so a dead client is retried for ever.
ResendPopsOnFailure(t) ==
    /\ pc[t] = "flush"
    /\ IF queue # <<>>
       THEN /\ sent' = IF live THEN Append(sent, Head(queue)) ELSE sent
            /\ queue' = Tail(queue)
            /\ UNCHANGED pc
       ELSE /\ Goto(t, FlushReturn(t))
            /\ UNCHANGED <<queue, sent>>
    /\ UNCHANGED <<registry, up, client, live, lostPending, isConnected,
                   isConnecting, tryIdx, lock, dropped, nextMsg, faults,
                   cands, idx, tgt>>
    /\ UNCHANGED lifeVars
    /\ UNCHANGED <<tokVars, monCur>>

ResendRetriesOnFailure(t) ==
    /\ pc[t] = "flush"
    /\ IF queue # <<>>
       THEN /\ sent' = IF live THEN Append(sent, Head(queue)) ELSE sent
            /\ queue' = IF live THEN Tail(queue) ELSE queue
            /\ UNCHANGED pc
       ELSE /\ Goto(t, FlushReturn(t))
            /\ UNCHANGED <<queue, sent>>
    /\ UNCHANGED <<registry, up, client, live, lostPending, isConnected,
                   isConnecting, tryIdx, lock, dropped, nextMsg, faults,
                   cands, idx, tgt>>
    /\ UNCHANGED lifeVars
    /\ UNCHANGED <<tokVars, monCur>>

ResendQueuedMessages(t) ==
    /\ pc[t] = "flush"
    /\ IF queue # <<>> /\ live
       THEN /\ sent' = Append(sent, Head(queue))
            /\ queue' = Tail(queue)
            /\ UNCHANGED pc
       ELSE /\ Goto(t, FlushReturn(t))
            /\ UNCHANGED <<queue, sent>>
    /\ UNCHANGED <<registry, up, client, live, lostPending, isConnected,
                   isConnecting, tryIdx, lock, dropped, nextMsg, faults,
                   cands, idx, tgt>>
    /\ UNCHANGED lifeVars
    /\ UNCHANGED <<tokVars, monCur>>

-----------------------------------------------------------------------------
(***************************************************************************)
(* switch_to_best_broker and handle_connection_failure, run by the        *)
(* callback thread (connection_lost) or the monitor thread                *)
(* (on_broker_switch).                                                     *)
(***************************************************************************)

\* Take connection_mutex_; skip if is_connecting_; destroy client_ (without
\* touching is_connected_); snapshot the available brokers; pick
\* brokers[current_broker_try_index_], wrapping it to 0 when out of range.
SwitchBegin(t) ==
    /\ pc[t] = "switch" /\ lock = NoThread
    /\ IF isConnecting
       THEN /\ Goto(t, "idle")
            /\ UNCHANGED <<client, live, lostPending, isConnecting, tryIdx,
                           lock, tgt>>
            /\ UNCHANGED tokVars
       ELSE LET c == AvailableUris(registry)
                i == IF tryIdx >= Len(c) THEN 0 ELSE tryIdx
            IN /\ client' = NoClient
               /\ live' = FALSE
               /\ lostPending' = FALSE
               /\ pending' = FALSE
               /\ connCb' = FALSE
               /\ IF c = <<>>
                  THEN /\ Goto(t, "idle")
                       /\ UNCHANGED <<isConnecting, tryIdx, lock, tgt>>
                  ELSE /\ isConnecting' = TRUE
                       /\ lock' = t
                       /\ tryIdx' = i
                       /\ tgt' = [tgt EXCEPT ![t] = c[i + 1]]
                       /\ Goto(t, "sw_try")
    /\ UNCHANGED <<registry, up, isConnected, queue, sent, dropped, nextMsg,
                   faults, cands, idx>>
    /\ UNCHANGED lifeVars
    /\ UNCHANGED monCur

\* Connect to the chosen broker; on failure advance the index and enter
\* handle_connection_failure.
SwitchTry(t) ==
    /\ pc[t] = "sw_try"
    /\ \E o \in Outcomes(tgt[t]) :
          /\ SpendFault(o)
          /\ IF Succeeds(o)
             THEN /\ Connected(tgt[t], o)
                  /\ tryIdx' = 0
                  /\ Goto(t, "flush")
             ELSE /\ ConnectFailed(tgt[t], o)
                  /\ tryIdx' = tryIdx + 1
                  /\ Goto(t, "hcf")
                  /\ UNCHANGED <<registry, isConnected, isConnecting>>
    /\ UNCHANGED <<up, lock, queue, sent, dropped, nextMsg, cands,
                   idx, tgt>>
    /\ UNCHANGED lifeVars
    /\ UNCHANGED monCur

\* handle_connection_failure(failed): mark it unavailable, re-read the
\* available list, and try the entry at current_broker_try_index_ of the
\* NEW list; when the index is past its end, reset it, clear
\* is_connecting_ and back off (sleep 5 s, still holding the mutex).
HandleConnectionFailure(t) ==
    /\ pc[t] = "hcf"
    /\ LET r == R!MarkBrokerUnavailable(registry, tgt[t])
           c == AvailableUris(r)
       IN /\ registry' = r
          /\ IF c = <<>>
             THEN /\ Goto(t, "sw_end")
                  /\ UNCHANGED <<isConnecting, tryIdx, tgt>>
             ELSE IF tryIdx < Len(c)
             THEN /\ tgt' = [tgt EXCEPT ![t] = c[tryIdx + 1]]
                  /\ Goto(t, "hcf_try")
                  /\ UNCHANGED <<isConnecting, tryIdx>>
             ELSE /\ tryIdx' = 0
                  /\ isConnecting' = FALSE
                  /\ Goto(t, "backoff")
                  /\ UNCHANGED tgt
    /\ UNCHANGED <<up, client, live, lostPending, isConnected, lock, queue,
                   sent, dropped, nextMsg, faults, cands, idx>>
    /\ UNCHANGED lifeVars
    /\ UNCHANGED <<tokVars, monCur>>

\* handle_connection_failure: try the next broker; recurse on failure.
HcfTry(t) ==
    /\ pc[t] = "hcf_try"
    /\ \E o \in Outcomes(tgt[t]) :
          /\ SpendFault(o)
          /\ IF Succeeds(o)
             THEN /\ Connected(tgt[t], o)
                  /\ tryIdx' = 0
                  /\ Goto(t, "flush")
             ELSE /\ ConnectFailed(tgt[t], o)
                  /\ tryIdx' = tryIdx + 1
                  /\ Goto(t, "hcf")
                  /\ UNCHANGED <<registry, isConnected, isConnecting>>
    /\ UNCHANGED <<up, lock, queue, sent, dropped, nextMsg, cands,
                   idx, tgt>>
    /\ UNCHANGED lifeVars
    /\ UNCHANGED monCur

\* The 5 s back-off ends.
Backoff(t) ==
    /\ pc[t] = "backoff"
    /\ Goto(t, "sw_end")
    /\ UNCHANGED <<registry, up, client, live, lostPending, isConnected,
                   isConnecting, tryIdx, lock, queue, sent, dropped, nextMsg,
                   faults, cands, idx, tgt>>
    /\ UNCHANGED lifeVars
    /\ UNCHANGED <<tokVars, monCur>>

\* switch_to_best_broker clears is_connecting_ after the failure path and
\* releases connection_mutex_ on return.
SwitchEnd(t) ==
    /\ pc[t] = "sw_end"
    /\ isConnecting' = FALSE
    /\ lock' = NoThread
    /\ tgt' = [tgt EXCEPT ![t] = NoUri]
    /\ Goto(t, "idle")
    /\ UNCHANGED <<registry, up, client, live, lostPending, isConnected,
                   tryIdx, queue, sent, dropped, nextMsg, faults, cands, idx>>
    /\ UNCHANGED lifeVars
    /\ UNCHANGED <<tokVars, monCur>>

-----------------------------------------------------------------------------
(***************************************************************************)
(* Callback thread and monitor thread.                                    *)
(***************************************************************************)

\* connection_lost: clear is_connected_ (no lock), then switch_to_best_broker.
\* The callback thread delivers a connection's connected() before its loss.
ConnectionLost ==
    /\ pc["cb"] = "idle" /\ lostPending /\ ~connCb
    /\ isConnected' = FALSE
    /\ lostPending' = FALSE
    /\ Goto("cb", "switch")
    /\ reqDuring' = [reqDuring EXCEPT !["cb"] = isConnecting]
    /\ UNCHANGED <<registry, up, client, live, isConnecting, tryIdx, lock,
                   queue, sent, dropped, nextMsg, faults, cands, idx, tgt>>
    /\ UNCHANGED <<initial, inDtor, shouldStop, disconnected>>
    /\ UNCHANGED <<tokVars, monCur>>

\* monitor_loop probes a broker only while !should_stop_.  Its timers
\* start at start(), so its first turn probes nothing and sleeps
\* MONITOR_INTERVAL_MS (20 s); main calls connect() right after
\* start_monitoring(): no probe precedes the first connect()'s copy of
\* the broker list.
MonitorProbing ==
    ~shouldStop /\ ~(initial /\ pc["app"] \in {"connect", "conn_read"})

\* Faulty variant (mutant): a successful probe also marks the broker
\* available again (what spec 3 asks of the monitor).
MeasureMarksAvailable(u, m) ==
    /\ pc["mon"] = "idle" /\ MonitorProbing
    /\ u \in R!Registered(registry) /\ u \in up
    /\ registry' = R!MarkBrokerAvailable(
                      R!UpdateBrokerMetrics(registry, u, m[1], m[2], m[3]), u)
    /\ Goto("mon", "mon_check")
    /\ UNCHANGED <<up, client, live, lostPending, isConnected, isConnecting,
                   tryIdx, lock, queue, sent, dropped, nextMsg, faults, cands,
                   idx, tgt>>
    /\ UNCHANGED lifeVars
    /\ UNCHANGED <<tokVars, monCur>>

\* measure_latency / measure_bandwidth / check_connection_count succeeding:
\* merge the new value with the broker's other two metrics and call
\* update_broker_metrics; the callbacks then run on the monitor thread.
Measure(u, m) ==
    /\ pc["mon"] = "idle" /\ MonitorProbing
    /\ u \in R!Registered(registry) /\ u \in up
    /\ registry' = R!UpdateBrokerMetrics(registry, u, m[1], m[2], m[3])
    /\ Goto("mon", "mon_check")
    /\ UNCHANGED <<up, client, live, lostPending, isConnected, isConnecting,
                   tryIdx, lock, queue, sent, dropped, nextMsg, faults, cands,
                   idx, tgt>>
    /\ UNCHANGED lifeVars
    /\ UNCHANGED <<tokVars, monCur>>

\* The metrics a successful probe of u can leave: one of the three replaced.
Probes(u) ==
    LET b == registry.info[u] IN
       {<<l, b.bandwidth, b.connection_count>> : l \in Latencies}
    \cup {<<b.latency, w, b.connection_count>> : w \in Bandwidths}
    \cup {<<b.latency, b.bandwidth, n>> : n \in ConnCounts}

\* A latency or bandwidth probe throws: the broker is marked unavailable.
\* It throws for an unreachable broker, and for a reachable one when the
\* reply or the deliveries miss their 5 s / 10 s wait (an environment
\* event, which spends the fault budget).  A failed connection-count probe
\* changes nothing.
MeasureFailed(u) ==
    /\ pc["mon"] = "idle" /\ MonitorProbing
    /\ u \in R!Registered(registry)
    /\ \/ u \notin up /\ UNCHANGED faults
       \/ u \in up /\ faults < MaxFaults /\ faults' = faults + 1
    /\ registry' = R!MarkBrokerUnavailable(registry, u)
    /\ UNCHANGED <<up, client, live, lostPending, isConnected, isConnecting,
                   tryIdx, lock, queue, sent, dropped, nextMsg, pc,
                   cands, idx, tgt>>
    /\ UNCHANGED lifeVars
    /\ UNCHANGED <<tokVars, monCur>>

\* should_switch_broker's first read: get_current_broker, under the
\* registry mutex.  on_metrics_updated calls should_switch_broker
\* ("mon_check"), and on_broker_switch calls it again ("mon_recheck").
MonitorReadCurrent ==
    /\ pc["mon"] \in {"mon_check", "mon_recheck"}
    /\ monCur' = R!CurrentBroker(registry)
    /\ Goto("mon", IF pc["mon"] = "mon_check" THEN "mon_best" ELSE "mon_best2")
    /\ UNCHANGED Unchanged
    /\ UNCHANGED <<lifeVars, tokVars>>

\* should_switch_broker's second read, find_best_broker under the mutex
\* again, and its test against the current broker read before.  On the
\* first call, on_metrics_updated's own find_best_broker follows at once
\* and on_broker_switch starts; on the second, switch_to_best_broker runs.
MonitorCheck ==
    /\ pc["mon"] \in {"mon_best", "mon_best2"}
    /\ LET go == R!ShouldSwitchFrom(registry, monCur)
           final == pc["mon"] = "mon_best2"
       IN /\ Goto("mon", IF ~go THEN "idle"
                         ELSE IF final THEN "switch" ELSE "mon_recheck")
          /\ reqDuring' = IF go /\ final
                          THEN [reqDuring EXCEPT !["mon"] = isConnecting]
                          ELSE reqDuring
    /\ monCur' = NoUri
    /\ UNCHANGED Unchanged
    /\ UNCHANGED <<initial, inDtor, shouldStop, disconnected, tokVars>>

\* connected(): is_connected_ = true (no lock), on the callback thread.  It
\* is modelled for connects that outlived try_connect_to_broker's wait; for
\* one that completed within it, the caller has already set the flag.
ConnectedCallback ==
    /\ pc["cb"] = "idle" /\ connCb
    /\ isConnected' = TRUE
    /\ connCb' = FALSE
    /\ UNCHANGED <<registry, up, client, live, lostPending, isConnecting,
                   tryIdx, lock, queue, sent, dropped, nextMsg, faults, pc,
                   cands, idx, tgt, pending>>
    /\ UNCHANGED lifeVars
    /\ UNCHANGED monCur

-----------------------------------------------------------------------------
(***************************************************************************)
(* Shutdown: SIGINT/SIGTERM clears `running`; main leaves its loop, calls *)
(* stop_monitoring() and disconnect(), returns, and the manager's         *)
(* destructor calls both again.                                            *)
(***************************************************************************)
\* signal_handler: running = false; the loop ends after this iteration.
AppShutdown ==
    /\ pc["app"] = "loop"
    /\ Goto("app", "stop_mon")
    /\ UNCHANGED Unchanged
    /\ UNCHANGED lifeVars
    /\ UNCHANGED <<tokVars, monCur>>

\* Faulty variant (mutant): stop() clears running_ but never sets
\* should_stop_, so the thread it joins never leaves its loop.
StopMonitoringNoFlag ==
    /\ pc["app"] = "stop_mon"
    /\ IF shouldStop
       THEN Goto("app", "disconnect")
       ELSE Goto("app", "join")
    /\ UNCHANGED Unchanged
    /\ UNCHANGED lifeVars
    /\ UNCHANGED <<tokVars, monCur>>

\* stop_monitoring -> BrokerMonitorThread::stop: a no-op unless running_;
\* else should_stop_ = true, running_ = false, and join the thread.
StopMonitoring ==
    /\ pc["app"] = "stop_mon"
    /\ IF shouldStop
       THEN Goto("app", "disconnect") /\ UNCHANGED shouldStop
       ELSE Goto("app", "join") /\ shouldStop' = TRUE
    /\ UNCHANGED Unchanged
    /\ UNCHANGED <<initial, inDtor, disconnected, reqDuring>>
    /\ UNCHANGED <<tokVars, monCur>>

\* monitor_thread_->join() returns once monitor_loop has returned.
Join ==
    /\ pc["app"] = "join" /\ pc["mon"] = "done"
    /\ Goto("app", "disconnect")
    /\ UNCHANGED Unchanged
    /\ UNCHANGED lifeVars
    /\ UNCHANGED <<tokVars, monCur>>

\* monitor_loop: while (!should_stop_) ends at the top of an iteration.
MonitorExit ==
    /\ pc["mon"] = "idle" /\ shouldStop
    /\ Goto("mon", "done")
    /\ UNCHANGED Unchanged
    /\ UNCHANGED lifeVars
    /\ UNCHANGED <<tokVars, monCur>>

\* disconnect(): under connection_mutex_, disconnect the client (waiting
\* up to 5 s, errors logged), clear both flags and destroy the client.
\* Main's call is followed by the destructor; the destructor's call ends
\* the program.
Disconnect ==
    /\ pc["app"] = "disconnect" /\ lock = NoThread
    /\ client' = NoClient
    /\ live' = FALSE
    /\ lostPending' = FALSE
    /\ pending' = FALSE
    /\ connCb' = FALSE
    /\ isConnected' = FALSE
    /\ isConnecting' = FALSE
    /\ disconnected' = TRUE
    /\ IF inDtor
       THEN Goto("app", "gone") /\ UNCHANGED inDtor
       ELSE Goto("app", "stop_mon") /\ inDtor' = TRUE
    /\ UNCHANGED <<registry, up, tryIdx, lock, queue, sent, dropped, nextMsg,
                   faults, cands, idx, tgt>>
    /\ UNCHANGED <<initial, shouldStop, reqDuring>>
    /\ UNCHANGED monCur

-----------------------------------------------------------------------------
(***************************************************************************)
(* Environment: a broker goes down (dropping a live connection to it) or  *)
(* comes back.                                                            *)
(***************************************************************************)
BrokerDown(u) ==
    /\ faults < MaxFaults /\ u \in up
    /\ up' = up \ {u}
    /\ faults' = faults + 1
    /\ IF client = u /\ live
       THEN live' = FALSE /\ lostPending' = TRUE
       ELSE UNCHANGED <<live, lostPending>>
    /\ UNCHANGED <<registry, client, isConnected, isConnecting, tryIdx, lock,
                   queue, sent, dropped, nextMsg, pc, cands, idx, tgt>>
    /\ UNCHANGED lifeVars
    /\ UNCHANGED <<tokVars, monCur>>

\* The library resolves a connect that outlived the wait: it completes
\* (the client is connected, and connected() is queued for the callback
\* thread), or it fails and only the token's failure listener runs.
ConnectLate ==
    /\ pending
    /\ pending' = FALSE
    /\ \/ client \in up /\ live' = TRUE /\ connCb' = TRUE
       \/ UNCHANGED <<live, connCb>>
    /\ UNCHANGED <<registry, up, client, lostPending, isConnected,
                   isConnecting, tryIdx, lock, queue, sent, dropped, nextMsg,
                   faults, pc, cands, idx, tgt>>
    /\ UNCHANGED lifeVars
    /\ UNCHANGED monCur

BrokerUp(u) ==
    /\ faults < MaxFaults /\ u \notin up
    /\ up' = up \cup {u}
    /\ faults' = faults + 1
    /\ UNCHANGED <<registry, client, live, lostPending, isConnected,
                   isConnecting, tryIdx, lock, queue, sent, dropped, nextMsg,
                   pc, cands, idx, tgt>>
    /\ UNCHANGED lifeVars
    /\ UNCHANGED <<tokVars, monCur>>

-----------------------------------------------------------------------------
(***************************************************************************)
(* Initial state: main has called set_brokers(Brokers) and               *)
(* start_monitoring(), and is about to call connect().  Brokers that are *)
(* down at start are reached by BrokerDown steps before the first one.    *)
(***************************************************************************)
Init ==
    /\ registry = FoldLeft(R!AddBroker, R!EmptyRegistry, Brokers)
    /\ up = ToSet(Brokers)
    /\ client = NoClient
    /\ live = FALSE
    /\ lostPending = FALSE
    /\ isConnected = FALSE
    /\ isConnecting = FALSE
    /\ tryIdx = 0
    /\ lock = NoThread
    /\ queue = <<>>
    /\ sent = <<>>
    /\ dropped = {}
    /\ nextMsg = 1
    /\ faults = 0
    /\ pc = [app |-> "connect", cb |-> "idle", mon |-> "idle"]
    /\ cands = <<>>
    /\ idx = 1
    /\ tgt = [t \in Threads |-> NoUri]
    /\ initial = TRUE
    /\ inDtor = FALSE
    /\ shouldStop = FALSE
    /\ disconnected = FALSE
    /\ reqDuring = [t \in {"cb", "mon"} |-> FALSE]
    /\ pending = FALSE
    /\ connCb = FALSE
    /\ monCur = NoUri

Crashed == pc["app"] = "crashed"

\* The process has ended: crashed, or main has returned.
Ended == pc["app"] \in {"crashed", "gone"}

\* The end of the process stops every thread.
Next ==
    /\ ~Ended
    /\ \/ AppPublish \/ PubCheck \/ PubSend \/ PubEnqueue
       \/ AppReconnect \/ ConnectBegin \/ ConnectRead \/ ConnectTry \/ ConnectEnd
       \/ AppShutdown \/ StopMonitoring \/ Join \/ MonitorExit \/ Disconnect
       \/ \E t \in Threads : ResendQueuedMessages(t)
       \/ \E t \in {"cb", "mon"} :
             \/ SwitchBegin(t) \/ SwitchTry(t) \/ HandleConnectionFailure(t)
             \/ HcfTry(t) \/ Backoff(t) \/ SwitchEnd(t)
       \/ ConnectionLost \/ MonitorReadCurrent \/ MonitorCheck \/ ConnectedCallback \/ ConnectLate
       \/ \E u \in ToSet(Brokers) :
             \/ \E m \in Probes(u) : Measure(u, m)
             \/ MeasureFailed(u)
             \/ BrokerDown(u) \/ BrokerUp(u)

\* The scheduler runs every thread that can run; the main loop retries
\* connect() every second; the library ends every connect it started
\* (its own connect timeout).  Publishing, signals and the rest of the
\* environment are not forced.
Fairness ==
    /\ WF_vars(PubCheck) /\ WF_vars(PubSend) /\ WF_vars(PubEnqueue)
    /\ WF_vars(AppReconnect) /\ WF_vars(ConnectBegin) /\ WF_vars(ConnectRead)
    /\ WF_vars(ConnectTry) /\ WF_vars(ConnectEnd)
    /\ \A t \in Threads : WF_vars(ResendQueuedMessages(t))
    /\ \A t \in {"cb", "mon"} :
          /\ WF_vars(SwitchBegin(t)) /\ WF_vars(SwitchTry(t))
          /\ WF_vars(HandleConnectionFailure(t)) /\ WF_vars(HcfTry(t))
          /\ WF_vars(Backoff(t)) /\ WF_vars(SwitchEnd(t))
    /\ WF_vars(ConnectionLost) /\ WF_vars(MonitorReadCurrent)
    /\ WF_vars(MonitorCheck)
    /\ WF_vars(ConnectedCallback) /\ WF_vars(ConnectLate)
    /\ WF_vars(StopMonitoring) /\ WF_vars(Join) /\ WF_vars(MonitorExit)
    /\ WF_vars(Disconnect)

Spec == Init /\ [][Next]_vars /\ Fairness

-----------------------------------------------------------------------------
Pcs == {"loop", "pub_check", "pub_send", "pub_enqueue", "crashed", "connect", "conn_read",
        "conn_try", "conn_done", "flush", "idle", "switch", "sw_try", "hcf",
        "hcf_try", "backoff", "sw_end", "mon_check", "mon_best", "mon_recheck",
        "mon_best2", "conn_failed", "stop_mon",
        "join", "disconnect", "gone", "done"}

TypeOK ==
    /\ registry.uris = Brokers /\ registry.cur \in 0..Len(Brokers) - 1
    /\ up \subseteq ToSet(Brokers)
    /\ client \in ToSet(Brokers) \cup {NoClient}
    /\ {live, lostPending, isConnected, isConnecting} \subseteq BOOLEAN
    /\ tryIdx \in 0..Len(Brokers)
    /\ lock \in Threads \cup {NoThread}
    /\ queue \in Seq(1..MaxMsg) /\ Len(queue) <= MAX_QUEUE_SIZE
    /\ sent \in Seq(1..MaxMsg)
    /\ dropped \subseteq 1..MaxMsg
    /\ nextMsg \in 1..MaxMsg + 1 /\ faults \in 0..MaxFaults
    /\ pc \in [Threads -> Pcs]
    /\ cands \in Seq(ToSet(Brokers))
    /\ idx \in 1..Len(Brokers)
    /\ tgt \in [Threads -> ToSet(Brokers) \cup {NoUri}]
    /\ {initial, inDtor, shouldStop, disconnected} \subseteq BOOLEAN
    /\ reqDuring \in [{"cb", "mon"} -> BOOLEAN]
    /\ {pending, connCb} \subseteq BOOLEAN
    /\ monCur \in ToSet(Brokers) \cup {NoUri}

\* How many times m occurs in the sequence s.
Occurrences(s, m) == Cardinality({i \in DOMAIN s : s[i] = m})

\* Messages the application thread is in the middle of publishing.
InHand ==
    IF pc["app"] \in {"pub_check", "pub_send", "pub_enqueue", "crashed"}
    THEN {Publishing} ELSE {}

(* Every message the application has published is, at every moment,       *)
(* accounted for exactly once: handed to a client's publish, waiting in   *)
(* message_queue_, popped by the queue-full policy, or still inside        *)
(* publish().  Covers the unlocked publish racing a failover, the throw    *)
(* path that re-queues, and resend_queued_messages stopping on an error.  *)
NoMessageLostOrDuplicated ==
    \A m \in 1..nextMsg - 1 :
          Occurrences(sent, m) + Occurrences(queue, m)
        + (IF m \in dropped THEN 1 ELSE 0)
        + (IF m \in InHand THEN 1 ELSE 0)
      = 1

(* The queue-full policy only ever discards messages older than every     *)
(* message still queued (spec 4.5: oldest-drop), whatever the interleaving *)
(* of publishes with flushes that drain the queue.                          *)
QueueDropsOldest ==
    \A d \in dropped : \A m \in ToSet(queue) : d < m

(* Whenever no thread holds connection_mutex_, is_connecting_ is false.   *)
(* A path that left it set would turn every later connect() and every     *)
(* connection_lost failover into a silent no-op.                           *)
ConnectingClearedWhenUnlocked ==
    lock = NoThread => ~isConnecting

(* connect() gives up because no broker is available only when, at the   *)
(* moment it gives up, none is: its filter reads each                     *)
(* broker->is_available at a different time, outside the registry mutex, *)
(* while the monitor thread marks brokers, and must still never return    *)
(* false for want of a broker that is available.                           *)
ConnectGivesUpOnlyWhenNoneAvailable ==
    [][pc["app"] = "conn_read" /\ pc'["app"] \notin {"conn_read", "conn_try"}
       => AvailableUris(registry') = <<>>]_vars

(* A thread that takes connection_mutex_ (connect, or a failover walking  *)
(* the broker list, flushing the queue and backing off) eventually        *)
(* releases it.                                                            *)
MutexEventuallyReleased ==
    lock # NoThread ~> (lock = NoThread \/ Ended)

(* Once main has left its loop, the program ends: stop() sets              *)
(* should_stop_ before it joins, the monitor loop sees it at its next     *)
(* iteration (after finishing a switch it may be running), and both       *)
(* disconnect() calls get connection_mutex_ from a failover in progress.  *)
ShutdownCompletes ==
    pc["app"] = "stop_mon" ~> Ended

-----------------------------------------------------------------------------
(***************************************************************************)
(* What the spec and the code's comments promise, checked as expected     *)
(* violations (see README, "findings").                                    *)
(***************************************************************************)

(* publish() never calls through a null client_: whenever it has seen     *)
(* is_connected_ true, a client exists (spec 9: the state machine is      *)
(* guarded so that connection_lost never races publish).                   *)
NoNullClientPublish == ~Crashed

(* Messages reach the active client in the order the application         *)
(* published them (spec 4.5/5: the offline-queue flush is strictly FIFO;  *)
(* scenario 2: after reconnecting, p2 then p3).                           *)
SentInPublishOrder ==
    \A i, j \in DOMAIN sent : i < j => sent[i] < sent[j]

(* The fall-through gives up (back-off) only after every available broker *)
(* has been tried (spec 4.4: a failure marks the broker unavailable and   *)
(* advances to the next available broker; the cursor resets when it      *)
(* passes the end).  A broker tried and refused is no longer available,   *)
(* so none may remain available when the back-off starts.                 *)
GiveUpOnlyWhenNoneAvailable ==
    \A t \in {"cb", "mon"} :
        pc[t] = "backoff" => AvailableUris(registry) = <<>>

(* If, from some point on, some broker stays reachable, the session is    *)
(* connected again and again (spec 3: available is set again when a fresh *)
(* probe succeeds; 7: all brokers exhausted means back off and retry).    *)
ReconnectsWhileABrokerIsUp ==
    <>[](up # {}) => []<>((isConnected /\ live) \/ Ended)

(* A switch requested while another is in progress is a no-op (spec 4.4:  *)
(* "Re-entry is guarded: if is_connecting is already set, the call is a   *)
(* no-op"; 7, "Swap-during-swap").  A connection_lost or on_broker_switch *)
(* that arrived while is_connecting_ was set never goes on to tear down   *)
(* the client and connect.                                                 *)
SwapDuringSwapIsNoOp ==
    \A t \in {"cb", "mon"} : pc[t] = "sw_try" => ~reqDuring[t]

(* After disconnect() has returned no client exists (spec 4.4: explicit   *)
(* disconnect() takes the session to Idle), whatever failover the         *)
(* callback thread still had pending.                                      *)
DisconnectIsFinal ==
    disconnected => client = NoClient

=============================================================================
