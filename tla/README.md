# TLA+ models of the self-adaptive MQTT publisher

This directory holds TLA+ models of the self-adaptive publisher built on Paho MQTT C++:
`SelfAdaptiveMqttManager`, `BrokerListManager`, `BrokerMonitorThread` and the
`self_adaptive_publisher` program from start to exit. It also models two parts
of the Paho library that are in this tree: topic-filter matching (`topic.cpp`)
and the consumer API of `async_client` (`async_client.h`). It holds the TLC
configurations that check them. Every definition is translated from the source. `PROJECT.json`
gives, for each definition, the source lines it models (`map`), the runs,
the mutants that show each property can fail, the findings and the hazards.

## 1. The system

| Part | Source | State | Operations |
|---|---|---|---|
| Score model | `src/unnamed/part_003` (CATEGORY_WEIGHTS), `broker_monitor_thread.h` 86-117 (`BrokerInfo::update_score`) | none (pure) | weighted score of latency, bandwidth, connection count |
| Broker registry | `broker_monitor_thread.h` 75-343 (`BrokerListManager`), `part_001` (header) | ordered `brokers_`, `BrokerInfo` records, `current_broker_index_`, one mutex | add, remove, clear, set_current, find_best, should_switch, update_metrics, mark (un)available |
| Session manager | `src/unnamed/part_000` (`mqtt_manager.cpp`), `part_002` 1-135 (header) | `client_`, `is_connected_`, `is_connecting_` (atomics), `connection_mutex_`, `current_broker_try_index_`, `message_queue_` + `queue_mutex_` | connect, disconnect, publish, connection_lost, connected, switch_to_best_broker, handle_connection_failure, resend_queued_messages, add_message_to_queue |
| Monitor thread | `part_002` 135-530 | `running_`, `should_stop_`, interval timers | start/stop (join), probe latency/bandwidth/connections of every broker, update the registry, fire `on_metrics_updated` |
| Main program | `self_adaptive_publisher.cpp` 1-187 | `running` (signal flag), message counter | start monitoring, first connect (exit on failure), publish every 5 s when `is_connected()`, `connect()` when not, shutdown on a signal, then the manager's destructor |
| Topic filters | `src/src/topic.cpp` | the filter's fields or string | `topic::split`, `topic_filter` construction, `matches`, `to_string` |
| Consumer API | `src/include/mqtt/async_client.h` 769-1027 | `que_` (a `thread_queue<event>`) | start/stop_consuming, clear_consumer, try_consume_event_for/_until, try_consume_message_for/_until |
| Rest of Paho | `async_client.h` (declarations) | (implemented in `async_client.cpp`, not in this tree) | connect, publish, disconnect, callbacks |

**How the parts interact.** Three threads share the manager:

- **The application thread** runs the main loop, `publish` and `connect`.
- **The MQTT client's callback thread** runs `connection_lost`, which calls `switch_to_best_broker` and, through it, `handle_connection_failure` and `resend_queued_messages`.
- **The monitor thread** runs the probes. Each probe updates the registry and calls `on_metrics_updated`. When `should_switch_broker` holds, that callback calls `on_broker_switch`, and through it `switch_to_best_broker`, on the monitor thread.

These threads share the following state:

- `is_connected_` and `is_connecting_` are read without a lock.
- `client_` is written under `connection_mutex_`, but `publish` reads it without that lock.
- The registry protects each of its methods with its own mutex. Callers nevertheless read `BrokerInfo` fields through shared pointers, outside that mutex.

**What makes it hard.** The hard cases are:

- A publish racing a failover that destroys the client.
- Two failover initiators, connection loss and the monitor.
- Brokers going down and coming back in the middle of a failover.
- The resend loop meeting a dead client.
- A bounded queue.
- A retry cursor (`current_broker_try_index_`) that indexes a list which changes under it.
- Startup and shutdown: the monitor runs before the first `connect()`, and a failover can still be waiting on the mutex when `disconnect()` and the destructor run.
- A connect that outlives its 10 s wait and completes, or fails, after the code has moved on.
- In the consumer API, a loop that pops events and must neither lose a message nor miss the close of the queue.

## 2. Modules

| Module | Models | Notes |
|---|---|---|
| `ScoreModel` | `CATEGORY_WEIGHTS`, `update_score` | Fixed-point integers. Weights are in tenths, components in thousandths, and a score is in ten-thousandths (`ScoreUnit` = 1.0). The hysteresis of 0.1 is therefore 1000. |
| `BrokerRegistry` | `BrokerListManager` | The registry is a record `[uris, info, cur]`, and each public method is an operator from registry to registry. These are atomic because each method holds the mutex for its whole body. `find_best_broker` is a `RECURSIVE` scan. The module also has a stand-alone spec (`reg`, one action per mutating method). |
| `MCBrokerRegistry` | TLC instance | Three brokers as model values. There are three metric triples: scores 0.92 and 0.50, and one whose latency score clamps to 0. |
| `SessionManager` | manager, main loop, monitor callbacks, environment | It uses the registry's operators through `INSTANCE BrokerRegistry WITH reg <- registry`. |
| `MCSessionManager` | TLC instance | Brokers `<<b1, b2, b3>>`. |
| `TopicFilter` | `topic::split`, `topic_filter` | A string is a sequence of one-character strings. Positions are 1-based, with 0 for `npos`. `SplitFrom` and `MatchFrom` are `RECURSIVE` translations of the do-while and for loops. `MqttMatches` is a reference definition written from MQTT v5 section 4.7 (levels via `SetToSortSeq`), not from the code. A small state machine constructs a filter and calls `matches`. |
| `MCTopicFilter` | TLC instance | Characters `{a, $, /, +, #}`, strings up to length 3. |
| `ConsumerQueue` | consumer API of `async_client` | `items` is the queue, `closed` its closed flag, and `call` the consumer thread inside a `for` or `until` loop or a timed event read. `TakeEvent` is `try_get_*` with the `queue_closed` catch. One consumer step is one loop iteration. The constants are plain values, so the cfgs instantiate it directly. |
| `MessageChannel` | what the consumer API promises | An abstract channel: `phase` (new, open, closed), `pending` messages oldest first, `delivered` and `discarded`. `ConsumerQueue` instantiates it with a refinement mapping (`Channel == INSTANCE MessageChannel WITH ...`): `pending` is the messages among the queued events, `delivered` the messages returned, `discarded` those cleared. |

### SessionManager: state and actions

The state variables correspond to the code as follows:

- `client`, `isConnected`, `isConnecting`, `tryIdx`, `lock` and `queue` are `client_`, `is_connected_`, `is_connecting_`, `current_broker_try_index_`, the holder of `connection_mutex_`, and `message_queue_`.
- `live` says whether the client holds a connection.
- `lostPending` says whether the library has yet to deliver `connection_lost`.
- `pc` is each thread's program counter.
- `cands` and `idx` are `connect()`'s locals. `tgt[t]` is the broker a failover is trying.
- `up` (reachable brokers) and `faults` describe the environment.
- `sent`, `dropped` and `nextMsg` are history: the messages handed to a client, the messages discarded by the full queue, and the main loop's message counter.
- `initial` is true until main's first `connect()` returns, `inDtor` says the app thread is in the manager's destructor, and `shouldStop` is `should_stop_` (`running_` is its negation in every reachable state).
- `disconnected` and `reqDuring` are history: `disconnect()` has returned, and a thread asked for a switch while `is_connecting_` was set.
- `pending` says a connect token the code stopped waiting on is still running; `connCb` says the library has queued `connected()` for the callback thread; `monCur` is the current broker the monitor read in `should_switch_broker`.

A step is one access to shared state, or a whole locked region that nothing outside can observe in its middle. A blocking connect (`wait_for`) is one step. Its outcome (`Outcomes`) is `ok` for a live broker and `refused` for a dead one. With `SlowConnects` it may also outlive the 10 s wait: the code ignores `wait_for`'s result and reads `get_return_code()` of the unfinished token, which is 0 or an error (`token.h` is not in this tree, so both are kept, `slow_rc0` and `slow_err`). A slow connect spends one of the `MaxFaults` environment events.

The actions correspond to the code as follows:

- **Main loop:**
  - `AppPublish` is the main loop's `if (is_connected())`.
  - `PubCheck`, `PubSend` and `PubEnqueue` model `publish()`. `PubCheck` is its read of the flag. `PubSend` is the unlocked `client_->publish`: a null `client_` crashes the process, and a dead client throws, so the message is queued. `PubEnqueue` is `add_message_to_queue`.
  - `AppReconnect` is `if (!is_connected()) connect()`.
- **connect():** `ConnectBegin` covers its early return and the setting of `is_connecting_`. `ConnectRead` is one turn of the filter over `get_all_brokers()`: the vector is copied under the registry mutex, but each `broker->is_available` is read through its shared pointer afterwards, without the mutex, so the monitor's `MeasureFailed` can fall between two reads. An empty result clears `is_connecting_` and returns false. `ConnectTry` is one iteration of the connect loop, and `ConnectEnd` its return (true after the flush, false when every broker failed). `ConnectReturns` is main's use of the result: a false from the first call is `return 1`, which runs the destructor.
- **Shutdown:** `AppShutdown` is the signal that ends the loop. `StopMonitoring` is `stop()`: a no-op when not running, else set `should_stop_`. `Join` waits for `MonitorExit`, the monitor loop's `while (!should_stop_)` test. `Disconnect` is `disconnect()` under the mutex. It is called by main and again by the destructor, which ends the program (`pc["app"] = "gone"`).
- **resend_queued_messages:** `ResendQueuedMessages(t)` sends one message per step. It stops on a throw.
- **Failover (switch_to_best_broker and handle_connection_failure):**
  - `SwitchBegin(t)` takes the lock, destroys the client, snapshots the list and picks `brokers[current_broker_try_index_]`.
  - `SwitchTry(t)` makes that connection attempt.
  - `HandleConnectionFailure(t)` marks the broker unavailable, re-reads the list and indexes it.
  - `HcfTry(t)` is the recursive try.
  - `Backoff(t)` is the 5 s sleep under the lock.
  - `SwitchEnd(t)` clears `is_connecting_` and unlocks.
- **Callback thread:** `ConnectionLost` is the library delivering `connection_lost`. `ConnectedCallback` is `connected()` (mqtt_manager.cpp 251-260), which sets `is_connected_`.
- **Library:** `ConnectLate` resolves a connect the code stopped waiting on: it completes if the broker is still up, and queues `connected()`, or it fails silently. Destroying the client (`client_.reset()` in a switch, or `disconnect()`) drops a pending connect.
- **Monitor thread:**
  - `Measure(u, m)` is a successful probe, which replaces one of the three metrics. Probes run only while `!should_stop_`. `MonitorProbing` also encodes the one timing fact kept: the loop's timers start at `start()`, so its first turn probes nothing and sleeps 20 s, and main calls `connect()` right after `start_monitoring()`, so no probe precedes the first `connect()` taking the mutex.
  - `MeasureFailed(u)` is a failing latency or bandwidth probe, which marks the broker unavailable. It fails for a broker that is down, and also for one that is up when the reply or the deliveries miss their 5 s or 10 s wait (part_002 407 and 462). The second case is an environment event and spends the fault budget.
  - `MonitorReadCurrent` and `MonitorCheck` are `on_metrics_updated` → `should_switch_broker` → `on_broker_switch`. `should_switch_broker` takes the registry mutex separately for `get_current_broker` and `find_best_broker`, and `on_broker_switch` calls it a second time, so each read is a step of its own and other threads run between them.
- **Environment:** `BrokerDown(u)` and `BrokerUp(u)`. Taking a broker down drops a live connection to it.

`Init` is the state after `set_brokers` and `start_monitoring`, just before the first `connect()`, with every broker up. Brokers down at start are reached by `BrokerDown` steps first. The program stops when `main` returns (`gone`), after a failed first connect or after a signal, and when it crashes (`crashed`). That is why the session configs say `CHECK_DEADLOCK FALSE`.

### Fairness

Every thread step is weakly fair, including the shutdown steps and the monitor's exit test. The OS schedules runnable threads, and the main loop retries every second. `AppPublish`, `AppShutdown`, the monitor's probes and the environment are not fair. Publishing depends on a timer the model does not force, and a signal may never come. Probes are not forced so that liveness does not depend on the monitor. The environment may do nothing. `ConnectLate` is weakly fair because the library ends every connect it starts (the options set a 10 s connect timeout); `ConnectedCallback` and `MonitorReadCurrent` are thread steps like the others.

In `ConsumerQueue` the two consumer loops are weakly fair: a thread inside `try_consume_message_*` keeps running, and a timed wait on an open, empty queue does time out (`TimedOut`). The library's pushes, `stop_consuming`, `clear_consumer` and new calls are not fair.

## 3. Runs

| Run | Config | Expect | What it shows |
|---|---|---|---|
| registry | `MCBrokerRegistry.cfg` | pass | Any sequence of registry calls keeps `current_broker_index_` valid (`CurrentInRange`). `find_best_broker` equals the reference "first maximal available broker" (`BestIsFirstMaximal`). Scores always match metrics and availability (`ScoreMatchesMetrics`). Add-then-remove is the identity (`AddRemoveRoundTrip`). Removing a non-current broker keeps the current one (`RemoveKeepsCurrent`, an action property). 10k states. |
| session_safety | `MCSessionManager.cfg` | pass | No message is lost or duplicated across every interleaving of startup, publish, failover, flush, shutdown, slow connects and 2 faults (`NoMessageLostOrDuplicated`). The full queue drops only older messages (`QueueDropsOldest`). `is_connecting_` is false whenever the mutex is free (`ConnectingClearedWhenUnlocked`). About 6.5M states, under 2 min. |
| session_mutex_liveness | `MCSessionLiveness.cfg` | pass | `connection_mutex_` is always released (`MutexEventuallyReleased`). Once main leaves its loop, the program ends (`ShutdownCompletes`): `stop()` sets the flag before it joins, and both `disconnect()` calls get the mutex. `connect()` gives up for want of an available broker only when none is available at that moment, although its filter reads each broker at a different time (`ConnectGivesUpOnlyWhenNoneAvailable`, an action property). About 0.36M states, 40 s. |
| null_client_publish | `MCSessionNullClient.cfg` | violation | `NoNullClientPublish`: a monitor-triggered switch destroys `client_` while `is_connected_` is true, and `publish` dereferences null. |
| send_order | `MCSessionOrder.cfg` | violation | `SentInPublishOrder`: `is_connected_ = true` comes before the flush, so a new publish overtakes the queued ones. |
| give_up_early | `MCSessionGiveUp.cfg` | violation | `GiveUpOnlyWhenNoneAvailable`: `handle_connection_failure` indexes the shrunken list with the old cursor and skips a live broker. |
| reconnect_liveness | `MCSessionReconnect.cfg` | violation | `ReconnectsWhileABrokerIsUp`: availability is never restored, so once all brokers are marked unavailable the client never reconnects. |
| swap_during_swap | `MCSessionSwap.cfg` | violation | `SwapDuringSwapIsNoOp`: the monitor asks for a switch during the first `connect()`. It waits on the mutex, finds `is_connecting_` already cleared, and tears down the client that was just connected. |
| disconnect_final | `MCSessionDisconnect.cfg` | violation | `DisconnectIsFinal`: a broker drops during shutdown. The `connection_lost` failover waits on the mutex, runs after main's `disconnect()`, and creates a new client. |
| topic_filter | `MCTopicFilter.cfg` | pass | For every filter and topic up to length 3, `matches()` agrees with MQTT v5 section 4.7 on valid inputs (`MatchesPerMqtt`), and `to_string()` gives back the constructed string (`ToStringRoundTrip`). 24k states. |
| consumer_queue | `MCConsumerQueue.cfg` | pass | Both loops, both event reads, pushes, stop and clear interleaved. Every call of `try_consume_message_for` returns (`ForCallReturns`). Seen through its messages, the queue implements the abstract `MessageChannel` (`ImplementsMessageChannel`). That covers several guarantees: messages come out oldest first and each exactly once; nothing is added after `stop_consuming()`; a shutdown does not cut off queued messages; and `clear_consumer()` drops exactly the unread ones. The FIFO order and the drain-before-close come from the documented contract of `thread_queue`, which is not in this tree. |
| consumer_until_spin | `MCConsumerUntilSpin.cfg` | violation | `UntilCallReturns`: after `stop_consuming()`, `try_consume_message_until` reads a shutdown event on every turn and never returns. |

### Bounds

- **Three brokers.** This is the smallest list in which the retry cursor can skip a broker, and in which removal can shift the current index.
- **`MAX_QUEUE_SIZE` = 1.** This makes the drop-oldest path fire with two messages.
- **`MaxMsg` = 2 messages.** That is enough for one to be queued while the other overtakes it.
- **`MaxFaults` = 2 environment events.** An event is a broker going down or up, a slow connect, or a probe timing out on a working broker. With two, every failover branch fires: all brokers failing, the cursor running past the end, and the list becoming empty mid-failover.
- **Latencies {10, 90}.** These give scores 0.54 and 0.06, a difference above the 0.1 hysteresis, so monitor-triggered switches happen. Bandwidth and connection count are fixed at 0 to keep the state space small. The registry run varies all three metrics.

The liveness run uses two brokers and `MaxMsg` = 1 to keep the temporal check fast, with `MaxFaults` = 2. Two faults let a probe time out on each broker while `connect()` reads, which is what the mutant of `ConnectGivesUpOnlyWhenNoneAvailable` needs. The session violation runs use the smallest bounds that reach their counterexample: a single fault for swap-during-swap and disconnect.

- **Topic strings of length 3** over `{a, $, /, +, #}`. These cover empty levels, `+` and `#` in every position, `$` topics, and the `#`-matches-parent case (`a/#` against `a`). Length 4 takes too long for the 5-minute budget.
- **Consumer: 2 messages and 2 other events.** This is enough for a message behind a non-message event, a clear between two messages, and a close with events still queued.

Every action and every branch of `Next` fires in the passing runs except one: the `is_connecting_` early return of `switch_to_best_broker` never fires. It is dead code, because every holder of the mutex clears `is_connecting_` before releasing it, and `ConnectingClearedWhenUnlocked` checks exactly that.

## 4. Findings

The seven violation runs are seven disagreements between the code and the spec, the code's own documentation or its intent. PROJECT.json `findings` gives the details:

1. **A null `client_` dereference in `publish`** (mqtt_manager.cpp 145/152 against 382). This is a code bug. The same missing `is_connected_ = false` also leaves the flag true after a failed monitor-triggered switch (394-398, 419-425).
2. **Queued messages overtaken by new publishes** (mqtt_manager.cpp 411 before 418). This diverges from the spec's FIFO flush.
3. **The retry cursor skips available brokers** (mqtt_manager.cpp 338). This diverges from the spec's "advance to the next available broker".
4. **Availability is never restored** (`update_broker_metrics` does not set it, and `mark_broker_available` is never called). This diverges from the spec's "set available when a fresh probe succeeds". The run sets `SlowConnects` to FALSE to show this mechanism; with slow connects a second one appears: a slow connect read as return code 0 later fails, and `is_connected_` stays true with no connection. A fix that restores availability would expose another hazard: `connect()` reads each broker's availability without the registry mutex, so it could give up while a broker is available. The mutant of `ConnectGivesUpOnlyWhenNoneAvailable` shows this.
5. **A swap during a swap is not a no-op** (mqtt_manager.cpp 373). The guard is tested after the mutex is taken, when it is always clear. This diverges from spec 4.4 and the table in 7.
6. **`disconnect()` is not final** (mqtt_manager.cpp 121). A pending `connection_lost` failover reconnects afterwards and runs while the destructor is under way. This is a code bug.
7. **`try_consume_message_until` spins after `stop_consuming()`** (async_client.h 1007). Its test `!evt.is_any_disconnect()` is the inverse of the `_for` variant's. As a result, a connected event returns true with no message, and the shutdown event is skipped for ever. This is a code bug.

One more disagreement was seen and is not a run. `topic_filter("")` matches the empty topic, because a wildcard-free filter is a string comparison (topic.cpp 125). The comment above `has_wildcards` says an empty filter can't match anything. MQTT forbids empty filters and topics, so `MatchesPerMqtt` does not cover this case.

## 5. Not modelled (yet) and plan

Still to do, in order of importance:

1. **Runtime `add_broker`/`remove_broker`/`set_brokers` concurrent with a session.** This includes removing the current broker. The example only calls `set_brokers`, and only before monitoring starts.
2. **Unlocked reads in `switch_to_best_broker` and `handle_connection_failure`.** They filter the broker list the same way as `connect()` (mqtt_manager.cpp 327 and 389), but each filter is modelled as one step. Only `connect()`'s filter is split into one read per broker. A read of a `bool` or `double` that races a write is taken to give the old or the new value.
3. **An abstract FIFO offline-queue spec,** with `SessionManager`'s queue shown to refine it (`INSTANCE ... WITH`). It would hold only where the findings above do not bite.
4. **`subscribe`/`unsubscribe`,** which the program never calls; they only forward to the client after an unlocked `is_connected_` test.

These stay out of the models:

- **Timing.** The monitor intervals, the 5 s and 1 s sleeps, and `wait_for` timeouts become interleaving freedom. The one exception is that the first probe follows the first `connect()`.
- **Measurement internals.** The test client, the ping loop and the $SYS subscription become the set of values a probe can return.
- **Floating-point rounding of scores.** It is modelled as exact fixed point, listed as a hazard.
- **Logging, statistics printing and argument parsing.**
- **The rest of Paho.** `consume_message`, `try_consume_message`, `consume_event`, connect, publish, disconnect and the callbacks are implemented in `async_client.cpp`, which is not in this tree. The session model treats them as the environment. `mqtt::event::is_any_disconnect` (event.h, also absent) is taken to be connection lost, disconnected or shutdown.
