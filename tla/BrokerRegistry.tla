--------------------------- MODULE BrokerRegistry ---------------------------
(***************************************************************************)
(* BrokerListManager: the ordered, mutex-protected list of BrokerInfo      *)
(* records and the index of the current broker.                            *)
(*                                                                         *)
(* A registry value is a record                                            *)
(*   uris : the registration order (brokers_), URIs unique;               *)
(*   info : [set of registered URIs -> BrokerInfo fields];               *)
(*   cur  : current_broker_index_, 0-based as in the code.                *)
(* Every public operation takes the one registry mutex for its whole body, *)
(* so each is an operator from registry to registry, applied atomically.  *)
(* BrokerInfo::last_check is left out: no property reads it.              *)
(***************************************************************************)
EXTENDS Integers, Sequences, SequencesExt, Functions, ScoreModel

CONSTANTS
    Uris,          \* broker URIs a caller may register
    Category,      \* the category string given to the constructor
    NoUri,         \* model value: "no broker" (a nullptr shared_ptr)
    Metrics        \* <<latency, bandwidth, connection_count>> a caller may report

ASSUME NoUri \notin Uris

\* The hysteresis of should_switch_broker, SWITCH_THRESHOLD = 0.1.
SWITCH_THRESHOLD == 1000

\* BrokerInfo's constructor: metrics 0, score 0, available.
NewBrokerInfo ==
    [latency |-> 0, bandwidth |-> 0, connection_count |-> 0,
     score |-> 0, is_available |-> TRUE]

\* BrokerListManager's constructor.
EmptyRegistry == [uris |-> <<>>, info |-> <<>>, cur |-> 0]

Registered(r) == ToSet(r.uris)

\* get_all_brokers: a copy of brokers_ taken under the mutex; its entries
\* are the registry's own BrokerInfo objects, read later without it.
GetAllBrokers(r) == r.uris

\* 0-based position of a registered URI in the list.
IndexOf(r, u) == (CHOOSE i \in 1..Len(r.uris) : r.uris[i] = u) - 1

\* Faulty variant (mutant): the new broker always becomes current.
AddBrokerSetsCurrent(r, u) ==
    IF u \in Registered(r) THEN r
    ELSE [uris |-> Append(r.uris, u),
          info |-> r.info @@ (u :> NewBrokerInfo),
          cur  |-> Len(r.uris)]

\* Faulty variant (mutant): no duplicate check, the URI is appended again.
AddBrokerNoDupCheck(r, u) ==
    [uris |-> Append(r.uris, u),
     info |-> r.info @@ (u :> NewBrokerInfo),
     cur  |-> IF Len(r.uris) + 1 = 1 THEN 0 ELSE r.cur]

\* add_broker: no-op if present; append; index 0 when it is the first one.
AddBroker(r, u) ==
    IF u \in Registered(r) THEN r
    ELSE [uris |-> Append(r.uris, u),
          info |-> r.info @@ (u :> NewBrokerInfo),
          cur  |-> IF Len(r.uris) + 1 = 1 THEN 0 ELSE r.cur]

\* Faulty variants (mutants) of remove_broker: no clamp when the current,
\* last broker is erased; no shift when an earlier broker is erased.
RemoveBrokerNoClamp(r, u) ==
    IF u \notin Registered(r) THEN r
    ELSE LET removed == IndexOf(r, u)
             rest    == RemoveAt(r.uris, removed + 1)
         IN [uris |-> rest, info |-> Restrict(r.info, ToSet(rest)),
             cur  |-> IF removed < r.cur THEN r.cur - 1 ELSE r.cur]

RemoveBrokerNoShift(r, u) ==
    IF u \notin Registered(r) THEN r
    ELSE LET removed == IndexOf(r, u)
             rest    == RemoveAt(r.uris, removed + 1)
         IN [uris |-> rest, info |-> Restrict(r.info, ToSet(rest)),
             cur  |-> IF rest = <<>> THEN 0
                      ELSE IF r.cur >= Len(rest) THEN Len(rest) - 1
                      ELSE r.cur]

\* remove_broker: erase and re-anchor current_broker_index_.
RemoveBroker(r, u) ==
    IF u \notin Registered(r) THEN r
    ELSE LET removed == IndexOf(r, u)
             rest    == RemoveAt(r.uris, removed + 1)
         IN [uris |-> rest,
             info |-> Restrict(r.info, ToSet(rest)),
             cur  |-> IF removed = r.cur
                      THEN IF rest = <<>> THEN 0
                           ELSE IF r.cur >= Len(rest) THEN Len(rest) - 1
                           ELSE r.cur
                      ELSE IF removed < r.cur THEN r.cur - 1
                      ELSE r.cur]

\* clear_brokers.
ClearBrokers(r) == [uris |-> <<>>, info |-> <<>>, cur |-> 0]

\* get_current_broker / get_current_broker_uri ("" is NoUri).
CurrentBroker(r) ==
    IF r.uris = <<>> \/ r.cur >= Len(r.uris) THEN NoUri ELSE r.uris[r.cur + 1]

\* set_current_broker: the index of the URI if registered, else unchanged.
SetCurrentBroker(r, u) ==
    IF u \in Registered(r) THEN [r EXCEPT !.cur = IndexOf(r, u)] ELSE r

\* Faulty variant (mutant): ">=" keeps the LAST of equally scored brokers.
RECURSIVE BestFromGE(_, _, _, _)
BestFromGE(r, i, best, bestScore) ==
    IF i > Len(r.uris) THEN best
    ELSE LET u == r.uris[i] IN
         IF r.info[u].is_available /\ r.info[u].score >= bestScore
         THEN BestFromGE(r, i + 1, u, r.info[u].score)
         ELSE BestFromGE(r, i + 1, best, bestScore)

\* find_best_broker: scan in registration order keeping the first available
\* broker whose score is strictly above the best so far (best_score = -1).
RECURSIVE BestFrom(_, _, _, _)
BestFrom(r, i, best, bestScore) ==
    IF i > Len(r.uris) THEN best
    ELSE LET u == r.uris[i] IN
         IF r.info[u].is_available /\ r.info[u].score > bestScore
         THEN BestFrom(r, i + 1, u, r.info[u].score)
         ELSE BestFrom(r, i + 1, best, bestScore)

FindBestBroker(r) == BestFrom(r, 1, NoUri, -1)

\* The test of should_switch_broker once it holds the current broker it
\* read earlier: the best one (read now) exists, differs from it, and leads
\* it by more than the threshold; both scores are read now, through the
\* shared pointers.
ShouldSwitchFrom(r, current) ==
    LET best == FindBestBroker(r)
    IN /\ current # NoUri
       /\ best # NoUri
       /\ current # best
       /\ r.info[best].score - r.info[current].score > SWITCH_THRESHOLD

\* should_switch_broker with both reads at one moment.
ShouldSwitchBroker(r) == ShouldSwitchFrom(r, CurrentBroker(r))

\* update_broker_metrics: replace the three metrics, recompute the score
\* with the category's weights (availability is left as it is).
UpdateBrokerMetrics(r, u, latency, bandwidth, count) ==
    IF u \notin Registered(r) THEN r
    ELSE LET b == r.info[u] IN
         [r EXCEPT !.info[u] =
            [b EXCEPT !.latency = latency, !.bandwidth = bandwidth,
                      !.connection_count = count,
                      !.score = UpdateScore(latency, bandwidth, count,
                                            b.is_available, Weights(Category))]]

\* mark_broker_unavailable.
MarkBrokerUnavailable(r, u) ==
    IF u \notin Registered(r) THEN r
    ELSE [r EXCEPT !.info[u].is_available = FALSE, !.info[u].score = 0]

\* Faulty variant (mutant): availability restored, score left at 0.
MarkBrokerAvailableNoRescore(r, u) ==
    IF u \notin Registered(r) THEN r
    ELSE [r EXCEPT !.info[u].is_available = TRUE]

\* mark_broker_available: set available and recompute the score.
MarkBrokerAvailable(r, u) ==
    IF u \notin Registered(r) THEN r
    ELSE LET b == r.info[u] IN
         [r EXCEPT !.info[u] =
            [b EXCEPT !.is_available = TRUE,
                      !.score = UpdateScore(b.latency, b.bandwidth,
                                  b.connection_count, TRUE, Weights(Category))]]

-----------------------------------------------------------------------------
(***************************************************************************)
(* The registry on its own: any caller may invoke any public operation.   *)
(***************************************************************************)
VARIABLE reg

Init == reg = EmptyRegistry

Add(u)             == reg' = AddBroker(reg, u)
Delete(u)          == reg' = RemoveBroker(reg, u)
Clear              == reg' = ClearBrokers(reg)
SetCurrent(u)      == reg' = SetCurrentBroker(reg, u)
Update(u, m)       == reg' = UpdateBrokerMetrics(reg, u, m[1], m[2], m[3])
MarkUnavailable(u) == reg' = MarkBrokerUnavailable(reg, u)
MarkAvailable(u)   == reg' = MarkBrokerAvailable(reg, u)

Next ==
    \/ Clear
    \/ \E u \in Uris :
          \/ Add(u) \/ Delete(u) \/ SetCurrent(u)
          \/ MarkUnavailable(u) \/ MarkAvailable(u)
          \/ \E m \in Metrics : Update(u, m)

Spec == Init /\ [][Next]_reg

-----------------------------------------------------------------------------
BrokerInfoType ==
    [latency : Nat, bandwidth : Nat, connection_count : Nat,
     score : 0..ScoreUnit, is_available : BOOLEAN]

TypeOK ==
    /\ reg.uris \in Seq(Uris)
    /\ IsInjective(reg.uris)
    /\ DOMAIN reg.info = Registered(reg)
    /\ \A u \in Registered(reg) : reg.info[u] \in BrokerInfoType
    /\ reg.cur \in Nat

(* After any sequence of add/remove/clear/set_current, the current index   *)
(* designates a registered broker whenever one exists (remove_broker's     *)
(* re-anchoring), so get_current_broker never returns nullptr while the    *)
(* list is non-empty.                                                      *)
CurrentInRange ==
    IF reg.uris = <<>> THEN reg.cur = 0 ELSE reg.cur < Len(reg.uris)

(* find_best_broker's scan returns exactly the first available broker, in  *)
(* registration order, whose score is maximal among available brokers, and *)
(* nullptr when none is available (reference definition, not a scan).     *)
BestIsFirstMaximal ==
    LET avail == {i \in 1..Len(reg.uris) : reg.info[reg.uris[i]].is_available}
        top   == {i \in avail : \A j \in avail :
                      reg.info[reg.uris[i]].score >= reg.info[reg.uris[j]].score}
    IN FindBestBroker(reg) =
         IF avail = {} THEN NoUri
         ELSE reg.uris[CHOOSE i \in top : \A j \in top : i <= j]

(* Whatever mix of metric updates and availability changes happened, an   *)
(* unavailable broker has score 0 and an available one has exactly the    *)
(* score of its recorded metrics (spec: available = false => score = 0).  *)
ScoreMatchesMetrics ==
    \A u \in Registered(reg) :
        LET b == reg.info[u] IN
        b.score = UpdateScore(b.latency, b.bandwidth, b.connection_count,
                              b.is_available, Weights(Category))

(* Round-trip law of the spec: add_broker(u); remove_broker(u) of a new    *)
(* URI leaves the registry (order, records and current broker) unchanged, *)
(* from every reachable registry.                                          *)
AddRemoveRoundTrip ==
    \A u \in Uris \ Registered(reg) :
        RemoveBroker(AddBroker(reg, u), u) = reg

(* Removing a broker other than the current one never changes which       *)
(* broker is current (remove_broker shifts the index left when an earlier *)
(* entry is erased).                                                       *)
RemoveKeepsCurrent ==
    [][\A u \in Uris :
         (Delete(u) /\ u # CurrentBroker(reg))
            => CurrentBroker(reg') = CurrentBroker(reg)]_reg

=============================================================================
