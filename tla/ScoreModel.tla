----------------------------- MODULE ScoreModel -----------------------------
(***************************************************************************)
(* The score model of the self-adaptive publisher: the category weight    *)
(* table (score_weights.h) and BrokerInfo::update_score.                   *)
(*                                                                         *)
(* The code computes with doubles.  Here every quantity is an integer in a *)
(* fixed unit so that TLC evaluates it exactly:                            *)
(*   - a weight is in tenths (0.6 -> 6);                                   *)
(*   - a normalised component is in thousandths (0.9 -> 900);             *)
(*   - a score is therefore in ten-thousandths (0.96 -> 9600), so the     *)
(*     range [0, 1] is 0..ScoreUnit and the 0.1 hysteresis is 1000.       *)
(* Latency is whole milliseconds, bandwidth whole bytes/s, connections a  *)
(* count; for these inputs the integer formulas below are exact except    *)
(* that bandwidth/1e6 is floored to a thousandth.                         *)
(***************************************************************************)
EXTENDS Integers, TLC

ScoreUnit == 10000

\* score_weights.h: CATEGORY_WEIGHTS, <<latency, bandwidth, connection>>.
CATEGORY_WEIGHTS ==
    [ c \in {"sensor", "meter", "light", "appliance", "beacon"} |-> <<6, 2, 2>> ]
  @@ [ c \in {"camera", "signage"} |-> <<2, 6, 2>> ]
  @@ ("wearable" :> <<3, 4, 3>>) @@ ("traffic" :> <<4, 2, 4>>)
  @@ ("drone" :> <<3, 5, 2>>) @@ ("rfid" :> <<3, 2, 5>>)

\* update_broker_metrics / mark_broker_available: the category's weights,
\* falling back to "sensor" for an unknown category.
Weights(category) ==
    IF category \in DOMAIN CATEGORY_WEIGHTS
    THEN CATEGORY_WEIGHTS[category]
    ELSE CATEGORY_WEIGHTS["sensor"]

LOCAL ClampLow(x)  == IF x < 0 THEN 0 ELSE x
LOCAL ClampHigh(x) == IF x > 1000 THEN 1000 ELSE x

\* The three normalised components of update_score (LATENCY_BASELINE 100 ms,
\* BANDWIDTH_BASELINE 1e6 B/s, CONNECTION_BASELINE 100), each 0 when the
\* metric is not positive.
LatencyScore(latency) ==
    IF latency > 0 THEN ClampLow(1000 - latency * 10) ELSE 0
BandwidthScore(bandwidth) ==
    IF bandwidth > 0 THEN ClampHigh(bandwidth \div 1000) ELSE 0
ConnectionScore(count) ==
    IF count > 0 THEN ClampLow(1000 - count * 10) ELSE 0

\* BrokerInfo::update_score: the weighted sum, forced to 0 when the broker
\* is not available.
UpdateScore(latency, bandwidth, count, available, w) ==
    IF available
    THEN   w[1] * LatencyScore(latency)
         + w[2] * BandwidthScore(bandwidth)
         + w[3] * ConnectionScore(count)
    ELSE 0

=============================================================================
