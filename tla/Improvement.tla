---------------------------- MODULE Improvement ----------------------------
(***************************************************************************)
(* evaluate_improvement of src/crates/leio-harness/src/improvement.rs: the *)
(* verdict on the metrics of an integrated tree against a baseline's.      *)
(*                                                                         *)
(* A snapshot names its metrics, which of them are better when lower, and  *)
(* whether its isotropy exceeds the threshold.  A metric that one side     *)
(* lacks counts as minus infinity.                                         *)
(***************************************************************************)
EXTENDS Integers

CONSTANTS
  NegativeInfinity,  \* below every value a metric has
  Epsilon            \* DELTA_EPSILON: the noise floor

Metrics(s) == DOMAIN s.metrics
Value(s, m) == IF m \in Metrics(s) THEN s.metrics[m] ELSE NegativeInfinity

Minimized(m, b, c) == m \in b.minimize \cup c.minimize

(* Positive when the collaboration is better.                              *)
Delta(m, b, c) ==
  IF Minimized(m, b, c) THEN Value(b, m) - Value(c, m) ELSE Value(c, m) - Value(b, m)

(* Metrics that one side lacks are left out.                               *)
DeltasOfBoth(b, c) == {Delta(m, b, c) : m \in Metrics(b) \cap Metrics(c)}

Deltas(b, c) == {Delta(m, b, c) : m \in Metrics(b) \cup Metrics(c)}

Evaluate(b, c) ==
  CASE c.collapsed -> "collapsed"
    [] ~c.collapsed /\ \E d \in Deltas(b, c) : d < -Epsilon -> "regressed"
    [] ~c.collapsed /\ (\A d \in Deltas(b, c) : d >= -Epsilon)
                    /\ (\E d \in Deltas(b, c) : d > Epsilon) -> "improved"
    [] OTHER -> "no_improvement"
=============================================================================
