-------------------------------- MODULE Gate --------------------------------
(***************************************************************************)
(* run_gate of src/crates/leio-harness/src/gate.rs: a baseline is          *)
(* measured, branches are stacked on the target and measured, and when the *)
(* verdict is "improved" the target is moved forward to the integrated     *)
(* tree.  Others push to the target at any time.                           *)
(***************************************************************************)
EXTENDS Integration, Improvement

ASSUME GateAssumption ==
  /\ NegativeInfinity \in Int /\ Epsilon \in Nat
  /\ \A s \in Snapshots : \A m \in Metrics(s) :
       s.metrics[m] \in Int /\ s.metrics[m] > NegativeInfinity + Epsilon

VARIABLES
  gate,       \* "idle", "baseline", "stacking", "promoting", "discarding",
              \* "done", or "error" when run_gate returns an error
  promote,    \* whether promotion is asked for
  baseline,   \* the baseline's snapshot
  verdict

gateVars == <<gate, promote, baseline, verdict>>

GateInit ==
  /\ gate = "idle"
  /\ promote = FALSE
  /\ baseline = None
  /\ verdict = "none"

(* The throwaway worktree of the baseline is removed in every case.        *)
MeasureBaseline ==
  /\ gate = "idle"
  /\ \/ gate' = "baseline" /\ baseline' \in Snapshots
     \/ gate' = "error" /\ UNCHANGED baseline
  /\ promote' \in BOOLEAN
  /\ UNCHANGED <<verdict, repository>>

Integrate ==
  /\ \/ /\ gate = "baseline"
        /\ \E chosen \in SUBSET {b \in Branches : branch[b] # None} \ {{}} :
             Stack("gate", chosen)
        /\ gate' = "stacking"
     \/ gate = "stacking" /\ StackStep("gate") /\ UNCHANGED gate
  /\ UNCHANGED <<promote, baseline, verdict>>

(* No verdict without an integrated tree that printed a snapshot: an error *)
(* returns at once, and a conflict leaves nothing to promote.              *)
Judge ==
  LET s == stacks["gate"] IN
  /\ gate = "stacking" /\ Stacked("gate")
  /\ \/ /\ s.status = "error" \/ (s.status = "merged" /\ s.snapshot = None)
        /\ gate' = "error"
        /\ UNCHANGED verdict
     \/ /\ s.status = "conflict"
        /\ verdict' = "no_improvement"
        /\ gate' = "discarding"
     \/ /\ s.status = "merged" /\ s.snapshot # None
        /\ verdict' = Evaluate(baseline, s.snapshot)
        /\ gate' = IF verdict' = "improved" /\ promote THEN "promoting" ELSE "discarding"
  /\ UNCHANGED <<promote, baseline, repository>>

(* The target is set to the integrated tree, fast-forward or not.          *)
ResetTarget ==
  /\ gate = "promoting"
  /\ target' = stacks["gate"].head
  /\ gate' = "discarding"
  /\ UNCHANGED <<promote, baseline, verdict, branch, stacks>>

(* promote_integration: the checkout is refused when it is dirty or not on *)
(* the target; merge --ff-only, which git may refuse for other reasons     *)
(* than a target that has moved; the new head may then not be read.  The   *)
(* checkout may be switched before the merge: another branch is moved, and *)
(* the target is as it would be after a refusal.                           *)
Promote ==
  LET head == stacks["gate"].head IN
  /\ gate = "promoting"
  /\ \/ gate' \in {"discarding", "error"} /\ UNCHANGED target
     \/ target \subseteq head /\ target' = head /\ gate' \in {"discarding", "error"}
  /\ UNCHANGED <<promote, baseline, verdict, branch, stacks>>

DiscardIntegration ==
  /\ gate = "discarding"
  /\ Discard("gate")
  /\ gate' = "done"
  /\ UNCHANGED <<promote, baseline, verdict, target, branch>>

Push ==
  /\ \E c \in Others \ target : target' = target \cup {c}
  /\ UNCHANGED <<gateVars, branch, stacks>>

GateNext ==
  MeasureBaseline \/ Integrate \/ Judge \/ Promote \/ DiscardIntegration \/ Push

-----------------------------------------------------------------------------
(* Properties.                                                             *)

(***************************************************************************)
(* The target never loses a change, and the gate moves it only to the tree *)
(* whose metrics it compared: beyond the noise floor no metric that both   *)
(* sides report is worse than the baseline's, none to be maximized has     *)
(* gone and none to be minimized is new, and something is better by more   *)
(* than the noise, or reported by one side alone.                          *)
(*                                                                         *)
(* docs/harness/AGENT-FABRIC.md:134-136 asks for more: strictly better on  *)
(* at least one metric.  The code counts a metric to be minimized that the *)
(* integrated tree no longer reports as one that got infinitely better.    *)
(***************************************************************************)
NoWorse(b, c) ==
  /\ \A m \in Metrics(b) \cap Metrics(c) :
       IF Minimized(m, b, c) THEN c.metrics[m] <= b.metrics[m] + Epsilon
                             ELSE c.metrics[m] >= b.metrics[m] - Epsilon
  /\ \A m \in Metrics(b) \ Metrics(c) : Minimized(m, b, c)
  /\ \A m \in Metrics(c) \ Metrics(b) : ~Minimized(m, b, c)

Better(b, c) ==
  \/ Metrics(b) # Metrics(c)
  \/ \E m \in Metrics(b) \cap Metrics(c) :
       IF Minimized(m, b, c) THEN c.metrics[m] + Epsilon < b.metrics[m]
                             ELSE c.metrics[m] > b.metrics[m] + Epsilon

TargetMovesForward ==
  [][/\ target \subseteq target'
     /\ target' # target /\ gate = "promoting" /\ gate' # "promoting" =>
          LET s == stacks["gate"] IN
          /\ target' = s.head
          /\ promote /\ s.snapshot # None /\ ~s.snapshot.collapsed
          /\ NoWorse(baseline, s.snapshot) /\ Better(baseline, s.snapshot)]_<<target, gate>>

(***************************************************************************)
(* An integrated tree is there until it has been judged and, if it is to   *)
(* be, promoted: nothing discards it before.  Whether it is gone after     *)
(* that is not sure: its removal is not looked at.                         *)
(***************************************************************************)
NoEarlyDiscard ==
  \A w \in Stackers :
    stacks[w].status \in {"merging", "merged"} /\ ~(w = "gate" /\ gate = "done") =>
      stacks[w].kept /\ stacks[w].head # None
=============================================================================
