------------------------------- MODULE Fabric -------------------------------
(***************************************************************************)
(* A day of lanes and, after it, a run of the gate on the branches that it *)
(* left, in one repository.                                                *)
(***************************************************************************)
EXTENDS Lanes, Gate

ASSUME FabricAssumption ==
  /\ Stackers = {"day", "gate"}
  /\ Lanes \subseteq Branches
  /\ \A head \in SUBSET (Branches \cup Others) : head # None

vars == <<leaseVars, laneVars, repository, gateVars>>

Init == LanesInit /\ IntegrationInit /\ GateInit

(* The directory of the day is set aside when it is over, or killed at any *)
(* point; the target and the lanes' branches stay in the repository.       *)
SetAside ==
  /\ day # "none"
  /\ day' = "none"
  /\ registry' = [r \in Runs |-> NoLease]
  /\ holding' = {} /\ posted' = {} /\ worktrees' = {}
  /\ stage' = [l \in Lanes |-> "idle"]
  /\ result' = [l \in Lanes |-> "none"]
  /\ outcome' = [l \in Lanes |-> "none"]
  /\ receipts' = [l \in Lanes |-> TRUE]
  /\ options' = [option \in DOMAIN options |-> FALSE]
  /\ stacks' = [stacks EXCEPT !["day"] = NoStack]
  /\ UNCHANGED <<target, branch, gateVars>>

(* The gate is run by hand, on any branches, on a later day.               *)
Next ==
  \/ day # "none" /\ LanesNext /\ UNCHANGED gateVars
  \/ SetAside
  \/ day = "none" /\ GateNext /\ UNCHANGED <<leaseVars, laneVars>>

Spec == Init /\ [][Next]_vars

-----------------------------------------------------------------------------
(* Properties.                                                             *)

(***************************************************************************)
(* What each step of run_lane leaves for the next: its worktree, branch,   *)
(* lease and rows are there, or have been taken away, as its stage says.   *)
(***************************************************************************)
Leased == {"announce", "create", "run", "commit", "retire", "release", "failed"}

LaneInv ==
  \A l \in Lanes :
    /\ stage[l] \in Leased => l \in holding
    /\ stage[l] \in {"run", "commit", "retire"} => l \in worktrees /\ branch[l] # None
    /\ stage[l] \in {"release", "report"} => l \notin worktrees
    /\ stage[l] \in {"commit", "retire", "release", "report"} => result[l] # "none"
    /\ outcome[l] # "none" <=> stage[l] = "done"
    /\ ~receipts[l] => options.checked /\ result[l] = "passed"
    /\ options.bus /\ result[l] # "none" => Intent(l) \in posted

FabricInv == LeaseTypeOK /\ LeasesDisjoint /\ LaneInv /\ NoEarlyDiscard

(***************************************************************************)
(* A lane counts as passed only when its process did, its receipts were    *)
(* resolved if they were asked for, its worktree is gone with its work     *)
(* committed, and, with a bus, its verdict is there for the others.        *)
(***************************************************************************)
PassedIsVouchedFor ==
  \A l \in {k \in Lanes : outcome[k] = "passed"} :
    /\ result[l] = "passed" /\ receipts[l]
    /\ l \notin worktrees /\ branch[l] # None
    /\ options.bus => {Intent(l), Verdict(l, "passed")} \subseteq posted

(***************************************************************************)
(* The day stacks the branches of the lanes that passed on the target, and *)
(* all of them or it has no integrated tree.  A lane that failed, or whose *)
(* result was never acknowledged, leaves its change in the tree only when  *)
(* a lane that passed was started with that change checked out.            *)
(***************************************************************************)
OnlyPassedIntegrated ==
  LET s == stacks["day"]
      passed == {l \in Lanes : outcome[l] = "passed"}
      work == target \cup UNION {branch[l] : l \in passed}
  IN  /\ s.head # None => s.head \subseteq work
      /\ s.status = "merged" => s.head = work

=============================================================================
