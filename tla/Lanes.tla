------------------------------- MODULE Lanes -------------------------------
(***************************************************************************)
(* run_day of src/crates/leio-harness/src/orchestrator.rs: each lane takes *)
(* a lease, announces itself on the bus, works in a worktree and on a      *)
(* branch of its own, is checked, committed, retired and released, and has *)
(* its result acknowledged by the bus before it counts as passed.  Then    *)
(* the branches of the lanes that passed are stacked (Integration).        *)
(*                                                                         *)
(* Other agents use the lease registry by hand, and may claim a lane's     *)
(* worktree once they have seen its lease.  Every call may fail; an        *)
(* orchestrator that is killed takes no more steps, as it may here.        *)
(***************************************************************************)
EXTENDS Lease, Integration

CONSTANTS NumLanes,
          Checkout, \* the changes in what the day's repository has checked out
          Agents,   \* who use the registry by hand
          Results   \* of a process: passed, failed, timed_out, canceled, infra_error

ASSUME LanesAssumption ==
  /\ "passed" \in Results /\ "none" \notin Results
  /\ NumLanes \in Nat \ {0}
  /\ Checkout \subseteq Others
  /\ Runs = (1 .. NumLanes) \cup Agents
  /\ Agents \cap (1 .. NumLanes) = {}

Lanes == 1 .. NumLanes

VARIABLES
  options,    \* the day's spec: parallel, bus, checked (requireReceiptsCheck)
  day,        \* "running", "integrating" or "over"
  stage,      \* of each lane: its next step in run_lane
  result,     \* of each lane: its process's result, and "none" before
  receipts,   \* of each lane: whether its receipts were resolved
  outcome,    \* of each lane: its outcome, "none" before the end
  posted,     \* the rows on the bus: a lane's intent, or its result
  worktrees   \* the lanes whose worktree is there

laneVars == <<options, day, stage, result, receipts, outcome, posted, worktrees>>

Options == [parallel : BOOLEAN, bus : BOOLEAN, checked : BOOLEAN]

LanesInit ==
  /\ LeaseInit
  /\ day = "running" /\ options \in Options
  /\ stage = [l \in Lanes |-> "idle"]
  /\ result = [l \in Lanes |-> "none"]
  /\ receipts = [l \in Lanes |-> TRUE]
  /\ outcome = [l \in Lanes |-> "none"]
  /\ posted = {}
  /\ worktrees = {}

At(l, s) == day = "running" /\ stage[l] = s
Go(l, s) == stage' = [stage EXCEPT ![l] = s]
End(l, status) == Go(l, "done") /\ outcome' = [outcome EXCEPT ![l] = status]

(* A row may be on the bus although its publisher was told of an error.    *)
Intent(l) == [lane |-> l, says |-> "intent"]
Verdict(l, status) == [lane |-> l, says |-> status]

-----------------------------------------------------------------------------
(* run_lane.  A lane of a sequential day waits for the lanes before it.    *)

MayStart(l) == options.parallel \/ \A k \in 1 .. (l - 1) : stage[k] = "done"

(* The lease is refused, or the registry cannot be read or written; or it  *)
(* is there, and the lane told of an error.                                *)
TakeLease(l) ==
  /\ At(l, "idle") /\ MayStart(l)
  /\ \/ UNCHANGED leaseVars /\ End(l, "infra_error")
     \/ \E claims \in Claims[l] :
          \/ Acquire(l, claims) /\ Go(l, IF options.bus THEN "announce" ELSE "create")
                                /\ UNCHANGED outcome
          \/ AcquireUnsure(l, claims) /\ End(l, "infra_error")
  /\ UNCHANGED <<options, day, result, receipts, posted, worktrees, repository>>

Fails(l) == Go(l, "failed")

Announce(l) ==
  /\ At(l, "announce")
  /\ \/ Go(l, "create") /\ posted' = posted \cup {Intent(l)}
     \/ Fails(l) /\ posted' \in {posted, posted \cup {Intent(l)}}
  /\ UNCHANGED <<leaseVars, options, day, result, receipts, outcome, worktrees, repository>>

(* HEAD of the repository: what it has checked out, unless its operator    *)
(* switches to a branch, of another lane for one.                          *)
HEAD == {Checkout} \cup {branch[b] : b \in {b \in Branches : branch[b] # None}}

(* The checkout is dirty; or no model or agent is found, with the worktree *)
(* there already.  The branch starts from HEAD, not from the target.       *)
CreateWorktree(l) ==
  /\ At(l, "create")
  /\ \/ Fails(l) /\ UNCHANGED <<worktrees, branch>>
     \/ /\ Go(l, "run") \/ Fails(l)
        /\ worktrees' = worktrees \cup {l}
        /\ \E head \in HEAD : branch' = [branch EXCEPT ![l] = head]
  /\ UNCHANGED <<leaseVars, options, day, result, receipts, outcome, posted, target, stacks>>

(* The receipts are looked at only if they are asked for, of a run that    *)
(* passed, and while its worktree is there.  The agent may commit itself.  *)
Run(l) ==
  /\ At(l, "run")
  /\ branch' \in {branch, [branch EXCEPT ![l] = @ \cup {l}]}
  /\ \/ Fails(l) /\ UNCHANGED <<result, receipts>>
     \/ /\ Go(l, "commit")
        /\ \E r \in Results :
             /\ result' = [result EXCEPT ![l] = r]
             /\ \E ok \in BOOLEAN :
                  /\ ok \/ (options.checked /\ r = "passed")
                  /\ receipts' = [receipts EXCEPT ![l] = ok]
  /\ UNCHANGED <<leaseVars, options, day, outcome, posted, worktrees, target, stacks>>

(* commit_lane, whatever the result; there may be nothing to commit.       *)
Commit(l) ==
  /\ At(l, "commit")
  /\ \/ Fails(l) /\ UNCHANGED branch
     \/ Go(l, "retire") /\ branch' \in {branch, [branch EXCEPT ![l] = @ \cup {l}]}
  /\ UNCHANGED <<leaseVars, options, day, result, receipts, outcome, posted, worktrees,
                 target, stacks>>

(* That the worktree could not be removed is not looked at.                *)
CarelessRetire(l) ==
  /\ At(l, "retire")
  /\ Go(l, "release") /\ worktrees' \in {worktrees, worktrees \ {l}}
  /\ UNCHANGED <<leaseVars, options, day, result, receipts, outcome, posted, repository>>

Retire(l) ==
  /\ At(l, "retire")
  /\ \/ Fails(l) /\ UNCHANGED worktrees
     \/ Go(l, "release") /\ worktrees' = worktrees \ {l}
  /\ UNCHANGED <<leaseVars, options, day, result, receipts, outcome, posted, repository>>

(* The lease is released after a failure too, and whether it can be is not *)
(* looked at.                                                              *)
DropLease(l) ==
  /\ ReleaseUnsure(l)
  /\ \/ At(l, "failed") /\ End(l, "infra_error")
     \/ At(l, "release") /\ Go(l, "report") /\ UNCHANGED outcome
  /\ UNCHANGED <<options, day, result, receipts, posted, worktrees, repository>>

(* The receipts are reported, and not looked at.                           *)
ResultOfProcess(l) == result[l]

EffectiveResult(l) ==
  IF result[l] = "passed" /\ ~receipts[l] THEN "failed" ELSE result[l]

(* The reply is lost, or the row refused; or what was acknowledged cannot  *)
(* be written to the lane's directory.                                     *)
Report(l) ==
  /\ At(l, "report")
  /\ LET said == posted \cup {Verdict(l, EffectiveResult(l))}
     IN  \/ ~options.bus /\ End(l, EffectiveResult(l)) /\ UNCHANGED posted
         \/ options.bus /\ End(l, EffectiveResult(l)) /\ posted' = said
         \/ options.bus /\ End(l, "infra_error") /\ posted' \in {posted, said}
  /\ UNCHANGED <<leaseVars, options, day, result, receipts, worktrees, repository>>

-----------------------------------------------------------------------------
(* run_integration_phase; its report changes nothing more.                 *)

(* A lane that ended at all.                                               *)
Finished == {l \in Lanes : branch[l] # None}

Passed == {l \in Lanes : outcome[l] = "passed"}

FinishLanes ==
  /\ day = "running"
  /\ \A l \in Lanes : stage[l] = "done"
  /\ \/ Passed # {} /\ Stack("day", Passed) /\ day' = "integrating"
     \/ day' = "over" /\ UNCHANGED repository
  /\ UNCHANGED <<leaseVars, options, stage, result, receipts, outcome, posted, worktrees>>

IntegrateDay ==
  /\ day = "integrating"
  /\ \/ StackStep("day") /\ UNCHANGED day
     \/ Stacked("day") /\ day' = "over" /\ UNCHANGED repository
  /\ UNCHANGED <<leaseVars, options, stage, result, receipts, outcome, posted, worktrees>>

-----------------------------------------------------------------------------
(* Agents, by the command line.                                            *)

Seen(claims) == \A l \in Lanes : \A c \in Claims[l] :
                  claims \cap c # {} => registry[l].state # "none"

Agent(a) ==
  /\ \/ \E claims \in Claims[a] :
          Seen(claims) /\ (Acquire(a, claims) \/ AcquireUnsure(a, claims))
     \/ a \in holding /\ Release(a)
     \/ Heartbeat(a)
  /\ UNCHANGED <<laneVars, repository>>

Operator ==
  /\ \E late \in SUBSET {r \in Runs : Active(r)} : Expire(late)
  /\ UNCHANGED <<laneVars, repository>>

Lane(l) ==
  \/ TakeLease(l) \/ Announce(l) \/ CreateWorktree(l) \/ Run(l)
  \/ Commit(l) \/ Retire(l) \/ DropLease(l) \/ Report(l)

LanesNext ==
  \/ \E l \in Lanes : Lane(l)
  \/ FinishLanes \/ IntegrateDay
  \/ \E a \in Agents : Agent(a)
  \/ Operator
=============================================================================
