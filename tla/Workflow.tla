------------------------------ MODULE Workflow ------------------------------
(***************************************************************************)
(* The JSON-LD workflows of src/crates/leio-harness/src/workflow.rs: a     *)
(* plan of steps that is revised, confirmed and approved by its digest,    *)
(* and executed one step at a time.  Every operation reads, changes and    *)
(* saves one state file under a lock that is tried once; execute saves     *)
(* that it is running, runs the step's command, and saves the result.      *)
(*                                                                         *)
(* A process may be killed at any point of execute, and its command may    *)
(* live on.  An operation that is killed before its rename changed nothing.*)
(* An approval names a digest, that is a revision and its plan, and may be *)
(* an old one.  Notes and events are left out.                             *)
(***************************************************************************)
EXTENDS Naturals, Sequences, FiniteSets

CONSTANTS
  Plans,        \* sequences of steps [deploys, retrySafe : BOOLEAN]
  Open,         \* the plans with open questions
  MaxRevision,  \* bound: how often a plan is revised, plus one
  MaxAttempts   \* bound: how often a step is started

ASSUME WorkflowAssumption ==
  /\ Plans \subseteq Seq([deploys : BOOLEAN, retrySafe : BOOLEAN]) /\ << >> \notin Plans
  /\ Open \subseteq Plans
  /\ MaxRevision \in Nat \ {0} /\ MaxAttempts \in Nat

VARIABLES
  saved,      \* the state file
  phase,      \* of the execute that holds the lock: "none", "saved" as
              \* running, "spawned", or "ended"
  memory,     \* the state that it will save
  verdict,    \* what it saw of its command
  issued,     \* the digests that were ever shown
  processes,  \* commands that may still run: alive and not accounted for
  spawned,    \* history: the steps whose command was started, by attempt
  passed      \* history: the steps that passed, by digest

vars == <<saved, phase, memory, verdict, issued, processes, spawned, passed>>

Digest(s) == <<s.revision, s.plan>>
Step(s) == s.plan[s.completed + 1]
StepId(s) == [digest |-> Digest(s), index |-> s.completed + 1]

Draft(plan, revision, deploys) ==
  [revision |-> revision, plan |-> plan, confirmed |-> FALSE, approved |-> FALSE,
   evidence |-> FALSE, completed |-> 0, attempts |-> 0, deploys |-> deploys,
   state |-> "draft"]

(* init.                                                                   *)
Init ==
  /\ \E plan \in Plans, deploys \in BOOLEAN : saved = Draft(plan, 1, deploys)
  /\ phase = "none"
  /\ memory = saved
  /\ verdict = "none"
  /\ issued = {Digest(saved)}
  /\ processes = {}
  /\ spawned = {}
  /\ passed = {}

Free == phase = "none"
Save(s) == saved' = s /\ memory' = s
Idle == UNCHANGED <<phase, verdict, processes, spawned, passed>>

(* What every action but show and reconcile asks for.                      *)
MayAct == Free /\ saved.state # "running"

-----------------------------------------------------------------------------
(* The approval and the progress of the revision before are kept.          *)
ReviseInPlace(plan) ==
  /\ MayAct /\ saved.revision < MaxRevision
  /\ Save([saved EXCEPT !.plan = plan, !.revision = @ + 1, !.confirmed = FALSE,
                        !.state = "draft", !.evidence = FALSE,
                        !.completed = IF Len(plan) < @ THEN Len(plan) ELSE @])
  /\ issued' = issued \cup {Digest(saved')}
  /\ Idle

Revise(plan) ==
  /\ MayAct /\ saved.revision < MaxRevision
  /\ Save([Draft(plan, saved.revision + 1, saved.deploys) EXCEPT !.attempts = saved.attempts])
  /\ issued' = issued \cup {Digest(saved')}
  /\ Idle

Evidence ==
  /\ MayAct /\ ~saved.approved
  /\ Save([saved EXCEPT !.evidence = TRUE])
  /\ UNCHANGED issued /\ Idle

Confirm(approval) ==
  /\ MayAct /\ approval = Digest(saved) /\ saved.plan \notin Open
  /\ Save([saved EXCEPT !.confirmed = TRUE])
  /\ UNCHANGED issued /\ Idle

Approve(approval) ==
  /\ MayAct /\ saved.confirmed /\ saved.evidence /\ approval = Digest(saved)
  /\ Save([saved EXCEPT !.approved = TRUE,
       !.state = IF @ \in {"failed", "completed"} THEN @ ELSE "approved"])
  /\ UNCHANGED issued /\ Idle

(* The step counts as not started.                                         *)
ReconcileToApproved(approval) ==
  /\ Free /\ saved.state = "running" /\ approval = Digest(saved)
  /\ Save([saved EXCEPT !.state = "approved", !.approved = TRUE])
  /\ processes' = {}
  /\ UNCHANGED <<phase, verdict, issued, spawned, passed>>

(* The operator accounts for what the interrupted step did or still does.  *)
Reconcile(approval) ==
  /\ Free /\ saved.state = "running" /\ approval = Digest(saved)
  /\ Save([saved EXCEPT !.state = "failed", !.approved = FALSE])
  /\ processes' = {}
  /\ UNCHANGED <<phase, verdict, issued, spawned, passed>>

-----------------------------------------------------------------------------
(* execute.  The host's policy is evaluated under the lock.                *)

MayExecute(approval, allowed) ==
  /\ MayAct
  /\ saved.approved /\ approval = Digest(saved)
  /\ saved.completed < Len(saved.plan)
  /\ Step(saved).deploys => saved.deploys /\ allowed
  /\ saved.state = "failed" => Step(saved).retrySafe

Begin(approval, allowed) ==
  /\ MayExecute(approval, allowed) /\ saved.attempts < MaxAttempts
  /\ phase' = "saved"
  /\ Save([saved EXCEPT !.attempts = @ + 1, !.state = "running"])
  /\ UNCHANGED <<verdict, issued, processes, spawned, passed>>

Spawn ==
  /\ phase = "saved"
  /\ phase' = "spawned"
  /\ spawned' = spawned \cup {[attempt |-> memory.attempts, step |-> StepId(memory)]}
  /\ processes' = processes \cup {memory.attempts}
  /\ UNCHANGED <<saved, memory, verdict, issued, passed>>

(* The supervisor reports how the command ended; or it fails, before the   *)
(* command is started or after, when it may live on.                       *)
Observe ==
  /\ \/ /\ phase = "spawned"
        /\ verdict' \in {"passed", "failed"}
        /\ processes' = processes \ {memory.attempts}
     \/ phase \in {"saved", "spawned"} /\ verdict' = "error" /\ UNCHANGED processes
  /\ phase' = "ended"
  /\ passed' = IF verdict' = "passed" THEN passed \cup {StepId(memory)} ELSE passed
  /\ UNCHANGED <<saved, memory, issued, spawned>>

(* An error is taken for a failure.                                        *)
RecordedAsFailed(s) ==
  IF verdict = "passed"
  THEN [s EXCEPT !.completed = @ + 1,
                 !.state = IF s.completed + 1 = Len(s.plan) THEN "completed" ELSE "approved"]
  ELSE [s EXCEPT !.state = "failed"]

(* An error leaves the step's effects unknown.                             *)
Recorded(s) ==
  CASE verdict = "passed" ->
         [s EXCEPT !.completed = @ + 1,
                   !.state = IF s.completed + 1 = Len(s.plan) THEN "completed" ELSE "approved"]
    [] verdict = "error" -> [s EXCEPT !.approved = FALSE]
    [] verdict = "failed" -> [s EXCEPT !.state = "failed"]

Record ==
  /\ phase = "ended"
  /\ phase' = "none"
  /\ verdict' = "none"
  /\ Save(Recorded(memory))
  /\ UNCHANGED <<issued, processes, spawned, passed>>

(* The executing process is killed, or cannot save; the command may live   *)
(* on, and ends at some time by itself.                                    *)
Crash ==
  /\ phase # "none"
  /\ phase' = "none"
  /\ verdict' = "none"
  /\ memory' = saved
  /\ UNCHANGED <<saved, issued, processes, spawned, passed>>

EndsAlone ==
  /\ Free /\ processes' \in {processes \ {p} : p \in processes}
  /\ UNCHANGED <<saved, phase, memory, verdict, issued, spawned, passed>>

Execute == (\E d \in issued, ok \in BOOLEAN : Begin(d, ok)) \/ Spawn \/ Observe \/ Record

Next ==
  \/ \E plan \in Plans : Revise(plan)
  \/ Evidence
  \/ \E d \in issued : Confirm(d) \/ Approve(d) \/ Reconcile(d)
  \/ Execute \/ Crash \/ EndsAlone

Spec == Init /\ [][Next]_vars

-----------------------------------------------------------------------------
(* Properties.                                                             *)

StateOK ==
  /\ saved.revision \in 1 .. MaxRevision /\ saved.plan \in Plans
  /\ saved.completed \in 0 .. Len(saved.plan) /\ saved.attempts \in 0 .. MaxAttempts
  /\ saved.state \in {"draft", "approved", "running", "failed", "completed"}

(***************************************************************************)
(* A step's command is started only when all the steps before it passed in *)
(* the same revision, and a step that deploys only where that was enabled. *)
(***************************************************************************)
StepsInOrder ==
  \A a \in spawned :
    /\ \A i \in 1 .. (a.step.index - 1) : [a.step EXCEPT !.index = i] \in passed
    /\ a.step.digest[2][a.step.index].deploys => saved.deploys

(***************************************************************************)
(* What the state file says agrees with what was granted and what was      *)
(* observed: an approval rests on a confirmation and on evidence, no plan  *)
(* is executed or approved but the one that was approved, and the steps    *)
(* that count as completed are exactly those that passed in this revision  *)
(* -- but for the one whose result could not be saved; and steps were      *)
(* started in order.                                                       *)
(***************************************************************************)
WorkflowInv ==
  /\ StateOK
  /\ StepsInOrder
  /\ saved.approved => saved.confirmed /\ saved.evidence
  /\ saved.state = "approved" \/ phase # "none" => saved.approved
  /\ saved.state = "completed" => saved.completed = Len(saved.plan)
  /\ phase # "none" => saved.state = "running" /\ memory = saved
  /\ \A i \in 1 .. Len(saved.plan) :
       /\ i <= saved.completed => [digest |-> Digest(saved), index |-> i] \in passed
       /\ [digest |-> Digest(saved), index |-> i] \in passed =>
            i <= saved.completed \/ (i = saved.completed + 1 /\ saved.state \in {"running", "failed"})

(***************************************************************************)
(* No step that is not safe to retry is started twice in a revision, and   *)
(* no attempt is two: whatever was interrupted, reconciled and approved    *)
(* again, only a new revision starts it again.                             *)
(***************************************************************************)
NoBlindReplay ==
  \A a, b \in spawned :
    /\ a.attempt = b.attempt => a = b
    /\ a.step = b.step /\ a # b => a.step.digest[2][a.step.index].retrySafe

(***************************************************************************)
(* A command that may still run and that nobody accounted for keeps the    *)
(* workflow in "running", where nothing is started: two commands run at    *)
(* once only after someone reconciled the first.                           *)
(***************************************************************************)
UnknownKeepsRunning ==
  /\ processes # {} => saved.state = "running"
  /\ Cardinality(processes) <= 1

(***************************************************************************)
(* Whoever approves a plan gets what ApprovedPlan says, whatever is killed *)
(* and whichever old approvals are used: what is known of the step under   *)
(* way is in the state file and in the execute that holds the lock.        *)
(***************************************************************************)
Flight ==
  IF saved.state # "running" THEN "none"
  ELSE CASE phase = "saved"   -> "entered"
         [] phase = "spawned" -> "launched"
         [] phase = "ended"   -> [failed |-> "launched", passed |-> "passed",
                                  error |-> "unknown"][verdict]
         [] phase = "none"    -> "unknown"

Approved == INSTANCE ApprovedPlan WITH
  plan <- Digest(saved), agreed <- saved.approved, done <- saved.completed,
  flight <- Flight, tried <- {a.step : a \in spawned}

ImplementsApproved == Approved!Spec
=============================================================================
