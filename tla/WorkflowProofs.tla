--------------------------- MODULE WorkflowProofs ---------------------------
(***************************************************************************)
(* Proofs about the JSON-LD workflows, for every set of plans and all      *)
(* bounds.                                                                 *)
(*                                                                         *)
(* WorkflowInv says what the state file may say.  To be inductive it needs *)
(* to know in addition to which step of which revision the commands that   *)
(* were ever started belong (Started), that the number of an attempt is    *)
(* not used twice (Attempts), and which commands may be alive (Alive).     *)
(***************************************************************************)
EXTENDS Workflow, FiniteSetTheorems, TLAPS

Steps == [digest : Nat \X Plans, index : Nat]
States == {"draft", "approved", "running", "failed", "completed"}
StateFile == [revision : Nat, plan : Plans, confirmed : BOOLEAN, approved : BOOLEAN,
              evidence : BOOLEAN, completed : Nat, attempts : Nat, deploys : BOOLEAN,
              state : States]

TypeOK ==
  /\ saved \in StateFile
  /\ memory = saved
  /\ phase \in {"none", "saved", "spawned", "ended"}
  /\ verdict \in {"none", "passed", "failed", "error"}
  /\ issued \subseteq Nat \X Plans
  /\ spawned \subseteq [attempt : Nat, step : Steps]
  /\ passed \subseteq Steps

Bounded ==
  /\ saved.revision \in 1 .. MaxRevision
  /\ saved.completed <= Len(saved.plan)
  /\ saved.attempts <= MaxAttempts

(* What was granted, and what is executed.                                 *)
Granted ==
  /\ saved.approved => saved.confirmed /\ saved.evidence /\ saved.state # "draft"
  /\ saved.state = "approved" => saved.approved
  /\ saved.state = "completed" => saved.completed = Len(saved.plan)
  /\ phase # "none" =>
       /\ saved.state = "running" /\ saved.approved
       /\ saved.completed < Len(saved.plan)
       /\ Step(saved).deploys => saved.deploys
  /\ verdict # "none" <=> phase = "ended"

(* A step of which something is known is of an old revision, or is one of  *)
(* the steps of the plan that were reached.                                *)
Reached(step) ==
  /\ step.digest[1] <= saved.revision
  /\ step.index \in 1 .. Len(step.digest[2])
  /\ step.digest[1] = saved.revision =>
       /\ step.digest[2] = saved.plan
       /\ \/ step.index <= saved.completed
          \/ step.index = saved.completed + 1 /\ saved.state \in {"running", "failed"}

Completed ==
  /\ \A step \in passed : Reached(step)
  /\ \A i \in 1 .. saved.completed : [digest |-> Digest(saved), index |-> i] \in passed
  /\ verdict = "passed" => StepId(saved) \in passed

Started ==
  /\ \A a \in spawned : Reached(a.step)
  /\ phase = "saved" => \A a \in spawned : a.step = StepId(saved) => Step(saved).retrySafe

Attempts ==
  /\ \A a \in spawned : a.attempt <= saved.attempts
  /\ phase = "saved" => \A a \in spawned : a.attempt # saved.attempts

Alive ==
  /\ processes \subseteq {saved.attempts}
  /\ processes # {} => saved.state = "running"
  /\ phase = "saved" \/ verdict \in {"passed", "failed"} => processes = {}

IInv ==
  /\ TypeOK /\ Bounded /\ Granted /\ Completed /\ Started /\ Attempts /\ Alive
  /\ StepsInOrder /\ NoBlindReplay

-----------------------------------------------------------------------------
LEMMA PlanLength == \A plan \in Plans : Len(plan) \in Nat /\ Len(plan) > 0
<1>. TAKE plan \in Plans
<1>1. plan \in Seq([deploys : BOOLEAN, retrySafe : BOOLEAN]) /\ plan # << >>
  BY WorkflowAssumption
<1>. QED  BY <1>1

LEMMA Initially == Init => IInv
<1>. SUFFICES ASSUME Init PROVE IInv
  OBVIOUS
<1>. PICK plan \in Plans, deploys \in BOOLEAN : saved = Draft(plan, 1, deploys)
  BY DEF Init
<1>1. TypeOK
  BY DEF Init, Draft, TypeOK, StateFile, States, Digest
<1>2. Bounded
  BY PlanLength, WorkflowAssumption DEF Bounded, Draft
<1>3. Granted
  BY DEF Init, Granted, Draft
<1>4. Alive /\ Attempts /\ Started /\ Completed
  BY DEF Init, Alive, Attempts, Started, Completed, Draft
<1>5. StepsInOrder /\ NoBlindReplay
  BY DEF Init, StepsInOrder, NoBlindReplay
<1>. QED  BY <1>1, <1>2, <1>3, <1>4, <1>5 DEF IInv

(***************************************************************************)
(* Nothing is known of the steps of a new revision.                        *)
(***************************************************************************)
LEMMA ReviseStep == ASSUME NEW plan \in Plans, IInv, Revise(plan) PROVE IInv'
<1>. USE DEF IInv
<1>1. saved' = [Draft(plan, saved.revision + 1, saved.deploys)
                  EXCEPT !.attempts = saved.attempts]
      /\ saved.state # "running" /\ phase = "none"
  BY DEF Revise, Save, MayAct, Free
<1>2. /\ saved'.revision = saved.revision + 1 /\ saved'.plan = plan
      /\ saved'.completed = 0 /\ saved'.attempts = saved.attempts
      /\ saved'.approved = FALSE /\ saved'.state = "draft"
      /\ saved'.deploys = saved.deploys
  BY <1>1 DEF Draft
<1>3. TypeOK'
  <2>1. saved' = [revision |-> saved.revision + 1, plan |-> plan, confirmed |-> FALSE,
                  approved |-> FALSE, evidence |-> FALSE, completed |-> 0,
                  attempts |-> saved.attempts, deploys |-> saved.deploys, state |-> "draft"]
    BY <1>1 DEF Draft
  <2>2. saved' \in StateFile
    BY <2>1 DEF TypeOK, StateFile, States
  <2>3. Digest(saved') \in Nat \X Plans
    BY <2>2 DEF Digest, StateFile
  <2>. QED
    BY <2>2, <2>3 DEF Revise, Save, Idle, TypeOK
<1>4. Bounded'
  BY <1>2, PlanLength, WorkflowAssumption DEF Bounded, Revise, TypeOK, StateFile
<1>5. Granted'
  BY <1>1, <1>2 DEF Granted, Revise, Idle
<1>6. \A step \in Steps : Reached(step) => Reached(step)'
  BY <1>2 DEF Reached, TypeOK, StateFile, Steps
<1>7. Completed' /\ Started'
  BY <1>1, <1>2, <1>6 DEF Completed, Started, Revise, Idle, TypeOK, Granted
<1>8. Attempts' /\ Alive'
  BY <1>1, <1>2 DEF Attempts, Alive, Granted, Revise, Idle
<1>9. StepsInOrder' /\ NoBlindReplay'
  BY <1>2 DEF StepsInOrder, NoBlindReplay, Revise, Idle
<1>. QED  BY <1>3, <1>4, <1>5, <1>7, <1>8, <1>9

(***************************************************************************)
(* evidence, confirm, approve and reconcile change nothing but the grants  *)
(* and the state.                                                          *)
(***************************************************************************)
SamePlan ==
  /\ saved'.revision = saved.revision /\ saved'.plan = saved.plan
  /\ saved'.completed = saved.completed /\ saved'.attempts = saved.attempts
  /\ saved'.deploys = saved.deploys

Grants ==
  /\ saved' \in StateFile /\ memory' = saved' /\ SamePlan
  /\ saved'.approved => saved'.confirmed /\ saved'.evidence /\ saved'.state # "draft"
  /\ saved'.state = "approved" => saved'.approved
  /\ saved'.state = "completed" => saved.state = "completed"
  /\ saved.state = "failed" => saved'.state = "failed"
  /\ saved.state = "running" => saved'.state = "failed"
  /\ phase = "none" /\ UNCHANGED <<phase, verdict, issued, spawned, passed>>
  /\ processes' = IF saved.state = "running" THEN {} ELSE processes

LEMMA GrantsStep == IInv /\ Grants => IInv'
<1>. SUFFICES ASSUME IInv, Grants PROVE IInv'
  OBVIOUS
<1>. USE DEF IInv, Grants, SamePlan
<1>1. TypeOK' /\ Bounded'
  BY DEF TypeOK, Bounded
<1>2. Granted'
  BY DEF Granted
<1>3. \A step \in Steps : Reached(step) => Reached(step)'
  BY DEF Reached, Steps
<1>4. Completed' /\ Started' /\ Attempts'
  BY <1>3 DEF Completed, Started, Attempts, TypeOK, Digest, Granted
<1>5. Alive'
  BY DEF Alive, Granted
<1>6. StepsInOrder' /\ NoBlindReplay'
  BY DEF StepsInOrder, NoBlindReplay
<1>. QED  BY <1>1, <1>2, <1>4, <1>5, <1>6

LEMMA EvidenceStep == IInv /\ Evidence => IInv'
<1>. SUFFICES ASSUME IInv, Evidence PROVE Grants
  BY GrantsStep
<1>. DEFINE next == [saved EXCEPT !.evidence = TRUE]
<1>1. saved' = next /\ memory' = next /\ saved.state # "running" /\ phase = "none"
  BY DEF Evidence, Save, MayAct, Free
<1>2. next \in StateFile /\ next.state = saved.state /\ next.approved = FALSE
  BY DEF IInv, TypeOK, StateFile, Evidence
<1>3. SamePlan
  BY <1>1 DEF SamePlan, IInv, TypeOK, StateFile
<1>. QED  BY <1>1, <1>2, <1>3 DEF Grants, Evidence, Idle, IInv, Granted

LEMMA ConfirmStep == ASSUME NEW d, IInv, Confirm(d) PROVE IInv'
<1>. SUFFICES Grants
  BY GrantsStep
<1>. DEFINE next == [saved EXCEPT !.confirmed = TRUE]
<1>1. saved' = next /\ memory' = next /\ saved.state # "running" /\ phase = "none"
  BY DEF Confirm, Save, MayAct, Free
<1>2. /\ next \in StateFile /\ next.state = saved.state /\ next.confirmed = TRUE
      /\ next.approved = saved.approved /\ next.evidence = saved.evidence
  BY DEF IInv, TypeOK, StateFile
<1>3. SamePlan
  BY <1>1 DEF SamePlan, IInv, TypeOK, StateFile
<1>. QED  BY <1>1, <1>2, <1>3 DEF Grants, Confirm, Idle, IInv, Granted

LEMMA ApproveStep == ASSUME NEW d, IInv, Approve(d) PROVE IInv'
<1>. SUFFICES Grants
  BY GrantsStep
<1>. DEFINE s == IF saved.state \in {"failed", "completed"} THEN saved.state ELSE "approved"
            next == [saved EXCEPT !.approved = TRUE, !.state = s]
<1>1. /\ saved' = next /\ memory' = next /\ saved.state # "running" /\ phase = "none"
      /\ saved.confirmed /\ saved.evidence
  BY DEF Approve, Save, MayAct, Free, IInv, TypeOK, StateFile
<1>2. /\ next \in StateFile /\ next.state = s /\ next.confirmed = saved.confirmed
      /\ next.approved = TRUE /\ next.evidence = saved.evidence
  BY DEF IInv, TypeOK, StateFile, States
<1>3. SamePlan
  BY <1>1 DEF SamePlan, IInv, TypeOK, StateFile
<1>. QED  BY <1>1, <1>2, <1>3 DEF Grants, Approve, Idle, IInv, Granted

LEMMA ReconcileStep == ASSUME NEW d, IInv, Reconcile(d) PROVE IInv'
<1>. SUFFICES Grants
  BY GrantsStep
<1>. DEFINE next == [saved EXCEPT !.state = "failed", !.approved = FALSE]
<1>1. saved' = next /\ memory' = next /\ saved.state = "running" /\ phase = "none"
  BY DEF Reconcile, Save, Free
<1>2. next \in StateFile /\ next.state = "failed" /\ next.approved = FALSE
  BY DEF IInv, TypeOK, StateFile, States
<1>3. SamePlan
  BY <1>1 DEF SamePlan, IInv, TypeOK, StateFile
<1>. QED  BY <1>1, <1>2, <1>3 DEF Grants, Reconcile

-----------------------------------------------------------------------------
(***************************************************************************)
(* execute saves that the step runs.  What was known of it before is of a  *)
(* failed attempt, after which it may be retried.                          *)
(***************************************************************************)
LEMMA BeginStep == ASSUME NEW d, NEW ok, IInv, Begin(d, ok) PROVE IInv'
<1>. USE DEF IInv
<1>. DEFINE next == [saved EXCEPT !.attempts = @ + 1, !.state = "running"]
<1>1. /\ saved' = next /\ memory' = next /\ saved.state # "running" /\ phase = "none"
      /\ phase' = "saved" /\ saved.approved /\ saved.completed < Len(saved.plan)
      /\ Step(saved).deploys => saved.deploys
      /\ saved.state = "failed" => Step(saved).retrySafe
      /\ saved.attempts < MaxAttempts
      /\ UNCHANGED <<verdict, issued, processes, spawned, passed>>
  BY DEF Begin, MayExecute, MayAct, Free, Save
<1>2. next \in StateFile
  <2>1. saved.attempts + 1 \in Nat /\ saved \in StateFile
    BY DEF TypeOK, StateFile
  <2>. QED  BY <2>1 DEF StateFile, States
<1>3. /\ saved'.revision = saved.revision /\ saved'.plan = saved.plan
      /\ saved'.completed = saved.completed /\ saved'.attempts = saved.attempts + 1
      /\ saved'.deploys = saved.deploys /\ saved'.state = "running"
      /\ saved'.approved = saved.approved /\ saved'.confirmed = saved.confirmed
      /\ saved'.evidence = saved.evidence
  BY <1>1 DEF TypeOK, StateFile
<1>4. TypeOK'
  BY <1>1, <1>2 DEF TypeOK
<1>5. Bounded'
  BY <1>1, <1>3, WorkflowAssumption DEF Bounded, TypeOK, StateFile
<1>6. Granted'
  BY <1>1, <1>3 DEF Granted, Step
<1>7. \A step \in Steps : Reached(step) => Reached(step)'
  BY <1>3 DEF Reached, Steps
<1>8. Completed'
  BY <1>1, <1>3, <1>7 DEF Completed, TypeOK, Digest, Granted
<1>9. ASSUME NEW a \in spawned, a.step = StepId(saved) PROVE Step(saved).retrySafe
  <2>1. Reached(a.step) /\ a.step.digest[1] = saved.revision
        /\ a.step.index = saved.completed + 1
    BY <1>9 DEF Started, StepId, Digest
  <2>2. saved.state = "failed"
    BY <2>1, <1>1 DEF Reached, TypeOK, StateFile
  <2>. QED  BY <2>2, <1>1
<1>10. Started'
  BY <1>1, <1>3, <1>7, <1>9 DEF Started, TypeOK, StepId, Step, Digest
<1>11. Attempts' /\ Alive'
  BY <1>1, <1>3 DEF Attempts, Alive, Granted, TypeOK, StateFile
<1>12. StepsInOrder' /\ NoBlindReplay'
  BY <1>1, <1>3 DEF StepsInOrder, NoBlindReplay
<1>. QED  BY <1>4, <1>5, <1>6, <1>8, <1>10, <1>11, <1>12

(***************************************************************************)
(* The command is started: the number of its attempt is new, and so is the *)
(* step, unless it may be retried.                                         *)
(***************************************************************************)
LEMMA SpawnStep == IInv /\ Spawn => IInv'
<1>. SUFFICES ASSUME IInv, Spawn PROVE IInv'
  OBVIOUS
<1>. USE DEF IInv
<1>. DEFINE new == [attempt |-> saved.attempts, step |-> StepId(saved)]
<1>1. /\ phase = "saved" /\ phase' = "spawned" /\ memory = saved
      /\ spawned' = spawned \cup {new} /\ processes' = processes \cup {saved.attempts}
      /\ UNCHANGED <<saved, memory, verdict, issued, passed>>
  BY DEF Spawn, TypeOK
<1>2. StepId(saved) \in Steps /\ new.attempt = saved.attempts /\ new.step = StepId(saved)
  BY DEF StepId, Digest, Steps, TypeOK, StateFile
<1>3. /\ StepId(saved).index = saved.completed + 1
      /\ StepId(saved).digest[1] = saved.revision /\ StepId(saved).digest[2] = saved.plan
      /\ saved.state = "running" /\ saved.completed < Len(saved.plan)
      /\ Step(saved).deploys => saved.deploys
  BY <1>1 DEF StepId, Digest, Granted
<1>4. TypeOK' /\ Bounded'
  BY <1>1, <1>2 DEF TypeOK, Bounded, StateFile
<1>5. Granted'
  BY <1>1 DEF Granted, Step
<1>6. \A step \in Steps : Reached(step) => Reached(step)'
  BY <1>1 DEF Reached
<1>7. Completed'
  BY <1>1, <1>6 DEF Completed, Digest, TypeOK
<1>8. Reached(StepId(saved))
  BY <1>3, PlanLength DEF Reached, TypeOK, StateFile
<1>9. Started' /\ Alive'
  BY <1>1, <1>2, <1>6, <1>8, <1>3 DEF Started, TypeOK, Alive, Granted
<1>10. Attempts'
  BY <1>1, <1>2 DEF Attempts, TypeOK, StateFile
<1>11. StepsInOrder'
  <2>1. \A i \in 1 .. saved.completed : [StepId(saved) EXCEPT !.index = i] \in passed
    BY DEF StepId, Completed
  <2>2. StepId(saved).digest[2][StepId(saved).index] = Step(saved)
    BY <1>3 DEF Step
  <2>3. (\A i \in 1 .. (StepId(saved).index - 1) : [StepId(saved) EXCEPT !.index = i] \in passed)
        /\ (StepId(saved).digest[2][StepId(saved).index].deploys => saved.deploys)
    BY <2>1, <2>2, <1>3 DEF TypeOK, StateFile
  <2>. QED  BY <1>1, <1>2, <2>3 DEF StepsInOrder
<1>12. NoBlindReplay'
  <2>1. \A a \in spawned : a.attempt # saved.attempts
                           /\ (a.step = StepId(saved) => Step(saved).retrySafe)
    BY <1>1 DEF Attempts, Started
  <2>2. StepId(saved).digest[2][StepId(saved).index] = Step(saved)
    BY <1>3 DEF Step
  <2>. SUFFICES ASSUME NEW a \in spawned', NEW b \in spawned'
                PROVE  /\ a.attempt = b.attempt => a = b
                       /\ a.step = b.step /\ a # b =>
                            a.step.digest[2][a.step.index].retrySafe
    BY DEF NoBlindReplay
  <2>3. CASE a \in spawned /\ b \in spawned
    BY <2>3 DEF NoBlindReplay
  <2>4. CASE a = new \/ b = new
    BY <2>4, <2>1, <2>2, <1>1, <1>2
  <2>. QED  BY <2>3, <2>4, <1>1
<1>. QED  BY <1>4, <1>5, <1>7, <1>9, <1>10, <1>11, <1>12

LEMMA ObserveStep == IInv /\ Observe => IInv'
<1>. SUFFICES ASSUME IInv, Observe PROVE IInv'
  OBVIOUS
<1>. USE DEF IInv
<1>1. /\ phase \in {"saved", "spawned"} /\ phase' = "ended" /\ memory = saved
      /\ verdict' \in {"passed", "failed", "error"}
      /\ passed' = IF verdict' = "passed" THEN passed \cup {StepId(saved)} ELSE passed
      /\ processes' \subseteq processes
      /\ verdict' \in {"passed", "failed"} => processes' = processes \ {saved.attempts}
      /\ UNCHANGED <<saved, memory, issued, spawned>>
  BY DEF Observe, TypeOK
<1>2. StepId(saved) \in Steps
  BY DEF StepId, Digest, Steps, TypeOK, StateFile
<1>3. TypeOK' /\ Bounded'
  BY <1>1, <1>2 DEF TypeOK, Bounded
<1>4. Granted'
  BY <1>1 DEF Granted, Step
<1>5. \A step \in Steps : Reached(step) => Reached(step)'
  BY <1>1 DEF Reached
<1>6. Reached(StepId(saved))
  <2>1. /\ StepId(saved).index = saved.completed + 1
        /\ StepId(saved).digest[1] = saved.revision /\ StepId(saved).digest[2] = saved.plan
        /\ saved.state = "running" /\ saved.completed < Len(saved.plan)
    BY <1>1 DEF StepId, Digest, Granted
  <2>. QED  BY <2>1, PlanLength DEF Reached, TypeOK, StateFile
<1>7. Completed'
  BY <1>1, <1>2, <1>5, <1>6 DEF Completed, Digest, TypeOK
<1>8. Started' /\ Attempts'
  BY <1>1, <1>5 DEF Started, Attempts, TypeOK
<1>9. Alive'
  BY <1>1 DEF Alive, Granted
<1>10. StepsInOrder' /\ NoBlindReplay'
  BY <1>1 DEF StepsInOrder, NoBlindReplay
<1>. QED  BY <1>3, <1>4, <1>7, <1>8, <1>9, <1>10

(***************************************************************************)
(* The result is saved: a step that passed counts as completed, one that   *)
(* failed does not, and an error takes the approval back.                  *)
(***************************************************************************)
LEMMA RecordStep == IInv /\ Record => IInv'
<1>. SUFFICES ASSUME IInv, Record PROVE IInv'
  OBVIOUS
<1>. USE DEF IInv
<1>1. /\ phase = "ended" /\ phase' = "none" /\ verdict' = "none"
      /\ saved' = Recorded(saved) /\ memory' = Recorded(saved)
      /\ UNCHANGED <<issued, processes, spawned, passed>>
      /\ saved.state = "running" /\ saved.completed < Len(saved.plan)
      /\ verdict \in {"passed", "failed", "error"}
      /\ saved.approved /\ saved.confirmed /\ saved.evidence
  BY DEF Record, Save, TypeOK, Granted
<1>. DEFINE end == IF saved.completed + 1 = Len(saved.plan) THEN "completed" ELSE "approved"
<1>2. CASE verdict = "passed"
  <2>1. saved' = [saved EXCEPT !.completed = @ + 1, !.state = end]
    BY <1>1, <1>2 DEF Recorded
  <2>2. saved.completed + 1 \in Nat /\ saved \in StateFile
    BY DEF TypeOK, StateFile
  <2>3. saved' \in StateFile
    BY <2>1, <2>2 DEF StateFile, States
  <2>4. /\ saved'.revision = saved.revision /\ saved'.plan = saved.plan
        /\ saved'.completed = saved.completed + 1 /\ saved'.attempts = saved.attempts
        /\ saved'.deploys = saved.deploys /\ saved'.state = end
        /\ saved'.approved = saved.approved /\ saved'.confirmed = saved.confirmed
        /\ saved'.evidence = saved.evidence
    BY <2>1, <2>2 DEF StateFile
  <2>5. TypeOK' /\ Bounded'
    BY <1>1, <2>3, <2>4, PlanLength DEF TypeOK, Bounded, StateFile
  <2>6. Granted'
    BY <1>1, <2>4 DEF Granted
  <2>7. \A step \in Steps : Reached(step) => Reached(step)'
    BY <2>4, <1>1, PlanLength DEF Reached, Steps, TypeOK, StateFile
  <2>8. StepId(saved) \in passed
    BY <1>1, <1>2 DEF Completed
  <2>9. Completed'
    <3>1. \A i \in 1 .. saved.completed + 1 : [digest |-> Digest(saved), index |-> i] \in passed
      <4>. TAKE i \in 1 .. saved.completed + 1
      <4>1. CASE i \in 1 .. saved.completed
        BY <4>1 DEF Completed
      <4>2. CASE i = saved.completed + 1
        BY <4>2, <2>8 DEF StepId
      <4>. QED  BY <4>1, <4>2, <2>2 DEF StateFile
    <3>. QED  BY <1>1, <2>4, <2>7, <3>1 DEF Completed, TypeOK, Digest
  <2>10. Started' /\ Attempts'
    BY <1>1, <2>4, <2>7 DEF Started, Attempts, TypeOK
  <2>11. Alive'
    BY <1>1, <1>2, <2>4 DEF Alive
  <2>12. StepsInOrder' /\ NoBlindReplay'
    BY <1>1, <2>4 DEF StepsInOrder, NoBlindReplay
  <2>. QED  BY <2>5, <2>6, <2>9, <2>10, <2>11, <2>12
<1>3. CASE verdict # "passed"
  <2>1. /\ saved' \in StateFile /\ SamePlan
        /\ saved'.confirmed = saved.confirmed /\ saved'.evidence = saved.evidence
        /\ \/ saved'.state = "failed" /\ saved'.approved = saved.approved /\ verdict = "failed"
           \/ saved'.state = "running" /\ saved'.approved = FALSE
    <3>1. CASE verdict = "failed"
      BY <1>1, <3>1 DEF Recorded, SamePlan, TypeOK, StateFile, States
    <3>2. CASE verdict = "error"
      BY <1>1, <3>2 DEF Recorded, SamePlan, TypeOK, StateFile, States
    <3>. QED  BY <1>1, <1>3, <3>1, <3>2
  <2>2. TypeOK' /\ Bounded'
    BY <1>1, <2>1 DEF TypeOK, Bounded, SamePlan
  <2>3. Granted'
    BY <1>1, <2>1 DEF Granted
  <2>4. \A step \in Steps : Reached(step) => Reached(step)'
    BY <2>1 DEF Reached, SamePlan
  <2>5. Completed' /\ Started' /\ Attempts'
    BY <1>1, <2>1, <2>4 DEF Completed, Started, Attempts, TypeOK, Digest, SamePlan
  <2>6. Alive'
    BY <1>1, <1>3, <2>1 DEF Alive, SamePlan
  <2>7. StepsInOrder' /\ NoBlindReplay'
    BY <1>1, <2>1 DEF StepsInOrder, NoBlindReplay, SamePlan
  <2>. QED  BY <2>2, <2>3, <2>5, <2>6, <2>7
<1>. QED  BY <1>2, <1>3

(***************************************************************************)
(* A kill of the executing process leaves a running step; a command that   *)
(* lives on may end.                                                       *)
(***************************************************************************)
LEMMA QuietStep == IInv /\ (Crash \/ EndsAlone \/ UNCHANGED vars) => IInv'
<1>. SUFFICES ASSUME IInv, Crash \/ EndsAlone \/ UNCHANGED vars PROVE IInv'
  OBVIOUS
<1>. USE DEF IInv
<1>1. /\ \/ phase' = "none" /\ verdict' = "none"
         \/ UNCHANGED <<phase, verdict>>
      /\ processes' \subseteq processes
      /\ UNCHANGED <<saved, memory, issued, spawned, passed>>
  BY DEF Crash, EndsAlone, vars, TypeOK
<1>2. TypeOK' /\ Bounded' /\ Granted'
  BY <1>1 DEF TypeOK, Bounded, Granted, Step
<1>3. \A step \in Steps : Reached(step) => Reached(step)'
  BY <1>1 DEF Reached
<1>4. Completed' /\ Started' /\ Attempts' /\ Alive'
  BY <1>1, <1>3 DEF Completed, Started, Attempts, Alive, TypeOK, Digest, StepId, Step
<1>5. StepsInOrder' /\ NoBlindReplay'
  BY <1>1 DEF StepsInOrder, NoBlindReplay
<1>. QED  BY <1>2, <1>4, <1>5

(***************************************************************************)
(* Every step of every action of workflow.rs preserves the invariant.      *)
(***************************************************************************)
THEOREM InductiveInvariant == Spec => []IInv
<1>1. IInv /\ [Next]_vars => IInv'
  BY ReviseStep, EvidenceStep, ConfirmStep, ApproveStep, ReconcileStep, BeginStep, SpawnStep,
     ObserveStep, RecordStep, QuietStep DEF Next, Execute
<1>. QED  BY Initially, <1>1, PTL DEF Spec

-----------------------------------------------------------------------------
(***************************************************************************)
(* The state file agrees with what was granted and observed, and steps are *)
(* started in order, whatever is killed, reconciled or approved anew.      *)
(***************************************************************************)
THEOREM StateFileIsTrue == Spec => []WorkflowInv
<1>1. IInv => WorkflowInv
  <2>. SUFFICES ASSUME IInv PROVE WorkflowInv
    OBVIOUS
  <2>. USE DEF IInv
  <2>1. StateOK
    BY PlanLength DEF StateOK, TypeOK, StateFile, States, Bounded
  <2>2. \A i \in 1 .. Len(saved.plan) :
          /\ i <= saved.completed => [digest |-> Digest(saved), index |-> i] \in passed
          /\ [digest |-> Digest(saved), index |-> i] \in passed =>
               i <= saved.completed \/ (i = saved.completed + 1 /\ saved.state \in {"running", "failed"})
    BY PlanLength DEF Completed, Reached, Digest, TypeOK, StateFile
  <2>. QED
    BY <2>1, <2>2 DEF WorkflowInv, Granted, TypeOK
<1>. QED  BY <1>1, InductiveInvariant, PTL

(***************************************************************************)
(* execute replays no step that is not safe to retry.                      *)
(***************************************************************************)
THEOREM NothingIsReplayedBlindly == Spec => []NoBlindReplay
BY InductiveInvariant, PTL DEF IInv

(***************************************************************************)
(* A command that may still run, and for which nobody accounted, keeps the *)
(* workflow in running, and there is one at most.                          *)
(***************************************************************************)
THEOREM UnknownIsKept == Spec => []UnknownKeepsRunning
<1>1. IInv => UnknownKeepsRunning
  <2>. SUFFICES ASSUME IInv PROVE Cardinality(processes) <= 1
    BY DEF IInv, Alive, UnknownKeepsRunning
  <2>1. processes = {} \/ processes = {saved.attempts}
    BY DEF IInv, Alive
  <2>2. Cardinality({}) = 0 /\ Cardinality({saved.attempts}) = 1
    BY FS_EmptySet, FS_Singleton
  <2>. QED  BY <2>1, <2>2
<1>. QED  BY <1>1, InductiveInvariant, PTL

-----------------------------------------------------------------------------
(***************************************************************************)
(* The refinement.  A plan that was confirmed has no open question; every  *)
(* other step changes at most what is in flight.                           *)
(***************************************************************************)
NoneOpen == saved.confirmed => saved.plan \notin Open

Tried == {a.step : a \in spawned}

Flights == Approved!Next \/ UNCHANGED Approved!planVars

LEMMA FlightShown ==
  /\ saved.state # "running" => Flight = "none"
  /\ saved.state = "running" /\ phase = "saved" => Flight = "entered"
  /\ saved.state = "running" /\ phase = "spawned" => Flight = "launched"
  /\ saved.state = "running" /\ phase = "ended" /\ verdict = "failed" => Flight = "launched"
  /\ saved.state = "running" /\ phase = "ended" /\ verdict = "passed" => Flight = "passed"
  /\ saved.state = "running" /\ phase = "ended" /\ verdict = "error" => Flight = "unknown"
  /\ saved.state = "running" /\ phase = "none" /\ verdict = "none" => Flight = "unknown"
BY DEF Flight

LEMMA FlightShownNext ==
  /\ saved'.state # "running" => Flight' = "none"
  /\ saved'.state = "running" /\ phase' = "saved" => Flight' = "entered"
  /\ saved'.state = "running" /\ phase' = "spawned" => Flight' = "launched"
  /\ saved'.state = "running" /\ phase' = "ended" /\ verdict' = "failed" => Flight' = "launched"
  /\ saved'.state = "running" /\ phase' = "ended" /\ verdict' = "passed" => Flight' = "passed"
  /\ saved'.state = "running" /\ phase' = "ended" /\ verdict' = "error" => Flight' = "unknown"
  /\ saved'.state = "running" /\ phase' = "none" /\ verdict' = "none" => Flight' = "unknown"
BY DEF Flight

LEMMA ReviseRefines == ASSUME NEW plan \in Plans, IInv, Revise(plan)
                       PROVE  Approved!Replan(plan) /\ NoneOpen'
<1>1. /\ saved' = [Draft(plan, saved.revision + 1, saved.deploys) EXCEPT !.attempts = saved.attempts]
      /\ saved.state # "running" /\ spawned' = spawned
  BY DEF Revise, Save, MayAct, Idle
<1>2. /\ saved'.revision = saved.revision + 1 /\ saved'.plan = plan /\ saved'.completed = 0
      /\ saved'.approved = FALSE /\ saved'.confirmed = FALSE /\ saved'.state = "draft"
  BY <1>1 DEF Draft
<1>3. Flight = "none" /\ Flight' = "none"
  BY <1>1, <1>2, FlightShown, FlightShownNext
<1>4. Digest(saved)' = <<Digest(saved)[1] + 1, plan>>
  BY <1>2 DEF Digest
<1>. QED  BY <1>1, <1>2, <1>3, <1>4 DEF Approved!Replan, NoneOpen

(* The operations that only grant or withhold.                             *)
LEMMA GrantsRefine ==
  ASSUME IInv, NoneOpen, (\E d \in issued : Confirm(d) \/ Approve(d) \/ Reconcile(d)) \/ Evidence
  PROVE  Flights /\ NoneOpen'
<1>. USE DEF IInv, TypeOK
<1>1. CASE Evidence
  <2>1. /\ saved' = [saved EXCEPT !.evidence = TRUE] /\ saved.state # "running"
        /\ spawned' = spawned
    BY <1>1 DEF Evidence, Save, MayAct, Idle
  <2>2. /\ saved'.revision = saved.revision /\ saved'.plan = saved.plan
        /\ saved'.completed = saved.completed /\ saved'.approved = saved.approved
        /\ saved'.confirmed = saved.confirmed /\ saved'.state = saved.state
    BY <2>1 DEF StateFile
  <2>3. Flight' = Flight
    BY <2>1, <2>2, FlightShown, FlightShownNext
  <2>. QED  BY <2>1, <2>2, <2>3 DEF Flights, Approved!planVars, Digest, NoneOpen
<1>2. CASE \E d \in issued : Confirm(d)
  <2>1. /\ saved' = [saved EXCEPT !.confirmed = TRUE] /\ saved.state # "running"
        /\ spawned' = spawned /\ saved.plan \notin Open
    BY <1>2 DEF Confirm, Save, MayAct, Idle
  <2>2. /\ saved'.revision = saved.revision /\ saved'.plan = saved.plan
        /\ saved'.completed = saved.completed /\ saved'.approved = saved.approved
        /\ saved'.state = saved.state
    BY <2>1 DEF StateFile
  <2>3. Flight' = Flight
    BY <2>1, <2>2, FlightShown, FlightShownNext
  <2>. QED  BY <2>1, <2>2, <2>3 DEF Flights, Approved!planVars, Digest, NoneOpen
<1>3. CASE \E d \in issued : Approve(d)
  <2>. DEFINE s == IF saved.state \in {"failed", "completed"} THEN saved.state ELSE "approved"
  <2>1. /\ saved' = [saved EXCEPT !.approved = TRUE, !.state = s] /\ saved.state # "running"
        /\ spawned' = spawned /\ saved.confirmed
    BY <1>3 DEF Approve, Save, MayAct, Idle, StateFile
  <2>2. /\ saved'.revision = saved.revision /\ saved'.plan = saved.plan
        /\ saved'.completed = saved.completed /\ saved'.approved = TRUE
        /\ saved'.confirmed = saved.confirmed /\ saved'.state # "running"
    BY <2>1 DEF StateFile
  <2>3. Flight' = "none" /\ Flight = "none" /\ saved.plan \notin Open
    BY <2>1, <2>2, FlightShown, FlightShownNext DEF NoneOpen
  <2>4. Approved!Agree
    BY <2>1, <2>2, <2>3 DEF Approved!Agree, Digest
  <2>. QED  BY <2>2, <2>3, <2>4 DEF Flights, Approved!Next, NoneOpen
<1>4. CASE \E d \in issued : Reconcile(d)
  <2>1. /\ saved' = [saved EXCEPT !.state = "failed", !.approved = FALSE]
        /\ saved.state = "running" /\ phase = "none" /\ spawned' = spawned
    BY <1>4 DEF Reconcile, Save, Free
  <2>2. /\ saved'.revision = saved.revision /\ saved'.plan = saved.plan
        /\ saved'.completed = saved.completed /\ saved'.approved = FALSE
        /\ saved'.confirmed = saved.confirmed /\ saved'.state = "failed"
    BY <2>1 DEF StateFile
  <2>3. Flight' = "none" /\ Flight = "unknown"
    BY <2>1, <2>2, FlightShown, FlightShownNext DEF Granted
  <2>4. Approved!Settle
    BY <2>1, <2>2, <2>3 DEF Approved!Settle, Digest
  <2>. QED  BY <2>2, <2>4 DEF Flights, Approved!Next, NoneOpen
<1>. QED  BY <1>1, <1>2, <1>3, <1>4

(***************************************************************************)
(* execute enters a step: what was tried of it before failed, and may be   *)
(* retried.                                                                *)
(***************************************************************************)
LEMMA BeginRefines == ASSUME NEW d, NEW ok, IInv, NoneOpen, Begin(d, ok)
                      PROVE  Approved!Enter /\ NoneOpen'
<1>. USE DEF IInv, TypeOK
<1>1. /\ saved' = [saved EXCEPT !.attempts = @ + 1, !.state = "running"]
      /\ saved.state # "running" /\ saved.approved /\ saved.completed < Len(saved.plan)
      /\ saved.state = "failed" => Step(saved).retrySafe
      /\ phase' = "saved" /\ spawned' = spawned
  BY DEF Begin, MayExecute, MayAct, Save
<1>2. /\ saved'.revision = saved.revision /\ saved'.plan = saved.plan
      /\ saved'.completed = saved.completed /\ saved'.approved = saved.approved
      /\ saved'.confirmed = saved.confirmed /\ saved'.state = "running"
  BY <1>1 DEF StateFile
<1>3. Flight = "none" /\ Flight' = "entered"
  BY <1>1, <1>2, FlightShown, FlightShownNext
<1>4. ASSUME NEW a \in spawned, a.step = StepId(saved) PROVE Step(saved).retrySafe
  <2>1. Reached(a.step) /\ a.step.digest[1] = saved.revision
        /\ a.step.index = saved.completed + 1
    BY <1>4 DEF Started, StepId, Digest
  <2>2. saved.state = "failed"
    BY <2>1, <1>1 DEF Reached, StateFile
  <2>. QED  BY <2>2, <1>1
<1>5. StepId(saved) \in Tried => Digest(saved)[2][saved.completed + 1].retrySafe
  BY <1>4 DEF Tried, Step, Digest
<1>6. Digest(saved)' = Digest(saved) /\ Digest(saved)[2] = saved.plan
  BY <1>2 DEF Digest
<1>. QED
  BY <1>1, <1>2, <1>3, <1>5, <1>6 DEF Approved!Enter, Approved!Current, StepId, Tried, NoneOpen

LEMMA SpawnRefines == IInv /\ Spawn => Approved!Launch
<1>. SUFFICES ASSUME IInv, Spawn PROVE Approved!Launch
  OBVIOUS
<1>. USE DEF IInv, TypeOK
<1>1. /\ phase = "saved" /\ phase' = "spawned" /\ memory = saved /\ saved' = saved
      /\ spawned' = spawned \cup {[attempt |-> saved.attempts, step |-> StepId(saved)]}
  BY DEF Spawn
<1>2. saved.state = "running" /\ saved'.state = "running"
  BY <1>1 DEF Granted
<1>3. Flight = "entered" /\ Flight' = "launched"
  BY <1>1, <1>2, FlightShown, FlightShownNext
<1>4. Tried' = Tried \cup {StepId(saved)}
  <2>1. [attempt |-> saved.attempts, step |-> StepId(saved)].step = StepId(saved)
    OBVIOUS
  <2>. QED  BY <1>1, <2>1, Zenon DEF Tried
<1>. QED
  BY <1>1, <1>3, <1>4 DEF Approved!Launch, Approved!Current, StepId, Digest, Tried

LEMMA ObserveRefines == IInv /\ Observe => Flights
<1>. SUFFICES ASSUME IInv, Observe PROVE Flights
  OBVIOUS
<1>. USE DEF IInv, TypeOK
<1>1. /\ \/ phase = "spawned" /\ verdict' \in {"passed", "failed"}
         \/ phase \in {"saved", "spawned"} /\ verdict' = "error"
      /\ phase' = "ended" /\ saved' = saved /\ spawned' = spawned /\ saved.state = "running"
  BY DEF Observe, Granted
<1>2. CASE phase = "spawned" /\ verdict' = "passed"
  <2>1. Flight = "launched" /\ Flight' = "passed"
    BY <1>1, <1>2, FlightShown, FlightShownNext
  <2>. QED  BY <1>1, <2>1 DEF Flights, Approved!Next, Approved!Ends, Digest
<1>3. CASE phase = "spawned" /\ verdict' = "failed"
  <2>1. Flight = "launched" /\ Flight' = "launched"
    BY <1>1, <1>3, FlightShown, FlightShownNext
  <2>. QED  BY <1>1, <2>1 DEF Flights, Approved!planVars, Digest
<1>4. CASE verdict' = "error"
  <2>1. Flight \in {"entered", "launched"} /\ Flight' = "unknown"
    BY <1>1, <1>4, FlightShown, FlightShownNext
  <2>. QED  BY <1>1, <2>1 DEF Flights, Approved!Next, Approved!Lose, Digest
<1>. QED  BY <1>1, <1>2, <1>3, <1>4

LEMMA RecordRefines == IInv /\ NoneOpen /\ Record => Flights /\ NoneOpen'
<1>. SUFFICES ASSUME IInv, NoneOpen, Record PROVE Flights /\ NoneOpen'
  OBVIOUS
<1>. USE DEF IInv, TypeOK
<1>1. /\ phase = "ended" /\ phase' = "none" /\ verdict' = "none" /\ saved' = Recorded(saved)
      /\ spawned' = spawned /\ saved.state = "running"
      /\ verdict \in {"passed", "failed", "error"} /\ saved \in StateFile
  BY DEF Record, Save, Granted
<1>2. CASE verdict = "passed"
  <2>. DEFINE end == IF saved.completed + 1 = Len(saved.plan) THEN "completed" ELSE "approved"
  <2>1. saved' = [saved EXCEPT !.completed = @ + 1, !.state = end]
    BY <1>1, <1>2 DEF Recorded
  <2>2. /\ saved'.revision = saved.revision /\ saved'.plan = saved.plan
        /\ saved'.completed = saved.completed + 1 /\ saved'.approved = saved.approved
        /\ saved'.confirmed = saved.confirmed /\ saved'.state # "running"
    BY <1>1, <2>1 DEF StateFile
  <2>3. Flight = "passed" /\ Flight' = "none"
    BY <1>1, <1>2, <2>2, FlightShown, FlightShownNext
  <2>. QED
    BY <1>1, <2>2, <2>3 DEF Flights, Approved!Next, Approved!Complete, Digest, NoneOpen
<1>3. CASE verdict = "failed"
  <2>1. saved' = [saved EXCEPT !.state = "failed"]
    BY <1>1, <1>3 DEF Recorded
  <2>2. /\ saved'.revision = saved.revision /\ saved'.plan = saved.plan
        /\ saved'.completed = saved.completed /\ saved'.approved = saved.approved
        /\ saved'.confirmed = saved.confirmed /\ saved'.state = "failed"
    BY <1>1, <2>1 DEF StateFile
  <2>3. Flight = "launched" /\ Flight' = "none"
    BY <1>1, <1>3, <2>2, FlightShown, FlightShownNext
  <2>. QED
    BY <1>1, <2>2, <2>3 DEF Flights, Approved!Next, Approved!Ends, Digest, NoneOpen
<1>4. CASE verdict = "error"
  <2>1. saved' = [saved EXCEPT !.approved = FALSE]
    BY <1>1, <1>4 DEF Recorded
  <2>2. /\ saved'.revision = saved.revision /\ saved'.plan = saved.plan
        /\ saved'.completed = saved.completed /\ saved'.approved = FALSE
        /\ saved'.confirmed = saved.confirmed /\ saved'.state = "running"
    BY <1>1, <2>1 DEF StateFile
  <2>3. Flight = "unknown" /\ Flight' = "unknown"
    BY <1>1, <1>4, <2>2, FlightShown, FlightShownNext
  <2>. QED
    BY <1>1, <2>2, <2>3 DEF Flights, Approved!Next, Approved!Settle, Digest, NoneOpen
<1>. QED  BY <1>1, <1>2, <1>3, <1>4

(***************************************************************************)
(* Who executes dies: whatever was known of the step is lost.              *)
(***************************************************************************)
LEMMA CrashRefines == IInv /\ Crash => Flights
<1>. SUFFICES ASSUME IInv, Crash PROVE Flights
  OBVIOUS
<1>. USE DEF IInv, TypeOK
<1>1. /\ phase # "none" /\ phase' = "none" /\ verdict' = "none" /\ saved' = saved
      /\ spawned' = spawned /\ saved.state = "running"
  BY DEF Crash, Granted
<1>2. Flight \in {"entered", "launched", "passed", "unknown"} /\ Flight' = "unknown"
  BY <1>1, FlightShown, FlightShownNext DEF Granted
<1>. QED
  BY <1>1, <1>2 DEF Flights, Approved!Next, Approved!Lose, Approved!planVars, Digest

LEMMA QuietRefines == EndsAlone \/ UNCHANGED vars => UNCHANGED Approved!planVars
<1>. SUFFICES ASSUME EndsAlone \/ UNCHANGED vars PROVE UNCHANGED Approved!planVars
  OBVIOUS
<1>1. saved' = saved /\ phase' = phase /\ verdict' = verdict /\ spawned' = spawned
  BY DEF EndsAlone, vars
<1>. QED  BY <1>1 DEF Approved!planVars, Flight, Digest

LEMMA InitRefines == Init => Approved!Init /\ NoneOpen
<1>. SUFFICES ASSUME Init PROVE Approved!Init /\ NoneOpen
  OBVIOUS
<1>. PICK plan \in Plans, deploys \in BOOLEAN : saved = Draft(plan, 1, deploys)
  BY DEF Init
<1>1. Digest(saved) = <<1, plan>> /\ Flight = "none"
  BY FlightShown DEF Digest, Draft
<1>. QED  BY <1>1 DEF Approved!Init, NoneOpen, Init, Draft

LEMMA StepRefines == IInv /\ NoneOpen /\ [Next]_vars => Flights /\ NoneOpen'
<1>. SUFFICES ASSUME IInv, NoneOpen, [Next]_vars PROVE Flights /\ NoneOpen'
  OBVIOUS
<1>1. ASSUME NEW plan \in Plans, Revise(plan) PROVE Flights /\ NoneOpen'
  BY <1>1, ReviseRefines DEF Flights, Approved!Next
<1>2. ASSUME NEW d, NEW ok, Begin(d, ok) PROVE Flights /\ NoneOpen'
  BY <1>2, BeginRefines DEF Flights, Approved!Next
<1>3. ASSUME Spawn \/ Observe \/ Crash \/ EndsAlone \/ UNCHANGED vars PROVE Flights /\ NoneOpen'
  <2>1. saved' = saved
    BY <1>3 DEF Spawn, Observe, Crash, EndsAlone, vars
  <2>2. Flights
    BY <1>3, SpawnRefines, ObserveRefines, CrashRefines, QuietRefines DEF Flights, Approved!Next
  <2>. QED  BY <2>1, <2>2 DEF NoneOpen
<1>. QED
  BY <1>1, <1>2, <1>3, GrantsRefine, RecordRefines DEF Next, Execute

(***************************************************************************)
(* The commands of workflow.rs, killed anywhere, let whoever approved the  *)
(* plan see what ApprovedPlan says: its steps in order, at most once but   *)
(* for those that are safe to retry, and nothing after one whose outcome   *)
(* is unknown until that is settled and the plan approved again.           *)
(***************************************************************************)
THEOREM WorkflowImplementsApproved == Spec => ImplementsApproved
<1>1. IInv /\ NoneOpen /\ [Next]_vars => [Approved!Next]_Approved!planVars
  BY StepRefines DEF Flights
<1>. QED
  BY <1>1, InitRefines, StepRefines, InductiveInvariant, PTL
     DEF Spec, ImplementsApproved, Approved!Spec

(***************************************************************************)
(* A command is only started for a step of a plan that is approved at that *)
(* moment, has no open question, and whose earlier steps passed.           *)
(***************************************************************************)
StartsApproved ==
  spawned' # spawned =>
    /\ saved.approved /\ saved.plan \notin Open
    /\ saved.completed < Len(saved.plan)
    /\ \A i \in 1 .. saved.completed : [digest |-> Digest(saved), index |-> i] \in passed

(***************************************************************************)
(* execute starts nothing else: what an approval covers is decided when    *)
(* the step is entered, and stays so until its command is started.         *)
(***************************************************************************)
THEOREM NothingStartsUnapproved == Spec => [][StartsApproved]_spawned
<1>1. ASSUME IInv, NoneOpen, [Next]_vars PROVE StartsApproved
  <2>1. CASE Spawn
    <3>1. phase = "saved"
      BY <2>1 DEF Spawn
    <3>2. saved.approved /\ saved.confirmed /\ saved.completed < Len(saved.plan)
      BY <3>1, <1>1 DEF IInv, Granted
    <3>. QED  BY <3>2, <1>1 DEF StartsApproved, NoneOpen, IInv, Completed
  <2>2. CASE UNCHANGED spawned
    BY <2>2 DEF StartsApproved
  <2>3. ASSUME (\E plan \in Plans : Revise(plan)) \/ Evidence
               \/ \E d \in issued : Confirm(d) \/ Approve(d) \/ Reconcile(d)
        PROVE  UNCHANGED spawned
    BY <2>3 DEF Revise, Evidence, Confirm, Approve, Reconcile, Idle
  <2>4. ASSUME (\E d \in issued, ok \in BOOLEAN : Begin(d, ok)) \/ Observe \/ Record
               \/ Crash \/ EndsAlone \/ UNCHANGED vars
        PROVE  UNCHANGED spawned
    BY <2>4 DEF Begin, Observe, Record, Crash, EndsAlone, vars
  <2>. QED  BY <1>1, <2>1, <2>2, <2>3, <2>4 DEF Next, Execute
<1>2. IInv /\ NoneOpen /\ [Next]_vars => [StartsApproved]_spawned
  BY <1>1
<1>. QED  BY <1>2, InitRefines, StepRefines, InductiveInvariant, PTL DEF Spec
=============================================================================
