------------------------- MODULE HarnessTaskProofs -------------------------
(***************************************************************************)
(* Proofs about coding tasks, for any number of tasks, supervisors and     *)
(* inspectors.                                                             *)
(*                                                                         *)
(* The invariant says what a place in execute means for the locks, the     *)
(* record in memory and the command of the task (Good).  Between the two   *)
(* writes of a record a supervisor has two such places: where it goes if   *)
(* status.json is replaced, and where it falls back to if that fails       *)
(* (Written).  TaskOK says what the records of a task say of what was ever *)
(* started, and InspectorOK what an inspector has seen.                    *)
(***************************************************************************)
EXTENDS HarnessTask, TLAPS

(* Where a supervisor is when its record is published.                     *)
Stage(s) == IF sup[s].pc = "publish" THEN sup[s].then ELSE sup[s].pc

AtRest == {"idle", "read", "exit"}

Works(s) == sup[s].pc \notin AtRest

Early  == {"cancel_check", "lock_repository", "baseline"}
Polled == {"spawned", "drop_child", "poll_cancel", "poll_exit"}
Runs   == {"spawn", "exited"} \cup Polled
Late   == {"collecting", "collect", "finish"}

EarlyCancel(t) == cancelFile[t] \in {"queued", "worker"}

(* The verification is on record, and no cancellation came before that.    *)
Settled(p) ==
  /\ p.mem.phase \notin {"queued", "worker"} /\ status[p.task].phase \notin {"queued", "worker"}
  /\ ~EarlyCancel(p.task)

Holds(s, p, step) ==
  /\ step \in {"start_verification", "exit"} \cup Early \cup Runs \cup Late
  /\ step \notin {"cancel_check", "lock_repository", "exit"} => repoLock = s
  /\ IF step \in Polled THEN group[p.task] = "running" ELSE group[p.task] \in {"none", "gone"}

(* What was started, and what is known of it.                              *)
Commands(p, step) ==
  LET m == p.mem
      n == launches[p.task]
  IN  /\ step \in Early => m = Queued /\ n = [worker |-> 0, verification |-> 0]
      /\ step \in {"start_verification"} \cup Runs \cup Late => m.state = "running"
      /\ step \in Runs =>
           /\ m.phase \in {"worker", "verification"} /\ m.verification = "none"
           /\ m.worker = IF m.phase = "worker" THEN "none" ELSE "passed"
           /\ n = [worker |-> IF m.phase = "worker" /\ step = "spawn" THEN 0 ELSE 1,
                   verification |-> IF m.phase = "verification" /\ step # "spawn" THEN 1 ELSE 0]
      /\ step = "start_verification" =>
           /\ m.phase = "worker" /\ m.worker = "passed" /\ m.verification = "none"
           /\ n = [worker |-> 1, verification |-> 0]
      /\ step \in Late => m.phase # "completed"

(* What may become a success has a verification that passed, and its       *)
(* cancellation was looked for after the verification was on record.       *)
Verified(p, step, verdict) ==
  /\ step \in Late => verdict # "none"
  /\ step = "drop_child" => verdict = "failed"
  /\ step \in Late /\ verdict = "succeeded" =>
       p.mem.worker = "passed" /\ p.mem.verification = "passed" /\ Settled(p)
  /\ step = "poll_exit" /\ p.mem.phase = "verification" => Settled(p)
  /\ step = "exited" /\ p.mem.phase = "verification" /\ p.result = "passed" => Settled(p)

Good(s, p, step, verdict) ==
  Holds(s, p, step) /\ Commands(p, step) /\ Verified(p, step, verdict)

(* A record m that may be published after d.                               *)
Order == [queued |-> 0, worker |-> 1, verification |-> 2, artifacts |-> 3, completed |-> 4]

Follows(d, m) ==
  /\ d.state \in {"queued", "running"} /\ d.seq <= m.seq
  /\ Order[d.phase] <= Order[m.phase]
  /\ d.worker # "none" => m.worker = d.worker
  /\ d.verification # "none" => m.verification = d.verification

(* Where a record leads to, and where its error does.                      *)
Rescue(then, fallback) ==
  \/ fallback \in {then, "exit"}
  \/ fallback = "drop_child" /\ then = "poll_cancel"
  \/ fallback = "collecting" /\ then \in {"spawn", "start_verification"}

Written(s, p) ==
  LET m == p.mem IN
  /\ m.seq > status[p.task].seq /\ lastEvent[p.task] = Event(m)
  /\ m.state \in {"running"} \cup Terminal
  /\ m.state \in Terminal => m.phase = "completed" /\ p.then = "exit"
  /\ m.state = "succeeded" => m.worker = "passed" /\ m.verification = "passed" /\ Settled(p)
  /\ p.then \notin Early /\ p.fallback \notin {"spawn"} \cup Early /\ Rescue(p.then, p.fallback)
  /\ Good(s, p, p.then, p.verdict) /\ Good(s, p, p.fallback, "failed")

Fits(s, p) ==
  /\ p.pc # "idle" =>
       /\ p.task \in Tasks /\ ownerLock[p.task] = s
       /\ status[p.task] # Absent /\ submission[p.task] = "over"
  /\ p.pc \notin AtRest => Follows(status[p.task], p.mem)
  /\ p.pc = "publish" => Written(s, p)
  /\ p.pc \notin AtRest \cup {"publish"} =>
       /\ Good(s, p, p.pc, p.verdict)
       /\ p.pc \in {"spawn"} \cup Early => status[p.task] = p.mem

SupervisorOK(s) == Fits(s, sup[s])

TaskOK(t) ==
  /\ status[t].state = "queued" => status[t] = Queued
  /\ status[t].state \in {"absent", "queued"} =>
       group[t] = "none" /\ launches[t] = [worker |-> 0, verification |-> 0]
  /\ status[t].state = "succeeded" =>
       /\ status[t].worker = "passed" /\ status[t].verification = "passed"
       /\ ~EarlyCancel(t)
  /\ status[t].state \in Terminal => status[t].phase = "completed" /\ group[t] \in {"none", "gone"}
  /\ launches[t].verification <= launches[t].worker /\ launches[t].worker <= 1
  /\ launches[t].verification # 0 => status[t].phase \notin {"queued", "worker"}
  /\ \/ lastEvent[t] = Event(status[t])
     \/ lastEvent[t].seq > status[t].seq /\ status[t].state \notin Terminal
  /\ group[t] = "running" => \E s \in Supervisors : TaskOf(s) = t /\ Works(s) /\ Stage(s) \in Polled
  /\ submission[t] \in {"new", "queued"} => status[t] = Absent
  /\ submission[t] \in {"spawn", "refused", "failed"} => status[t] = Queued
  /\ submission[t] = "queued" => lastEvent[t] = Event(Queued)
  /\ submission[t] = "failed" => lastEvent[t] = Event(Refused)

InspectorOK(i) ==
  LET t == ins[i].task IN
  /\ ins[i].pc # "idle" => t \in Tasks
  /\ ins[i].pc = "release" => ownerLock[t] = i
  /\ ins[i].seen = "running" => t \in Tasks /\ status[t].state \notin {"absent", "queued"}
  /\ ins[i].view = "interrupted" /\ ins[i].seen = "running" => ~Executing(t)

IInv ==
  /\ TypeOK
  /\ \A s \in Supervisors : SupervisorOK(s)
  /\ \A t \in Tasks : TaskOK(t)
  /\ \A i \in Inspectors : InspectorOK(i)

-----------------------------------------------------------------------------
LEMMA Initially == Init => IInv
<1>. SUFFICES ASSUME Init PROVE IInv
  OBVIOUS
<1>1. TypeOK
  BY TaskAssumption DEF Init, TypeOK, Absent, IdleSupervisor, IdleInspector,
       SupervisorStep, State, Terminal, Result, Phase
<1>2. ASSUME NEW s \in Supervisors PROVE SupervisorOK(s)
  BY DEF Init, IdleSupervisor, SupervisorOK, Fits, AtRest
<1>3. ASSUME NEW t \in Tasks PROVE TaskOK(t)
  BY DEF Init, TaskOK, Absent, Terminal, Event
<1>4. ASSUME NEW i \in Inspectors PROVE InspectorOK(i)
  BY DEF Init, InspectorOK, IdleInspector
<1>. QED  BY <1>1, <1>2, <1>3, <1>4 DEF IInv

Supervisor ==
  [pc : SupervisorStep, task : Tasks \cup {Nobody}, mem : Snapshot \cup {Absent},
   then : SupervisorStep, fallback : SupervisorStep, result : Result,
   verdict : Terminal \cup {"none"}, interrupted : BOOLEAN, outputs : 0 .. MaxOutputs]

SupervisorsTyped == [Supervisors -> Supervisor]

LEMMA SupervisorTyped ==
  ASSUME IInv, NEW s \in Supervisors
  PROVE  sup \in SupervisorsTyped /\ sup[s] \in Supervisor /\ TypeOK /\ SupervisorOK(s)
BY DEF IInv, TypeOK, Supervisor, SupervisorsTyped

(***************************************************************************)
(* What is fit at a place remains so if the records and the command of the *)
(* task do not change, and no cancellation comes before the verification.  *)
(***************************************************************************)
LEMMA GoodStays ==
  ASSUME NEW s, NEW p, NEW step, NEW verdict, Good(s, p, step, verdict),
         group'[p.task] = group[p.task], launches'[p.task] = launches[p.task],
         repoLock = s => repoLock' = s, Settled(p) => Settled(p)'
  PROVE  Good(s, p, step, verdict)'
<1>1. Holds(s, p, step)'
  BY DEF Good, Holds
<1>2. Commands(p, step)'
  BY DEF Good, Commands
<1>3. Verified(p, step, verdict)'
  BY DEF Good, Verified
<1>. QED  BY <1>1, <1>2, <1>3 DEF Good

LEMMA FitsStays ==
  ASSUME NEW s, NEW p, Fits(s, p),
         p.pc # "idle" =>
           /\ status'[p.task] = status[p.task] /\ lastEvent'[p.task] = lastEvent[p.task]
           /\ group'[p.task] = group[p.task] /\ launches'[p.task] = launches[p.task]
           /\ ownerLock'[p.task] = ownerLock[p.task] /\ submission'[p.task] = submission[p.task]
           /\ EarlyCancel(p.task)' =>
                EarlyCancel(p.task) \/ status[p.task].phase \in {"queued", "worker"},
         repoLock = s => repoLock' = s
  PROVE  Fits(s, p)'
<1>1. CASE p.pc = "idle"
  BY <1>1 DEF Fits, AtRest
<1>2. CASE p.pc # "idle"
  <2>1. Settled(p) => Settled(p)'
    BY <1>2 DEF Settled
  <2>2. ASSUME NEW step, NEW verdict, Good(s, p, step, verdict) PROVE Good(s, p, step, verdict)'
    BY <1>2, <2>1, <2>2, GoodStays
  <2>3. p.pc = "publish" => Written(s, p)'
    BY <1>2, <2>1, <2>2 DEF Fits, Written
  <2>. QED  BY <1>2, <2>2, <2>3 DEF Fits
<1>. QED  BY <1>1, <1>2

(***************************************************************************)
(* A supervisor that is at work, in the words the steps are proved from.   *)
(***************************************************************************)
LEMMA TypedSupervisor ==
  ASSUME IInv, NEW s \in Supervisors, sup[s].pc # "idle"
  PROVE  /\ TaskOf(s) \in Tasks /\ TaskOf(s) = sup[s].task
         /\ status[TaskOf(s)] \in Snapshot /\ TaskOK(TaskOf(s))
         /\ ownerLock[TaskOf(s)] = s /\ submission[TaskOf(s)] = "over"
         /\ status[TaskOf(s)] # Absent
         /\ Works(s) => sup[s].mem \in Snapshot
<1>1. Fits(s, sup[s]) /\ TypeOK /\ sup[s] \in Supervisor
  BY SupervisorTyped DEF SupervisorOK
<1>2. /\ TaskOf(s) \in Tasks /\ TaskOf(s) = sup[s].task /\ status[TaskOf(s)] \in Snapshot
      /\ ownerLock[TaskOf(s)] = s /\ submission[TaskOf(s)] = "over"
      /\ status[TaskOf(s)] # Absent
  BY <1>1 DEF Fits, TypeOK, TaskOf
<1>3. ASSUME Works(s) PROVE sup[s].mem \in Snapshot
  <2>1. sup[s].mem.state # "absent"
    <3>1. CASE sup[s].pc = "publish"
      BY <1>1, <3>1 DEF Fits, Written, Terminal
    <3>2. CASE sup[s].pc # "publish"
      <4>1. Commands(sup[s], sup[s].pc) /\ Holds(s, sup[s], sup[s].pc) /\ sup[s].pc # "exit"
        BY <1>1, <1>3, <3>2 DEF Fits, Good, Works, AtRest
      <4>. QED  BY <4>1 DEF Commands, Holds, Queued, Absent
    <3>. QED  BY <3>1, <3>2
  <2>. QED  BY <1>1, <2>1 DEF Supervisor, Absent
<1>. QED  BY <1>2, <1>3 DEF IInv

LEMMA AtWork ==
  ASSUME IInv, NEW s \in Supervisors, Works(s), sup[s].pc # "publish"
  PROVE  /\ sup[s].pc # "idle" /\ Stage(s) = sup[s].pc
         /\ sup[s].pc \in {"start_verification"} \cup Early \cup Runs \cup Late
         /\ Holds(s, sup[s], sup[s].pc) /\ Commands(sup[s], sup[s].pc)
         /\ Verified(sup[s], sup[s].pc, sup[s].verdict)
         /\ Follows(status[TaskOf(s)], sup[s].mem)
         /\ sup[s].pc \in {"spawn"} \cup Early => status[TaskOf(s)] = sup[s].mem
         /\ sup[s].mem \in Snapshot /\ sup[s].mem.state \in {"queued", "running"}
<1>1. Fits(s, sup[s]) /\ sup[s].pc \notin AtRest /\ TaskOf(s) = sup[s].task
  BY DEF IInv, SupervisorOK, Works, TaskOf
<1>2. /\ Good(s, sup[s], sup[s].pc, sup[s].verdict) /\ Follows(status[TaskOf(s)], sup[s].mem)
      /\ sup[s].pc \in {"spawn"} \cup Early => status[TaskOf(s)] = sup[s].mem
  BY <1>1 DEF Fits
<1>3. /\ Holds(s, sup[s], sup[s].pc) /\ Commands(sup[s], sup[s].pc)
      /\ Verified(sup[s], sup[s].pc, sup[s].verdict)
  BY <1>2 DEF Good
<1>4. sup[s].pc \in {"start_verification"} \cup Early \cup Runs \cup Late
  BY <1>1, <1>3 DEF Holds, AtRest
<1>5. sup[s].mem \in Snapshot /\ sup[s].pc # "idle"
  BY <1>1, TypedSupervisor DEF AtRest
<1>6. sup[s].mem.state \in {"queued", "running"}
  BY <1>3, <1>4 DEF Commands, Queued, Absent
<1>. QED  BY <1>2, <1>3, <1>4, <1>5, <1>6 DEF Stage

(***************************************************************************)
(* A step of one supervisor disturbs nobody else: the others have other    *)
(* tasks, and do not hold the repository if it takes it.                   *)
(***************************************************************************)
LEMMA SupervisorFrame ==
  ASSUME IInv, TypeOK', NEW s \in Supervisors, NEW t \in Tasks,
         sup[s].pc # "idle", t = TaskOf(s), sup'[s].task = t,
         \A r \in Supervisors \ {s} : sup'[r] = sup[r],
         \A u \in Tasks \ {t} :
           status'[u] = status[u] /\ lastEvent'[u] = lastEvent[u]
           /\ group'[u] = group[u] /\ launches'[u] = launches[u],
         UNCHANGED <<cancelFile, ins, ownerLock, submission>>,
         repoLock' = repoLock \/ repoLock = Nobody,
         SupervisorOK(s)', TaskOK(t)',
         status[t].state \notin {"absent", "queued"} =>
           status'[t].state \notin {"absent", "queued"},
         Works(s)' => Works(s) \/ status[t].state = "queued"
  PROVE  IInv'
<1>1. ASSUME NEW r \in Supervisors, r # s PROVE SupervisorOK(r)'
  <2>. PICK p \in Supervisor : p = sup[r]
    BY SupervisorTyped
  <2>1. Fits(r, p) /\ sup'[r] = p /\ r # Nobody /\ (repoLock = r => repoLock' = r)
    BY <1>1, TaskAssumption DEF IInv, SupervisorOK
  <2>2. p.pc # "idle" => p.task \in Tasks /\ p.task # t
    BY <1>1, TypedSupervisor DEF IInv, SupervisorOK, Fits
  <2>3. \A u \in Tasks : EarlyCancel(u)' = EarlyCancel(u)
    BY DEF EarlyCancel
  <2>4. Fits(r, p)'
    BY <2>1, <2>2, <2>3, FitsStays
  <2>. QED  BY <2>1, <2>4 DEF SupervisorOK
<1>2. ASSUME NEW u \in Tasks, u # t PROVE TaskOK(u)'
  <2>1. TaskOK(u) /\ EarlyCancel(u)' = EarlyCancel(u)
    BY DEF IInv, EarlyCancel
  <2>2. group[u] = "running" =>
          \E r \in Supervisors : (TaskOf(r) = u /\ Works(r) /\ Stage(r) \in Polled)'
    <3>. SUFFICES ASSUME group[u] = "running"
                  PROVE \E r \in Supervisors : (TaskOf(r) = u /\ Works(r) /\ Stage(r) \in Polled)'
      OBVIOUS
    <3>. PICK r \in Supervisors : TaskOf(r) = u /\ Works(r) /\ Stage(r) \in Polled
      BY <2>1 DEF TaskOK
    <3>1. r # s /\ sup'[r] = sup[r]
      BY <1>2
    <3>. QED  BY <3>1 DEF TaskOf, Works, Stage
  <2>. QED  BY <1>2, <2>1, <2>2 DEF TaskOK
<1>3. ASSUME NEW i \in Inspectors PROVE InspectorOK(i)'
  <2>1. InspectorOK(i)
    BY DEF IInv
  <2>2. ins'[i] = ins[i]
    OBVIOUS
  <2>3. ASSUME ins[i].seen = "running", ins[i].view = "interrupted" PROVE ~Executing(ins[i].task)'
    <3>1. /\ ins[i].task \in Tasks /\ status[ins[i].task].state \notin {"absent", "queued"}
          /\ ~Executing(ins[i].task)
      BY <2>1, <2>3 DEF InspectorOK
    <3>2. ASSUME NEW r \in Supervisors, Works(r)', TaskOf(r)' = ins[i].task PROVE FALSE
      <4>1. CASE r = s
        BY <3>1, <3>2, <4>1 DEF Executing, Works, AtRest, TaskOf
      <4>2. CASE r # s
        BY <3>1, <3>2, <4>2 DEF Executing, Works, AtRest, TaskOf
      <4>. QED  BY <4>1, <4>2
    <3>. QED  BY <3>2, <2>2 DEF Executing, Works, AtRest, TaskOf
  <2>. QED  BY <2>1, <2>2, <2>3 DEF InspectorOK
<1>. QED  BY <1>1, <1>2, <1>3 DEF IInv

(***************************************************************************)
(* The next state of a supervisor.                                         *)
(***************************************************************************)
LEMMA Updated ==
  ASSUME IInv, NEW s \in Supervisors, NEW r \in Supervisor, sup' = [sup EXCEPT ![s] = r]
  PROVE  /\ sup' \in SupervisorsTyped /\ sup'[s] = r
         /\ \A q \in Supervisors \ {s} : sup'[q] = sup[q]
<1>1. sup \in SupervisorsTyped
  BY SupervisorTyped
<1>. QED  BY <1>1 DEF SupervisorsTyped

LEMMA Typed ==
  ASSUME TypeOK, sup' \in SupervisorsTyped, UNCHANGED <<status, cancelFile, ownerLock, submission, ins>>,
         lastEvent' \in [Tasks -> [seq : Nat, state : State \cup {"absent"}]],
         repoLock' \in Supervisors \cup {Nobody},
         group' \in [Tasks -> {"none", "running", "gone", "orphan"}],
         launches' \in [Tasks -> [worker : Nat, verification : Nat]]
  PROVE  TypeOK'
BY DEF TypeOK, Supervisor, SupervisorsTyped

(***************************************************************************)
(* A step of a supervisor at work that publishes nothing: what is left to  *)
(* show of it is that where it gets to is fit.                             *)
(***************************************************************************)
LEMMA Moving ==
  ASSUME IInv, NEW s \in Supervisors, Works(s), sup[s].pc # "publish",
         NEW t \in Tasks, t = TaskOf(s),
         NEW r \in Supervisor, sup' = [sup EXCEPT ![s] = r],
         r.task = t, r.pc \notin {"idle", "read"}, Fits(s, r)',
         r.pc = "exit" => group'[t] \in {"none", "gone"},
         repoLock' = repoLock \/ (repoLock = Nobody /\ repoLock' = s),
         group' \in [Tasks -> {"none", "running", "gone", "orphan"}],
         launches' \in [Tasks -> [worker : Nat, verification : Nat]],
         \A u \in Tasks \ {t} : group'[u] = group[u] /\ launches'[u] = launches[u],
         status[t].state = "queued" => group'[t] = group[t] /\ launches'[t] = launches[t],
         launches'[t].verification <= launches'[t].worker, launches'[t].worker <= 1,
         launches'[t].verification # 0 => status[t].phase \notin {"queued", "worker"},
         \/ lastEvent' = lastEvent
         \/ \E m \in Snapshot : lastEvent' = [lastEvent EXCEPT ![t] = Event(m)] /\ m.seq > status[t].seq,
         UNCHANGED <<status, cancelFile, ownerLock, submission, ins>>
  PROVE  IInv'
<1>1. /\ sup' \in SupervisorsTyped /\ sup'[s] = r /\ \A q \in Supervisors \ {s} : sup'[q] = sup[q]
  BY Updated
<1>2. /\ lastEvent' \in [Tasks -> [seq : Nat, state : State \cup {"absent"}]]
      /\ lastEvent'[t] = lastEvent[t] \/ lastEvent'[t].seq > status[t].seq
      /\ \A u \in Tasks \ {t} : lastEvent'[u] = lastEvent[u]
  <2>1. lastEvent \in [Tasks -> [seq : Nat, state : State \cup {"absent"}]]
    BY DEF IInv, TypeOK
  <2>2. ASSUME NEW m \in Snapshot, lastEvent' = [lastEvent EXCEPT ![t] = Event(m)],
               m.seq > status[t].seq
        PROVE  /\ lastEvent' \in [Tasks -> [seq : Nat, state : State \cup {"absent"}]]
               /\ lastEvent'[t].seq > status[t].seq
               /\ \A u \in Tasks \ {t} : lastEvent'[u] = lastEvent[u]
    <3>1. Event(m) \in [seq : Nat, state : State \cup {"absent"}] /\ Event(m).seq = m.seq
      BY DEF Event, Snapshot
    <3>. QED  BY <2>1, <2>2, <3>1
  <2>. QED  BY <2>1, <2>2
<1>3. TypeOK'
  BY <1>1, <1>2, Typed DEF IInv, TypeOK
<1>4. TaskOf(s)' = t /\ SupervisorOK(s)' /\ sup[s].pc # "idle"
  BY <1>1, AtWork DEF TaskOf, SupervisorOK
<1>5. TaskOK(t)'
  <2>1. TaskOK(t) /\ submission[t] = "over"
    BY <1>4, TypedSupervisor
  <2>2. status[t].state \in {"queued", "running"} /\ status'[t] = status[t]
    BY AtWork DEF Follows
  <2>3. group'[t] = "running" => Works(s)' /\ Stage(s)' \in Polled
    <3>1. CASE r.pc = "exit"
      BY <3>1
    <3>2. CASE r.pc # "exit"
      <4>1. IF (IF r.pc = "publish" THEN r.then ELSE r.pc) \in Polled
            THEN group'[r.task] = "running" ELSE group'[r.task] \in {"none", "gone"}
        <5>1. r.pc \notin AtRest
          BY <3>2 DEF AtRest
        <5>2. Holds(s, r, IF r.pc = "publish" THEN r.then ELSE r.pc)'
          BY <5>1 DEF Fits, Written, Good
        <5>. QED  BY <5>2 DEF Holds
      <4>. QED  BY <1>1, <3>2, <4>1 DEF Works, AtRest, Stage
    <3>. QED  BY <3>1, <3>2
  <2>4. /\ \/ lastEvent'[t] = Event(status[t])
           \/ lastEvent'[t].seq > status[t].seq /\ status[t].state \notin Terminal
    BY <1>2, <2>1, <2>2 DEF TaskOK, Terminal
  <2>. QED  BY <1>4, <2>1, <2>2, <2>3, <2>4 DEF TaskOK, Terminal
<1>6. \A u \in Tasks \ {t} :
         status'[u] = status[u] /\ lastEvent'[u] = lastEvent[u]
         /\ group'[u] = group[u] /\ launches'[u] = launches[u]
  BY <1>2
<1>7. sup'[s].task = t
  BY <1>1
<1>. QED  BY <1>1, <1>3, <1>4, <1>5, <1>6, <1>7, SupervisorFrame

(***************************************************************************)
(* What Record makes of a supervisor p.                                    *)
(***************************************************************************)
Recorded(p, r) ==
  /\ r.task = p.task /\ r.result = p.result /\ r.mem \in Snapshot
  /\ r.mem.seq = p.mem.seq + 1 /\ r.mem.state = p.mem.state /\ r.mem.phase = p.mem.phase
  /\ r.mem.worker = p.mem.worker /\ r.mem.verification = p.mem.verification

LEMMA Records ==
  ASSUME NEW s \in Supervisors, NEW p \in Supervisor, p.mem \in Snapshot,
         NEW next \in SupervisorStep, NEW fallback \in SupervisorStep,
         Record(s, p, next, fallback)
  PROVE  \E r \in Supervisor :
           /\ sup' = [sup EXCEPT ![s] = r] /\ Recorded(p, r)
           /\ \/ /\ r.pc = "publish" /\ r.then = next /\ r.fallback = fallback
                 /\ r.verdict = p.verdict
                 /\ lastEvent' = [lastEvent EXCEPT ![TaskOf(s)] = Event(r.mem)]
              \/ /\ r.pc = fallback /\ r.verdict = "failed"
                 /\ lastEvent' = lastEvent
<1>. DEFINE q == [p EXCEPT !.mem.seq = @ + 1]
            w == [q EXCEPT !.pc = "publish", !.then = next, !.fallback = fallback]
            f == [q EXCEPT !.pc = fallback, !.verdict = "failed"]
<1>1. /\ \/ sup' = [sup EXCEPT ![s] = w] /\ lastEvent' = [lastEvent EXCEPT ![TaskOf(s)] = Event(q.mem)]
         \/ sup' = [sup EXCEPT ![s] = f] /\ lastEvent' = lastEvent
  BY DEF Record
<1>2. /\ q \in Supervisor /\ Recorded(p, q) /\ q.verdict = p.verdict
  <2>. DEFINE m == [p.mem EXCEPT !.seq = @ + 1]
  <2>1. /\ m \in Snapshot /\ m.seq = p.mem.seq + 1 /\ m.state = p.mem.state /\ m.phase = p.mem.phase
        /\ m.worker = p.mem.worker /\ m.verification = p.mem.verification
    BY DEF Snapshot
  <2>2. q = [p EXCEPT !.mem = m]
    BY DEF Supervisor
  <2>. HIDE DEF m, q
  <2>3. q \in Supervisor /\ q.mem = m /\ q.task = p.task /\ q.result = p.result /\ q.verdict = p.verdict
    BY <2>1, <2>2 DEF Supervisor
  <2>. QED  BY <2>1, <2>3 DEF Recorded
<1>3. "publish" \in SupervisorStep /\ "failed" \in Terminal
  BY DEF SupervisorStep, Terminal
<1>. HIDE DEF q
<1>4. /\ w \in Supervisor /\ w.pc = "publish" /\ w.then = next /\ w.fallback = fallback
      /\ w.verdict = q.verdict /\ w.mem = q.mem /\ w.task = q.task /\ w.result = q.result
  BY <1>2, <1>3 DEF Supervisor
<1>5. /\ f \in Supervisor /\ f.pc = fallback /\ f.verdict = "failed"
      /\ f.mem = q.mem /\ f.task = q.task /\ f.result = q.result
  BY <1>2, <1>3 DEF Supervisor
<1>. HIDE DEF w, f
<1>. QED  BY <1>1, <1>2, <1>4, <1>5 DEF Recorded

LEMMA RecordStep ==
  ASSUME IInv, NEW s \in Supervisors, Works(s), sup[s].pc # "publish",
         NEW p \in Supervisor, p.task = sup[s].task, p.mem \in Snapshot,
         p.mem.seq = sup[s].mem.seq, p.mem.state \in {"running"} \cup Terminal,
         Follows(status[TaskOf(s)], p.mem),
         NEW next \in SupervisorStep \ Early, NEW fallback \in SupervisorStep \ Early,
         Rescue(next, fallback), Record(s, p, next, fallback),
         Good(s, p, next, p.verdict), Good(s, p, fallback, "failed"), fallback # "spawn",
         p.mem.state \in Terminal => p.mem.phase = "completed" /\ next = "exit",
         p.mem.state = "succeeded" =>
           p.mem.worker = "passed" /\ p.mem.verification = "passed" /\ Settled(p),
         UNCHANGED <<status, cancelFile, locks, groups, submission, ins>>
  PROVE  IInv'
<1>. PICK t \in Tasks : t = TaskOf(s)
  BY TypedSupervisor, AtWork
<1>. PICK r \in Supervisor :
           /\ sup' = [sup EXCEPT ![s] = r] /\ Recorded(p, r)
           /\ \/ /\ r.pc = "publish" /\ r.then = next /\ r.fallback = fallback
                 /\ r.verdict = p.verdict
                 /\ lastEvent' = [lastEvent EXCEPT ![TaskOf(s)] = Event(r.mem)]
              \/ /\ r.pc = fallback /\ r.verdict = "failed"
                 /\ lastEvent' = lastEvent
  BY Records
<1>1. /\ p.task = t /\ r.task = t /\ r.result = p.result /\ r.mem \in Snapshot
      /\ r.mem.seq = p.mem.seq + 1 /\ r.mem.state = p.mem.state /\ r.mem.phase = p.mem.phase
      /\ r.mem.worker = p.mem.worker /\ r.mem.verification = p.mem.verification
  BY DEF Recorded, TaskOf
<1>2. /\ ownerLock[t] = s /\ submission[t] = "over" /\ status[t] \in Snapshot /\ TaskOK(t)
      /\ status[t] # Absent
  <2>1. sup[s].pc # "idle"
    BY AtWork
  <2>2. TaskOK(t)
    BY DEF IInv
  <2>. QED  BY <2>1, <2>2, TypedSupervisor
<1>3. /\ status' = status /\ cancelFile' = cancelFile /\ ownerLock' = ownerLock
      /\ repoLock' = repoLock /\ group' = group /\ launches' = launches
      /\ submission' = submission /\ ins' = ins
  BY DEF locks, groups
<1>4. ASSUME NEW step \in SupervisorStep \ Early, NEW verdict, Good(s, p, step, verdict)
      PROVE  Good(s, r, step, verdict)'
  <2>1. Holds(s, r, step)'
    BY <1>1, <1>3, <1>4 DEF Good, Holds
  <2>2. Commands(r, step)'
    BY <1>1, <1>3, <1>4 DEF Good, Commands
  <2>3. Settled(p) => Settled(r)'
    BY <1>1, <1>3 DEF Settled, EarlyCancel
  <2>4. Verified(r, step, verdict)'
    BY <1>1, <1>4, <2>3 DEF Good, Verified
  <2>. QED  BY <2>1, <2>2, <2>4 DEF Good
<1>5. Good(s, r, next, p.verdict)' /\ Good(s, r, fallback, "failed")'
  BY <1>4
<1>6. Settled(p) => Settled(r)'
  BY <1>1, <1>3 DEF Settled, EarlyCancel
<1>7. /\ Follows(status[t], r.mem) /\ r.mem.seq > status[t].seq
      /\ Follows(status[t], r.mem)'
  <2>1. p.mem.seq \in Nat /\ status[t].seq \in Nat
    BY <1>2 DEF Snapshot
  <2>. QED  BY <1>1, <1>3, <2>1 DEF Follows
<1>8. r.pc \in {"publish", fallback} /\ r.pc \notin {"idle", "read"}
  <2>1. fallback \in {"start_verification", "exit"} \cup Early \cup Runs \cup Late
    BY DEF Good, Holds
  <2>2. fallback \notin {"idle", "read"}
    BY <2>1 DEF Early, Runs, Polled, Late
  <2>. QED  BY <2>2
<1>9. Fits(s, r)'
  <2>1. CASE r.pc = "publish"
    <3>1. r.then = next /\ r.fallback = fallback /\ r.verdict = p.verdict
          /\ lastEvent'[t] = Event(r.mem)
      BY <2>1 DEF Good, Holds, Early, Runs, Polled, Late, IInv, TypeOK
    <3>2. Written(s, r)'
      BY <1>1, <1>3, <1>5, <1>6, <1>7, <3>1 DEF Written
    <3>. QED  BY <1>1, <1>2, <1>3, <1>7, <2>1, <3>2 DEF Fits
  <2>2. CASE r.pc = fallback /\ r.verdict = "failed" /\ fallback # "publish"
    <3>1. r.pc \notin {"spawn"} \cup Early
      BY <2>2
    <3>. QED  BY <1>1, <1>2, <1>3, <1>5, <1>7, <2>2, <3>1 DEF Fits
  <2>3. fallback # "publish"
    BY DEF Good, Holds, Early, Runs, Polled, Late
  <2>. QED  BY <2>1, <2>2, <2>3
<1>10. r.pc = "exit" => group'[t] \in {"none", "gone"}
  BY <1>1, <1>3, <1>8, <1>9 DEF Good, Holds, Polled
<1>11. /\ \/ lastEvent' = lastEvent
          \/ \E m \in Snapshot : lastEvent' = [lastEvent EXCEPT ![t] = Event(m)] /\ m.seq > status[t].seq
  BY <1>1, <1>7
<1>12. /\ group' \in [Tasks -> {"none", "running", "gone", "orphan"}]
       /\ launches' \in [Tasks -> [worker : Nat, verification : Nat]]
       /\ launches'[t].verification <= launches'[t].worker /\ launches'[t].worker <= 1
       /\ launches'[t].verification # 0 => status[t].phase \notin {"queued", "worker"}
  BY <1>2, <1>3 DEF IInv, TypeOK, TaskOK
<1>. QED  BY <1>1, <1>3, <1>8, <1>9, <1>10, <1>11, <1>12, Moving

(***************************************************************************)
(* A step that records nothing: it changes where the supervisor is, what   *)
(* it thinks, and perhaps the repository's lock or the task's command.     *)
(***************************************************************************)
LEMMA PlaceStep ==
  ASSUME IInv, NEW s \in Supervisors, Works(s), sup[s].pc # "publish",
         NEW t \in Tasks, t = TaskOf(s),
         NEW r \in Supervisor, sup' = [sup EXCEPT ![s] = r],
         r.task = sup[s].task, r.mem = sup[s].mem,
         r.pc \notin {"idle", "read", "publish", "spawn"}, Good(s, r, r.pc, r.verdict)',
         r.pc \in Early => sup[s].pc \in Early,
         repoLock' = repoLock \/ (repoLock = Nobody /\ repoLock' = s),
         group' \in [Tasks -> {"none", "running", "gone", "orphan"}],
         launches' \in [Tasks -> [worker : Nat, verification : Nat]],
         \A u \in Tasks \ {t} : group'[u] = group[u] /\ launches'[u] = launches[u],
         status[t].state = "queued" => group'[t] = group[t] /\ launches'[t] = launches[t],
         launches'[t].verification <= launches'[t].worker, launches'[t].worker <= 1,
         launches'[t].verification # 0 => status[t].phase \notin {"queued", "worker"},
         UNCHANGED <<status, lastEvent, cancelFile, ownerLock, submission, ins>>
  PROVE  IInv'
<1>1. /\ ownerLock[t] = s /\ submission[t] = "over" /\ status[t] # Absent /\ r.task = t
  BY TypedSupervisor, AtWork DEF TaskOf
<1>2. /\ Follows(status[t], r.mem)'
      /\ r.pc \in {"spawn"} \cup Early => status'[t] = r.mem
  BY AtWork DEF Follows
<1>3. Fits(s, r)'
  BY <1>1, <1>2 DEF Fits
<1>4. r.pc = "exit" => group'[t] \in {"none", "gone"}
  BY <1>1 DEF Good, Holds, Polled
<1>. QED  BY <1>1, <1>3, <1>4, Moving

LEMMA SameCommands ==
  ASSUME IInv, NEW t \in Tasks, group' = group, launches' = launches
  PROVE  /\ group' \in [Tasks -> {"none", "running", "gone", "orphan"}]
         /\ launches' \in [Tasks -> [worker : Nat, verification : Nat]]
         /\ launches'[t].verification <= launches'[t].worker /\ launches'[t].worker <= 1
         /\ launches'[t].verification # 0 => status[t].phase \notin {"queued", "worker"}
BY DEF IInv, TypeOK, TaskOK

LEMMA MoveStep ==
  ASSUME IInv, NEW s \in Supervisors, Works(s), sup[s].pc # "publish",
         NEW r \in Supervisor, sup' = [sup EXCEPT ![s] = r],
         r.task = sup[s].task, r.mem = sup[s].mem,
         r.pc \notin {"idle", "read", "publish", "spawn"}, Good(s, r, r.pc, r.verdict),
         r.pc \in Early => sup[s].pc \in Early,
         UNCHANGED <<disk, locks, groups, submission, ins>>
  PROVE  IInv'
<1>. PICK t \in Tasks : t = TaskOf(s)
  BY TypedSupervisor, AtWork
<1>1. /\ status' = status /\ lastEvent' = lastEvent /\ cancelFile' = cancelFile
      /\ ownerLock' = ownerLock /\ repoLock' = repoLock /\ group' = group /\ launches' = launches
      /\ submission' = submission /\ ins' = ins
  BY DEF disk, locks, groups
<1>2. Good(s, r, r.pc, r.verdict)'
  <2>1. Settled(r) => Settled(r)'
    BY <1>1 DEF Settled, EarlyCancel
  <2>. QED  BY <1>1, <2>1, GoodStays
<1>. QED  BY <1>1, <1>2, SameCommands, PlaceStep

LEMMA GotoStep ==
  ASSUME IInv, NEW s \in Supervisors, Works(s), sup[s].pc # "publish",
         NEW next \in SupervisorStep \ {"idle", "read", "publish", "spawn"}, Goto(s, next),
         next \in Early => sup[s].pc \in Early,
         Holds(s, sup[s], next), Commands(sup[s], next), Verified(sup[s], next, sup[s].verdict),
         UNCHANGED <<disk, locks, groups, submission, ins>>
  PROVE  IInv'
<1>. DEFINE r == [sup[s] EXCEPT !.pc = next]
<1>1. /\ r \in Supervisor /\ r.pc = next /\ r.task = sup[s].task /\ r.mem = sup[s].mem
      /\ r.verdict = sup[s].verdict /\ r.result = sup[s].result
  BY SupervisorTyped DEF Supervisor
<1>2. sup' = [sup EXCEPT ![s] = r]
  BY SupervisorTyped DEF Goto, SupervisorsTyped
<1>. HIDE DEF r
<1>3. Good(s, r, r.pc, r.verdict)
  <2>1. Holds(s, r, next)
    BY <1>1 DEF Holds
  <2>2. Commands(r, next)
    BY <1>1 DEF Commands
  <2>3. Verified(r, next, sup[s].verdict)
    BY <1>1 DEF Verified, Settled
  <2>. QED  BY <1>1, <2>1, <2>2, <2>3 DEF Good
<1>. QED  BY <1>1, <1>2, <1>3, MoveStep

(***************************************************************************)
(* The steps of execute, one lemma each.                                   *)
(***************************************************************************)
LEMMA FinishStep ==
  ASSUME IInv, NEW s \in Supervisors, Works(s), sup[s].pc # "publish",
         NEW state \in Terminal, Finish(s, state), group[TaskOf(s)] \in {"none", "gone"},
         UNCHANGED <<status, cancelFile, locks, groups, submission, ins>>,
         state = "succeeded" =>
           /\ sup[s].mem.worker = "passed" /\ sup[s].mem.verification = "passed"
           /\ status[TaskOf(s)].phase \notin {"queued", "worker"} /\ ~EarlyCancel(TaskOf(s))
  PROVE  IInv'
<1>. DEFINE m == [sup[s].mem EXCEPT !.state = state, !.phase = "completed"]
            p == [sup[s] EXCEPT !.mem.state = state, !.mem.phase = "completed"]
<1>1. sup[s].mem \in Snapshot /\ Follows(status[TaskOf(s)], sup[s].mem) /\ sup[s] \in Supervisor
  BY AtWork, SupervisorTyped
<1>2. /\ m \in Snapshot /\ m.seq = sup[s].mem.seq /\ m.state = state /\ m.phase = "completed"
      /\ m.worker = sup[s].mem.worker /\ m.verification = sup[s].mem.verification
  BY <1>1 DEF Snapshot, State, Phase
<1>3. p = [sup[s] EXCEPT !.mem = m]
  BY <1>1 DEF Supervisor, Snapshot
<1>4. Record(s, p, "exit", "exit")
  BY DEF Finish
<1>. HIDE DEF m, p
<1>5. p \in Supervisor /\ p.mem = m /\ p.task = sup[s].task
  BY <1>1, <1>2, <1>3 DEF Supervisor
<1>6. Follows(status[TaskOf(s)], p.mem)
  <2>1. Order["completed"] = 4
    BY DEF Order
  <2>2. Order[status[TaskOf(s)].phase] <= 4
    <3>1. status[TaskOf(s)].phase \in Phase
      BY TypedSupervisor, AtWork DEF Snapshot
    <3>. QED  BY <3>1 DEF Order, Phase
  <2>. QED  BY <1>1, <1>2, <1>5, <2>1, <2>2 DEF Follows
<1>7. /\ "exit" \in SupervisorStep \ Early /\ "exit" \notin {"start_verification"} \cup Early \cup Runs \cup Late
      /\ "exit" \notin Polled
  BY DEF SupervisorStep, Early, Runs, Polled, Late
<1>8. ASSUME NEW verdict PROVE Good(s, p, "exit", verdict)
  <2>1. Holds(s, p, "exit")
    BY <1>5, <1>7 DEF Holds, TaskOf
  <2>. QED  BY <1>7, <2>1 DEF Good, Commands, Verified
<1>9. state = "succeeded" => Settled(p)
  BY <1>2, <1>5 DEF Settled, TaskOf
<1>10. Rescue("exit", "exit")
  BY DEF Rescue
<1>. QED  BY <1>2, <1>4, <1>5, <1>6, <1>7, <1>8, <1>9, <1>10, RecordStep

LEMMA ReadSnapshotStep ==
  ASSUME IInv, NEW s \in Supervisors, ReadSnapshot(s) PROVE IInv'
<1>. PICK t \in Tasks : t = TaskOf(s)
  BY TypedSupervisor DEF ReadSnapshot, At
<1>1. /\ sup[s].pc = "read" /\ UNCHANGED <<disk, locks, groups, submission, ins>> /\ ~Works(s)
      /\ TypeOK /\ sup[s] \in Supervisor /\ sup \in SupervisorsTyped /\ TaskOK(t)
  BY SupervisorTyped DEF ReadSnapshot, At, Works, AtRest, IInv
<1>2. /\ ownerLock[t] = s /\ submission[t] = "over" /\ status[t] # Absent /\ sup[s].task = t
      /\ status[t] \in Snapshot
  BY <1>1, TypedSupervisor DEF TaskOf
<1>3. /\ status' = status /\ lastEvent' = lastEvent /\ cancelFile' = cancelFile
      /\ ownerLock' = ownerLock /\ repoLock' = repoLock /\ group' = group /\ launches' = launches
      /\ submission' = submission /\ ins' = ins
  BY <1>1 DEF disk, locks, groups
<1>4. \E r \in Supervisor :
        /\ sup' = [sup EXCEPT ![s] = r] /\ r.task = t
        /\ \/ r.pc = "exit"
           \/ r.pc = "cancel_check" /\ r.mem = status[t] /\ status[t].state = "queued"
  <2>1. CASE MayExecute(s)
    <3>. DEFINE r == [sup[s] EXCEPT !.pc = "cancel_check", !.mem = status[t]]
    <3>1. sup' = [sup EXCEPT ![s].pc = "cancel_check", ![s].mem = status[t]]
          /\ status[t].state = "queued"
      BY <2>1 DEF ReadSnapshot, MayExecute
    <3>2. /\ r \in Supervisor /\ r.pc = "cancel_check" /\ r.task = t /\ r.mem = status[t]
      BY <1>1, <1>2 DEF Supervisor, SupervisorStep
    <3>3. sup' = [sup EXCEPT ![s] = r]
      BY <1>1, <3>1 DEF SupervisorsTyped
    <3>. HIDE DEF r
    <3>. QED  BY <3>1, <3>2, <3>3
  <2>2. CASE ~MayExecute(s)
    <3>. DEFINE r == [sup[s] EXCEPT !.pc = "exit"]
    <3>1. /\ r \in Supervisor /\ r.pc = "exit" /\ r.task = t
      BY <1>1, <1>2 DEF Supervisor, SupervisorStep
    <3>2. sup' = [sup EXCEPT ![s] = r]
      BY <1>1, <2>2 DEF ReadSnapshot, Goto, SupervisorsTyped
    <3>. HIDE DEF r
    <3>. QED  BY <3>1, <3>2
  <2>. QED  BY <2>1, <2>2
<1>. PICK r \in Supervisor :
        /\ sup' = [sup EXCEPT ![s] = r] /\ r.task = t
        /\ \/ r.pc = "exit"
           \/ r.pc = "cancel_check" /\ r.mem = status[t] /\ status[t].state = "queued"
  BY <1>4
<1>5. /\ sup' \in SupervisorsTyped /\ sup'[s] = r /\ \A q \in Supervisors \ {s} : sup'[q] = sup[q]
  BY Updated
<1>6. Fits(s, r)'
  <2>1. CASE r.pc = "exit"
    BY <1>2, <1>3, <2>1 DEF Fits, AtRest
  <2>2. CASE r.pc = "cancel_check" /\ r.mem = status[t] /\ status[t].state = "queued"
    <3>1. /\ status[t] = Queued /\ group[t] = "none"
          /\ launches[t] = [worker |-> 0, verification |-> 0]
      BY <1>1, <2>2 DEF TaskOK
    <3>2. Follows(status[t], r.mem)'
      BY <1>2, <1>3, <2>2 DEF Follows, Snapshot, Order, Phase
    <3>3. Good(s, r, "cancel_check", r.verdict)'
      BY <1>2, <1>3, <2>2, <3>1
      DEF Good, Holds, Commands, Verified, Early, Runs, Polled, Late
    <3>. QED  BY <1>2, <1>3, <2>2, <3>2, <3>3 DEF Fits, AtRest
  <2>. QED  BY <2>1, <2>2
<1>7. SupervisorOK(s)' /\ sup'[s].task = t
  BY <1>5, <1>6 DEF SupervisorOK
<1>8. TypeOK'
  BY <1>1, <1>3, <1>5, Typed DEF TypeOK
<1>9. TaskOK(t)'
  <2>1. ASSUME NEW q \in Supervisors, TaskOf(q) = t, Works(q), Stage(q) \in Polled
        PROVE  (TaskOf(q) = t /\ Works(q) /\ Stage(q) \in Polled)'
    <3>1. q # s
      BY <1>1, <2>1
    <3>. QED  BY <1>5, <2>1, <3>1 DEF TaskOf, Works, Stage
  <2>. QED  BY <1>1, <1>3, <2>1 DEF TaskOK, EarlyCancel
<1>10. Works(s)' => status[t].state = "queued"
  BY <1>5 DEF Works, AtRest
<1>. QED  BY <1>1, <1>3, <1>5, <1>7, <1>8, <1>9, <1>10, SupervisorFrame

LEMMA CancelCheckStep ==
  ASSUME IInv, NEW s \in Supervisors, CancelCheck(s) PROVE IInv'
<1>1. /\ sup[s].pc = "cancel_check" /\ Works(s)
      /\ UNCHANGED <<status, cancelFile, locks, groups, submission, ins>>
  BY DEF CancelCheck, At, Works, AtRest
<1>2. /\ Holds(s, sup[s], "cancel_check") /\ Commands(sup[s], "cancel_check")
  BY <1>1, AtWork
<1>3. CASE Finish(s, "cancelled")
  <2>1. group[TaskOf(s)] \in {"none", "gone"}
    BY <1>2 DEF Holds, Polled, TaskOf
  <2>. QED  BY <1>1, <1>3, <2>1, FinishStep DEF Terminal
<1>4. CASE Goto(s, "lock_repository") /\ UNCHANGED lastEvent
  <2>1. /\ "lock_repository" \in SupervisorStep \ {"idle", "read", "publish", "spawn"}
        /\ "lock_repository" \in Early /\ "cancel_check" \in Early
        /\ "lock_repository" \notin {"start_verification"} \cup Runs \cup Late
        /\ "lock_repository" \notin Polled /\ "cancel_check" \notin Polled
    BY DEF Early, SupervisorStep, Runs, Polled, Late
  <2>2. UNCHANGED <<disk, locks, groups, submission, ins>>
    BY <1>1, <1>4 DEF disk
  <2>3. Holds(s, sup[s], "lock_repository")
    BY <1>2, <2>1 DEF Holds
  <2>4. Commands(sup[s], "lock_repository") /\ Verified(sup[s], "lock_repository", sup[s].verdict)
    BY <1>2, <2>1 DEF Commands, Verified
  <2>. QED  BY <1>1, <1>4, <2>1, <2>2, <2>3, <2>4, GotoStep
<1>. QED  BY <1>3, <1>4 DEF CancelCheck

LEMMA LockRepositoryStep ==
  ASSUME IInv, NEW s \in Supervisors, LockRepository(s) PROVE IInv'
<1>1. /\ sup[s].pc = "lock_repository" /\ Works(s)
      /\ UNCHANGED <<status, cancelFile, ownerLock, groups, submission, ins>>
  BY DEF LockRepository, At, Works, AtRest
<1>2. /\ Holds(s, sup[s], "lock_repository") /\ Commands(sup[s], "lock_repository")
      /\ group[TaskOf(s)] \in {"none", "gone"}
  BY <1>1, AtWork DEF Holds, TaskOf, Polled
<1>3. CASE Finish(s, "blocked") /\ UNCHANGED repoLock
  BY <1>1, <1>2, <1>3, FinishStep DEF Terminal, locks
<1>4. CASE repoLock = Nobody /\ repoLock' = s /\ Goto(s, "baseline") /\ UNCHANGED lastEvent
  <2>. PICK t \in Tasks : t = TaskOf(s)
    BY <1>1, TypedSupervisor, AtWork
  <2>1. /\ [sup[s] EXCEPT !.pc = "baseline"] \in Supervisor
        /\ sup' = [sup EXCEPT ![s] = [sup[s] EXCEPT !.pc = "baseline"]]
    BY <1>4, SupervisorTyped DEF Goto, Supervisor, SupervisorStep, SupervisorsTyped
  <2>. PICK r \in Supervisor : r = [sup[s] EXCEPT !.pc = "baseline"]
    BY <2>1
  <2>2. sup' = [sup EXCEPT ![s] = r] /\ r.pc = "baseline" /\ r.task = t /\ r.mem = sup[s].mem
    BY <2>1, SupervisorTyped DEF Supervisor, TaskOf
  <2>3. /\ status' = status /\ lastEvent' = lastEvent /\ cancelFile' = cancelFile
        /\ ownerLock' = ownerLock /\ group' = group /\ launches' = launches
        /\ submission' = submission /\ ins' = ins
    BY <1>1, <1>4 DEF groups
  <2>4. /\ "baseline" \in Early /\ "lock_repository" \in Early /\ "baseline" \notin Polled
        /\ "baseline" \notin {"start_verification"} \cup Runs \cup Late
        /\ "baseline" \notin AtRest \cup {"publish"}
    BY DEF Early, Runs, Polled, Late, AtRest
  <2>5. Holds(s, r, "baseline")'
    BY <1>2, <1>4, <2>2, <2>3, <2>4 DEF Holds, TaskOf
  <2>6. Commands(r, "baseline")'
    BY <1>2, <2>2, <2>3, <2>4 DEF Commands, TaskOf
  <2>7. Verified(r, "baseline", r.verdict)'
    BY <2>4 DEF Verified, Runs, Late
  <2>8. Good(s, r, r.pc, r.verdict)'
    BY <2>2, <2>5, <2>6, <2>7 DEF Good
  <2>9. r.task = sup[s].task /\ r.pc \notin {"idle", "read", "publish", "spawn"}
    BY <2>2 DEF TaskOf
  <2>. QED  BY <1>1, <1>4, <2>2, <2>3, <2>4, <2>8, <2>9, SameCommands, PlaceStep
<1>. QED  BY <1>3, <1>4 DEF LockRepository


LEMMA ExitIsGood ==
  ASSUME NEW s, NEW p, NEW verdict, group[p.task] \in {"none", "gone"}
  PROVE  Good(s, p, "exit", verdict)
<1>1. "exit" \notin {"start_verification"} \cup Early \cup Runs \cup Late /\ "exit" \notin Polled
  BY DEF Early, Runs, Polled, Late
<1>2. Holds(s, p, "exit")
  BY <1>1 DEF Holds
<1>. QED  BY <1>1, <1>2 DEF Good, Commands, Verified

LEMMA BaselineStep ==
  ASSUME IInv, NEW s \in Supervisors, Baseline(s) PROVE IInv'
<1>1. /\ sup[s].pc = "baseline" /\ Works(s)
      /\ UNCHANGED <<status, cancelFile, locks, groups, submission, ins>>
  BY DEF Baseline, At, Works, AtRest
<1>2. /\ "baseline" \in Early /\ "baseline" \notin Polled
      /\ "spawn" \in Runs /\ "spawn" \notin Early \cup Polled \cup Late
      /\ {"spawn", "exit"} \subseteq SupervisorStep \ Early
      /\ "exit" \notin {"idle", "read", "publish", "spawn"} \cup Early
  BY DEF Early, Polled, Runs, Late, SupervisorStep
<1>3. /\ Holds(s, sup[s], "baseline") /\ Commands(sup[s], "baseline")
      /\ sup[s].mem = status[TaskOf(s)] /\ Follows(status[TaskOf(s)], sup[s].mem)
  BY <1>1, <1>2, AtWork
<1>4. /\ sup[s].mem = Queued /\ launches[sup[s].task] = [worker |-> 0, verification |-> 0]
      /\ group[sup[s].task] \in {"none", "gone"} /\ repoLock = s
  BY <1>2, <1>3 DEF Commands, Holds
<1>5. sup[s].mem \in Snapshot /\ sup[s] \in Supervisor
  BY <1>1, AtWork, SupervisorTyped
<1>6. CASE Record(s, [sup[s] EXCEPT !.mem.state = "running", !.mem.phase = "worker"], "spawn", "exit")
  <2>. DEFINE m == [sup[s].mem EXCEPT !.state = "running", !.phase = "worker"]
              p == [sup[s] EXCEPT !.mem.state = "running", !.mem.phase = "worker"]
  <2>1. /\ m \in Snapshot /\ m.seq = 1 /\ m.state = "running" /\ m.phase = "worker"
        /\ m.worker = "none" /\ m.verification = "none"
    BY <1>4, <1>5 DEF Snapshot, State, Phase, Queued, Absent
  <2>2. p = [sup[s] EXCEPT !.mem = m] /\ Record(s, p, "spawn", "exit")
    BY <1>5, <1>6 DEF Supervisor, Snapshot
  <2>. HIDE DEF m, p
  <2>3. p \in Supervisor /\ p.mem = m /\ p.task = sup[s].task
    BY <1>5, <2>1, <2>2 DEF Supervisor
  <2>4. Follows(status[TaskOf(s)], p.mem)
    BY <1>3, <1>4, <2>1, <2>3 DEF Follows, Order, Queued, Absent
  <2>5. Holds(s, p, "spawn")
    BY <1>2, <1>4, <2>3 DEF Holds
  <2>6. Commands(p, "spawn")
    BY <1>2, <1>4, <2>1, <2>3 DEF Commands
  <2>7. Verified(p, "spawn", p.verdict)
    BY <1>2 DEF Verified
  <2>8. Good(s, p, "spawn", p.verdict) /\ Good(s, p, "exit", "failed")
    BY <1>4, <2>3, <2>5, <2>6, <2>7, ExitIsGood DEF Good
  <2>9. Rescue("spawn", "exit") /\ p.mem.state \notin Terminal
    BY <2>1, <2>3 DEF Rescue, Terminal
  <2>10. p.mem.seq = sup[s].mem.seq
    BY <1>4, <2>1, <2>3 DEF Queued, Absent
  <2>. QED  BY <1>1, <1>2, <2>1, <2>2, <2>3, <2>4, <2>8, <2>9, <2>10, RecordStep DEF Terminal
<1>7. CASE Finish(s, "blocked")
  BY <1>1, <1>4, <1>7, FinishStep DEF Terminal, TaskOf
<1>8. CASE Goto(s, "exit") /\ UNCHANGED lastEvent
  <2>1. UNCHANGED <<disk, locks, groups, submission, ins>>
    BY <1>1, <1>8 DEF disk
  <2>2. Good(s, sup[s], "exit", sup[s].verdict)
    BY <1>4, ExitIsGood
  <2>. QED  BY <1>1, <1>2, <1>8, <2>1, <2>2, GotoStep DEF Good
<1>. QED  BY <1>6, <1>7, <1>8 DEF Baseline

LEMMA SpawnStep ==
  ASSUME IInv, NEW s \in Supervisors, Spawn(s) PROVE IInv'
<1>1. /\ sup[s].pc = "spawn" /\ Works(s)
      /\ UNCHANGED <<status, lastEvent, cancelFile, ownerLock, repoLock, submission, ins>>
  BY DEF Spawn, At, Works, AtRest, disk, locks
<1>2. /\ "spawn" \in Runs /\ {"spawn", "collecting"} \cap (Early \cup Polled) = {}
      /\ "spawned" \in Polled \cap Runs /\ "spawned" \notin Early \cup Late
      /\ "collecting" \in Late /\ "collecting" \notin Runs
      /\ {"spawned", "collecting"} \subseteq SupervisorStep \ {"idle", "read", "publish", "spawn"}
  BY DEF Early, Polled, Runs, Late, SupervisorStep
<1>3. /\ Holds(s, sup[s], "spawn") /\ Commands(sup[s], "spawn") /\ status[TaskOf(s)] = sup[s].mem
  BY <1>1, <1>2, AtWork
<1>4. sup[s].mem \in Snapshot /\ sup[s] \in Supervisor /\ sup \in SupervisorsTyped
  BY <1>1, AtWork, SupervisorTyped
<1>. PICK t \in Tasks : t = TaskOf(s)
  BY <1>1, TypedSupervisor, AtWork
<1>5. sup[s].task = t /\ repoLock = s /\ group[t] \in {"none", "gone"}
  BY <1>2, <1>3 DEF TaskOf, Holds
<1>. PICK m \in Snapshot : m = sup[s].mem
  BY <1>4
<1>6. /\ m.state = "running" /\ m.phase \in {"worker", "verification"} /\ m.verification = "none"
      /\ m.worker = IF m.phase = "worker" THEN "none" ELSE "passed"
      /\ launches[t] = [worker |-> IF m.phase = "worker" THEN 0 ELSE 1, verification |-> 0]
  BY <1>2, <1>3, <1>5 DEF Commands
<1>7. CASE /\ group' = [group EXCEPT ![t] = "running"]
           /\ launches' = [launches EXCEPT ![t][m.phase] = @ + 1]
           /\ sup' = [sup EXCEPT ![s].pc = "spawned", ![s].verdict = "none"]
  <2>1. /\ [sup[s] EXCEPT !.pc = "spawned", !.verdict = "none"] \in Supervisor
        /\ sup' = [sup EXCEPT ![s] = [sup[s] EXCEPT !.pc = "spawned", !.verdict = "none"]]
    BY <1>2, <1>4, <1>7 DEF Supervisor, SupervisorsTyped
  <2>. PICK r \in Supervisor : r = [sup[s] EXCEPT !.pc = "spawned", !.verdict = "none"]
    BY <2>1
  <2>2. /\ sup' = [sup EXCEPT ![s] = r] /\ r.pc = "spawned" /\ r.task = t /\ r.mem = m
        /\ r.verdict = "none"
    BY <1>4, <1>5, <2>1 DEF Supervisor
  <2>3. /\ group' \in [Tasks -> {"none", "running", "gone", "orphan"}] /\ group'[t] = "running"
        /\ \A u \in Tasks \ {t} : group'[u] = group[u]
    BY <1>7 DEF IInv, TypeOK
  <2>4. launches \in [Tasks -> [worker : Nat, verification : Nat]]
    BY DEF IInv, TypeOK
  <2>5. launches' = [launches EXCEPT ![t] =
                       [worker |-> 1, verification |-> IF m.phase = "worker" THEN 0 ELSE 1]]
    <3>1. CASE m.phase = "worker"
      <4>1. launches' = [launches EXCEPT ![t] = [launches[t] EXCEPT !.worker = @ + 1]]
        BY <1>7, <2>4, <3>1
      <4>2. [launches[t] EXCEPT !.worker = @ + 1] = [worker |-> 1, verification |-> 0]
        BY <1>6, <3>1
      <4>. QED  BY <3>1, <4>1, <4>2
    <3>2. CASE m.phase = "verification"
      <4>1. launches' = [launches EXCEPT ![t] = [launches[t] EXCEPT !.verification = @ + 1]]
        BY <1>7, <2>4, <3>2
      <4>2. [launches[t] EXCEPT !.verification = @ + 1] = [worker |-> 1, verification |-> 1]
        BY <1>6, <3>2
      <4>. QED  BY <3>2, <4>1, <4>2
    <3>. QED  BY <1>6, <3>1, <3>2
  <2>. PICK k \in Nat : k = IF m.phase = "worker" THEN 0 ELSE 1
    OBVIOUS
  <2>. PICK n \in [worker : Nat, verification : Nat] : n = [worker |-> 1, verification |-> k]
    OBVIOUS
  <2>6. /\ launches' \in [Tasks -> [worker : Nat, verification : Nat]] /\ launches'[t] = n
        /\ \A u \in Tasks \ {t} : launches'[u] = launches[u]
    BY <2>4, <2>5
  <2>7. Holds(s, r, "spawned")'
    BY <1>1, <1>2, <1>5, <2>2, <2>3 DEF Holds
  <2>8. Commands(r, "spawned")'
    <3>1. launches'[r.task] = [worker |-> IF r.mem.phase = "worker" /\ "spawned" = "spawn" THEN 0 ELSE 1,
                               verification |-> IF r.mem.phase = "verification" /\ "spawned" # "spawn"
                                                THEN 1 ELSE 0]
      <4>1. CASE m.phase = "worker"
        BY <2>2, <2>6, <4>1
      <4>2. CASE m.phase = "verification"
        BY <2>2, <2>6, <4>2
      <4>. QED  BY <1>6, <4>1, <4>2
    <3>. QED  BY <1>2, <1>6, <2>2, <3>1 DEF Commands
  <2>9. Verified(r, "spawned", r.verdict)'
    BY <1>2 DEF Verified
  <2>10. Good(s, r, r.pc, r.verdict)'
    BY <2>2, <2>7, <2>8, <2>9 DEF Good
  <2>11. /\ launches'[t].verification <= launches'[t].worker /\ launches'[t].worker <= 1
         /\ launches'[t].verification # 0 => status[t].phase \notin {"queued", "worker"}
    <3>1. n.verification <= n.worker /\ n.worker <= 1
      BY <1>6
    <3>2. n.verification # 0 => status[t].phase \notin {"queued", "worker"}
      BY <1>3, <1>6
    <3>. QED  BY <2>6, <3>1, <3>2
  <2>12. /\ r.task = sup[s].task /\ r.mem = sup[s].mem /\ status[t].state # "queued"
         /\ r.pc \notin {"idle", "read", "publish", "spawn"} \cup Early
    BY <1>2, <1>3, <1>5, <1>6, <2>2
  <2>. QED  BY <1>1, <2>2, <2>3, <2>6, <2>10, <2>11, <2>12, PlaceStep
<1>8. CASE sup' = [sup EXCEPT ![s].pc = "collecting", ![s].verdict = "failed"] /\ UNCHANGED groups
  <2>1. /\ [sup[s] EXCEPT !.pc = "collecting", !.verdict = "failed"] \in Supervisor
        /\ sup' = [sup EXCEPT ![s] = [sup[s] EXCEPT !.pc = "collecting", !.verdict = "failed"]]
    BY <1>2, <1>4, <1>8 DEF Supervisor, SupervisorsTyped, Terminal
  <2>. PICK r \in Supervisor : r = [sup[s] EXCEPT !.pc = "collecting", !.verdict = "failed"]
    BY <2>1
  <2>2. /\ sup' = [sup EXCEPT ![s] = r] /\ r.pc = "collecting" /\ r.task = t /\ r.mem = m
        /\ r.verdict = "failed"
    BY <1>4, <1>5, <2>1 DEF Supervisor
  <2>3. Holds(s, r, "collecting")
    BY <1>2, <1>5, <2>2 DEF Holds
  <2>4. Commands(r, "collecting")
    BY <1>2, <1>6, <2>2 DEF Commands
  <2>5. Verified(r, "collecting", "failed")
    BY <1>2 DEF Verified
  <2>6. Good(s, r, r.pc, r.verdict)
    BY <2>2, <2>3, <2>4, <2>5 DEF Good
  <2>7. UNCHANGED <<disk, locks, groups, submission, ins>>
    BY <1>1, <1>8 DEF disk, locks
  <2>8. /\ r.task = sup[s].task /\ r.mem = sup[s].mem
        /\ r.pc \notin {"idle", "read", "publish", "spawn"} \cup Early
    BY <1>2, <1>5, <2>2
  <2>. QED  BY <1>1, <2>2, <2>6, <2>7, <2>8, MoveStep
<1>9. \/ /\ group' = [group EXCEPT ![t] = "running"]
         /\ launches' = [launches EXCEPT ![t][m.phase] = @ + 1]
         /\ sup' = [sup EXCEPT ![s].pc = "spawned", ![s].verdict = "none"]
      \/ sup' = [sup EXCEPT ![s].pc = "collecting", ![s].verdict = "failed"] /\ UNCHANGED groups
  BY DEF Spawn
<1>. QED  BY <1>7, <1>8, <1>9

(***************************************************************************)
(* A record with which only the output count of the supervisor changes.    *)
(***************************************************************************)
LEMMA SameRecordStep ==
  ASSUME IInv, NEW s \in Supervisors, Works(s), sup[s].pc # "publish",
         sup[s].mem.state = "running",
         NEW p \in Supervisor, p.task = sup[s].task, p.mem = sup[s].mem,
         NEW next \in SupervisorStep \ {"spawn", "exit"}, NEW fallback \in SupervisorStep,
         next \notin Early, fallback \notin Early, fallback # "spawn",
         Rescue(next, fallback), Record(s, p, next, fallback),
         Good(s, p, next, p.verdict), Good(s, p, fallback, "failed"),
         UNCHANGED <<status, cancelFile, locks, groups, submission, ins>>
  PROVE  IInv'
<1>1. /\ sup[s].mem \in Snapshot /\ Follows(status[TaskOf(s)], sup[s].mem)
      /\ "running" \notin Terminal
  BY AtWork DEF Terminal
<1>. QED  BY <1>1, RecordStep DEF Terminal

LEMMA RecordSpawnedStep ==
  ASSUME IInv, NEW s \in Supervisors, RecordSpawned(s) PROVE IInv'
<1>1. /\ sup[s].pc = "spawned" /\ Works(s)
      /\ UNCHANGED <<status, cancelFile, locks, groups, submission, ins>>
      /\ Record(s, sup[s], "poll_cancel", "drop_child")
  BY DEF RecordSpawned, At, Works, AtRest
<1>2. /\ {"spawned", "poll_cancel", "drop_child"} \subseteq Polled \cap Runs
      /\ {"spawned", "poll_cancel", "drop_child"} \cap (Early \cup Late) = {}
      /\ "poll_cancel" \in SupervisorStep \ {"spawn", "exit"} /\ "drop_child" \in SupervisorStep
  BY DEF Early, Polled, Runs, Late, SupervisorStep
<1>3. Holds(s, sup[s], "spawned") /\ Commands(sup[s], "spawned") /\ sup[s] \in Supervisor
  BY <1>1, AtWork, SupervisorTyped
<1>4. sup[s].mem.state = "running"
  BY <1>2, <1>3 DEF Commands
<1>5. Holds(s, sup[s], "poll_cancel") /\ Holds(s, sup[s], "drop_child")
  BY <1>2, <1>3 DEF Holds
<1>6. Commands(sup[s], "poll_cancel") /\ Commands(sup[s], "drop_child")
  BY <1>2, <1>3 DEF Commands
<1>7. /\ Verified(sup[s], "poll_cancel", sup[s].verdict)
      /\ Verified(sup[s], "drop_child", "failed")
  BY <1>2 DEF Verified
<1>8. Good(s, sup[s], "poll_cancel", sup[s].verdict) /\ Good(s, sup[s], "drop_child", "failed")
  BY <1>5, <1>6, <1>7 DEF Good
<1>9. Rescue("poll_cancel", "drop_child")
  BY DEF Rescue
<1>. QED  BY <1>1, <1>2, <1>3, <1>4, <1>8, <1>9, SameRecordStep

LEMMA OutputStep ==
  ASSUME IInv, NEW s \in Supervisors, Output(s) PROVE IInv'
<1>1. /\ sup[s].pc \in {"poll_cancel", "poll_exit"} /\ Works(s)
      /\ UNCHANGED <<status, cancelFile, locks, groups, submission, ins>>
      /\ sup[s].outputs < MaxOutputs
      /\ Record(s, [sup[s] EXCEPT !.outputs = @ + 1], sup[s].pc, sup[s].pc)
  BY DEF Output, Works, AtRest
<1>. DEFINE p == [sup[s] EXCEPT !.outputs = @ + 1]
<1>2. /\ sup[s].pc \in Runs \cap Polled /\ sup[s].pc \notin Early \cup Late \cup {"spawn", "exit", "publish"}
      /\ sup[s].pc \in SupervisorStep
  BY <1>1 DEF Early, Polled, Runs, Late, SupervisorStep
<1>3. /\ Holds(s, sup[s], sup[s].pc) /\ Commands(sup[s], sup[s].pc)
      /\ Verified(sup[s], sup[s].pc, sup[s].verdict) /\ sup[s] \in Supervisor
  BY <1>1, <1>2, AtWork, SupervisorTyped
<1>4. /\ p \in Supervisor /\ p.task = sup[s].task /\ p.mem = sup[s].mem /\ p.verdict = sup[s].verdict
      /\ p.result = sup[s].result
  BY <1>1, <1>3, TaskAssumption DEF Supervisor
<1>5. Record(s, p, sup[s].pc, sup[s].pc)
  BY <1>1
<1>. HIDE DEF p
<1>6. sup[s].mem.state = "running"
  BY <1>2, <1>3 DEF Commands
<1>7. Holds(s, p, sup[s].pc)
  BY <1>3, <1>4 DEF Holds
<1>8. Commands(p, sup[s].pc)
  BY <1>3, <1>4 DEF Commands
<1>9. Verified(p, sup[s].pc, p.verdict) /\ Verified(p, sup[s].pc, "failed")
  BY <1>1, <1>2, <1>3, <1>4 DEF Verified, Settled
<1>10. Rescue(sup[s].pc, sup[s].pc)
  BY DEF Rescue
<1>. QED  BY <1>1, <1>2, <1>4, <1>5, <1>6, <1>7, <1>8, <1>9, <1>10, SameRecordStep DEF Good

(***************************************************************************)
(* The end of a run: no result of a verification but a cancellation stands *)
(* that a cancellation on record before it could have changed.             *)
(***************************************************************************)
LEMMA EndedStep ==
  ASSUME IInv, NEW s \in Supervisors, Works(s), sup[s].pc \in Polled,
         NEW t \in Tasks, t = TaskOf(s), NEW r \in Supervisor,
         sup' = [sup EXCEPT ![s] = r], r.task = sup[s].task, r.mem = sup[s].mem,
         \/ /\ r.pc = "exited"
            /\ r.mem.phase = "verification" /\ r.result = "passed" => Settled(r)
         \/ r.pc = "collecting" /\ r.verdict = "failed",
         group' = [group EXCEPT ![t] = "gone"],
         UNCHANGED <<disk, locks, launches, submission, ins>>
  PROVE  IInv'
<1>1. /\ sup[s].pc \in Runs /\ sup[s].pc \notin {"spawn"} \cup Early \cup Late /\ sup[s].pc # "publish"
      /\ "exited" \in Runs /\ "exited" \notin Late /\ "collecting" \in Late /\ "collecting" \notin Runs
      /\ {"exited", "collecting"} \cap ({"idle", "read", "publish", "spawn", "poll_exit", "drop_child"} \cup Early \cup Polled) = {}
  BY DEF Runs, Polled, Early, Late
<1>2. Holds(s, sup[s], sup[s].pc) /\ Commands(sup[s], sup[s].pc)
  BY <1>1, AtWork
<1>3. repoLock = s /\ group[t] = "running" /\ sup[s].task = t
  BY <1>1, <1>2 DEF Holds, Polled, TaskOf
<1>4. /\ status' = status /\ lastEvent' = lastEvent /\ cancelFile' = cancelFile
      /\ ownerLock' = ownerLock /\ repoLock' = repoLock /\ launches' = launches
      /\ submission' = submission /\ ins' = ins
  BY DEF disk, locks
<1>5. /\ group' \in [Tasks -> {"none", "running", "gone", "orphan"}] /\ group'[t] = "gone"
      /\ \A u \in Tasks \ {t} : group'[u] = group[u]
  BY DEF IInv, TypeOK
<1>6. status[t].state # "queued"
  BY <1>3 DEF IInv, TaskOK
<1>7. Holds(s, r, r.pc)'
  BY <1>1, <1>3, <1>4, <1>5 DEF Holds
<1>8. Commands(r, r.pc)'
  <2>1. sup[s].mem.phase \in {"worker", "verification"} /\ sup[s].mem.state = "running"
    BY <1>1, <1>2 DEF Commands
  <2>2. CASE r.pc = "exited"
    BY <1>1, <1>2, <1>3, <1>4, <2>2 DEF Commands
  <2>3. CASE r.pc = "collecting"
    BY <1>1, <2>1, <2>3 DEF Commands
  <2>. QED  BY <2>2, <2>3
<1>9. Verified(r, r.pc, r.verdict)'
  BY <1>1, <1>4 DEF Verified, Settled, EarlyCancel
<1>10. /\ launches' \in [Tasks -> [worker : Nat, verification : Nat]]
       /\ launches'[t].verification <= launches'[t].worker /\ launches'[t].worker <= 1
       /\ launches'[t].verification # 0 => status[t].phase \notin {"queued", "worker"}
  BY <1>4 DEF IInv, TypeOK, TaskOK
<1>11. Good(s, r, r.pc, r.verdict)'
  BY <1>7, <1>8, <1>9 DEF Good
<1>12. r.pc \notin {"idle", "read", "publish", "spawn"} \cup Early
  BY <1>1
<1>. QED  BY <1>1, <1>4, <1>5, <1>6, <1>10, <1>11, <1>12, PlaceStep

LEMMA DropChildStep ==
  ASSUME IInv, NEW s \in Supervisors, DropChild(s) PROVE IInv'
<1>1. /\ sup[s].pc = "drop_child" /\ Works(s) /\ Goto(s, "collecting")
      /\ group' = [group EXCEPT ![TaskOf(s)] = "gone"]
      /\ UNCHANGED <<disk, locks, launches, submission, ins>>
  BY DEF DropChild, At, Works, AtRest
<1>2. "drop_child" \in Polled \cap Runs /\ "collecting" \in SupervisorStep /\ "drop_child" # "publish"
  BY DEF Polled, Runs, SupervisorStep
<1>3. sup[s].verdict = "failed"
  BY <1>1, AtWork DEF Verified
<1>. PICK t \in Tasks : t = TaskOf(s)
  BY <1>1, TypedSupervisor, AtWork
<1>4. /\ [sup[s] EXCEPT !.pc = "collecting"] \in Supervisor
      /\ sup' = [sup EXCEPT ![s] = [sup[s] EXCEPT !.pc = "collecting"]]
  BY <1>1, <1>2, SupervisorTyped DEF Goto, Supervisor, SupervisorsTyped
<1>. PICK r \in Supervisor : r = [sup[s] EXCEPT !.pc = "collecting"]
  BY <1>4
<1>5. /\ sup' = [sup EXCEPT ![s] = r] /\ r.pc = "collecting" /\ r.task = sup[s].task
      /\ r.mem = sup[s].mem /\ r.verdict = "failed"
  BY <1>3, <1>4, SupervisorTyped DEF Supervisor
<1>. QED  BY <1>1, <1>2, <1>5, EndedStep

LEMMA EndRunStep ==
  ASSUME IInv, NEW s \in Supervisors, sup[s].pc \in {"poll_cancel", "poll_exit"},
         NEW result \in Result, EndRun(s, result),
         sup[s].pc = "poll_cancel" => result = "canceled",
         UNCHANGED <<disk, locks, launches, submission, ins>>
  PROVE  IInv'
<1>1. /\ sup[s].pc \in Polled /\ Works(s) /\ sup[s].pc # "publish" /\ sup[s].pc # "idle"
      /\ {"exited", "collecting"} \subseteq SupervisorStep /\ "failed" \in Terminal
  BY DEF Polled, Works, AtRest, SupervisorStep, Terminal
<1>. PICK t \in Tasks : t = TaskOf(s)
  BY <1>1, TypedSupervisor
<1>2. group' = [group EXCEPT ![t] = "gone"]
  BY DEF EndRun
<1>3. /\ sup[s] \in Supervisor /\ sup \in SupervisorsTyped
      /\ sup[s].pc = "poll_exit" /\ sup[s].mem.phase = "verification" => Settled(sup[s])
  BY <1>1, SupervisorTyped, AtWork DEF Verified
<1>4. CASE sup' = [sup EXCEPT ![s].pc = "exited", ![s].result = result]
  <2>1. /\ [sup[s] EXCEPT !.pc = "exited", !.result = result] \in Supervisor
        /\ sup' = [sup EXCEPT ![s] = [sup[s] EXCEPT !.pc = "exited", !.result = result]]
    BY <1>1, <1>3, <1>4 DEF Supervisor, SupervisorsTyped
  <2>. PICK r \in Supervisor : r = [sup[s] EXCEPT !.pc = "exited", !.result = result]
    BY <2>1
  <2>2. /\ sup' = [sup EXCEPT ![s] = r] /\ r.pc = "exited" /\ r.task = sup[s].task
        /\ r.mem = sup[s].mem /\ r.result = result
    BY <1>3, <2>1 DEF Supervisor
  <2>3. r.mem.phase = "verification" /\ r.result = "passed" => Settled(r)
    BY <1>3, <2>2 DEF Settled
  <2>. QED  BY <1>1, <1>2, <2>2, <2>3, EndedStep
<1>5. CASE sup' = [sup EXCEPT ![s].pc = "collecting", ![s].verdict = "failed"]
  <2>1. /\ [sup[s] EXCEPT !.pc = "collecting", !.verdict = "failed"] \in Supervisor
        /\ sup' = [sup EXCEPT ![s] = [sup[s] EXCEPT !.pc = "collecting", !.verdict = "failed"]]
    BY <1>1, <1>3, <1>5 DEF Supervisor, SupervisorsTyped
  <2>. PICK r \in Supervisor : r = [sup[s] EXCEPT !.pc = "collecting", !.verdict = "failed"]
    BY <2>1
  <2>2. /\ sup' = [sup EXCEPT ![s] = r] /\ r.pc = "collecting" /\ r.task = sup[s].task
        /\ r.mem = sup[s].mem /\ r.verdict = "failed"
    BY <1>3, <2>1 DEF Supervisor
  <2>. QED  BY <1>1, <1>2, <2>2, EndedStep
<1>. QED  BY <1>4, <1>5 DEF EndRun

LEMMA PollCancelStep ==
  ASSUME IInv, NEW s \in Supervisors, PollCancel(s) PROVE IInv'
<1>1. /\ sup[s].pc = "poll_cancel" /\ Works(s) /\ UNCHANGED <<disk, locks, launches, submission, ins>>
  BY DEF PollCancel, At, Works, AtRest
<1>2. CASE Canceled(s) /\ EndRun(s, "canceled")
  BY <1>1, <1>2, EndRunStep DEF Result
<1>3. CASE ~Canceled(s) /\ Goto(s, "poll_exit") /\ UNCHANGED group
  <2>1. /\ {"poll_cancel", "poll_exit"} \subseteq Polled \cap Runs
        /\ {"poll_cancel", "poll_exit"} \cap (Early \cup Late) = {}
        /\ "poll_exit" \in SupervisorStep \ {"idle", "read", "publish", "spawn"}
    BY DEF Polled, Runs, Early, Late, SupervisorStep
  <2>2. Holds(s, sup[s], "poll_cancel") /\ Commands(sup[s], "poll_cancel")
    BY <1>1, AtWork
  <2>3. Holds(s, sup[s], "poll_exit") /\ Commands(sup[s], "poll_exit")
    <3>1. Holds(s, sup[s], "poll_exit")
      BY <2>1, <2>2 DEF Holds
    <3>2. Commands(sup[s], "poll_exit")
      BY <2>1, <2>2 DEF Commands
    <3>. QED  BY <3>1, <3>2
  <2>4. Verified(sup[s], "poll_exit", sup[s].verdict)
    <3>1. ~EarlyCancel(sup[s].task)
      BY <1>3 DEF Canceled, EarlyCancel, TaskOf
    <3>2. sup[s].mem.phase = "verification" => status[sup[s].task].phase \notin {"queued", "worker"}
      <4>1. sup[s].mem.phase = "verification" => launches[sup[s].task].verification = 1
        BY <2>1, <2>2 DEF Commands
      <4>2. TaskOK(sup[s].task)
        BY <1>1, TypedSupervisor
      <4>. QED  BY <4>1, <4>2 DEF TaskOK
    <3>. QED  BY <2>1, <3>1, <3>2 DEF Verified, Settled
  <2>5. UNCHANGED <<disk, locks, groups, submission, ins>>
    BY <1>1, <1>3 DEF groups
  <2>. QED  BY <1>1, <1>3, <2>1, <2>3, <2>4, <2>5, GotoStep
<1>. QED  BY <1>2, <1>3 DEF PollCancel

LEMMA StillRunningStep ==
  ASSUME IInv, NEW s \in Supervisors, StillRunning(s) PROVE IInv'
<1>1. /\ sup[s].pc = "poll_exit" /\ Works(s) /\ Goto(s, "poll_cancel")
      /\ UNCHANGED <<disk, locks, groups, submission, ins>>
  BY DEF StillRunning, At, Works, AtRest
<1>2. /\ {"poll_cancel", "poll_exit"} \subseteq Polled \cap Runs
      /\ {"poll_cancel", "poll_exit"} \cap (Early \cup Late) = {}
      /\ "poll_cancel" \in SupervisorStep \ {"idle", "read", "publish", "spawn"}
  BY DEF Polled, Runs, Early, Late, SupervisorStep
<1>3. Holds(s, sup[s], "poll_exit") /\ Commands(sup[s], "poll_exit")
  BY <1>1, AtWork
<1>4. /\ Holds(s, sup[s], "poll_cancel") /\ Commands(sup[s], "poll_cancel")
      /\ Verified(sup[s], "poll_cancel", sup[s].verdict)
  BY <1>2, <1>3 DEF Holds, Commands, Verified
<1>. QED  BY <1>1, <1>2, <1>4, GotoStep

LEMMA ExitsStep ==
  ASSUME IInv, NEW s \in Supervisors, Exits(s) PROVE IInv'
<1>1. sup[s].pc = "poll_exit" /\ UNCHANGED <<disk, locks, launches, submission, ins>>
  BY DEF Exits, At
<1>2. PICK result \in {"passed", "failed"} : EndRun(s, result)
  BY DEF Exits
<1>. QED  BY <1>1, <1>2, EndRunStep DEF Result

(***************************************************************************)
(* The result of a phase is written into the record where it is unknown.   *)
(***************************************************************************)
LEMMA RecordExitedStep ==
  ASSUME IInv, NEW s \in Supervisors, RecordExited(s) PROVE IInv'
<1>. DEFINE phase == sup[s].mem.phase
            result == sup[s].result
            m == [sup[s].mem EXCEPT ![phase] = result]
            p == [sup[s] EXCEPT !.mem[phase] = result, !.result = "none", !.verdict = Outcome(result)]
            next == After(phase, result)
<1>1. /\ sup[s].pc = "exited" /\ Works(s)
      /\ UNCHANGED <<status, cancelFile, locks, groups, submission, ins>>
      /\ Record(s, p, next, "collecting")
  BY DEF RecordExited, At, Works, AtRest
<1>2. /\ "exited" \in Runs /\ "exited" \notin Early \cup Polled \cup Late
      /\ "collecting" \in Late /\ "collecting" \notin Early \cup Polled \cup Runs
      /\ "start_verification" \notin Early \cup Polled \cup Runs \cup Late
      /\ {"start_verification", "collecting"} \subseteq SupervisorStep
      /\ "running" \notin Terminal
  BY DEF Early, Polled, Runs, Late, SupervisorStep, Terminal
<1>3. /\ Holds(s, sup[s], "exited") /\ Commands(sup[s], "exited")
      /\ Verified(sup[s], "exited", sup[s].verdict)
      /\ Follows(status[TaskOf(s)], sup[s].mem) /\ sup[s].mem \in Snapshot /\ sup[s] \in Supervisor
  BY <1>1, AtWork, SupervisorTyped
<1>4. /\ phase \in {"worker", "verification"} /\ sup[s].mem.verification = "none"
      /\ sup[s].mem.worker = (IF phase = "worker" THEN "none" ELSE "passed")
      /\ sup[s].mem.state = "running" /\ repoLock = s /\ group[sup[s].task] \in {"none", "gone"}
      /\ launches[sup[s].task] =
           [worker |-> 1, verification |-> IF phase = "verification" THEN 1 ELSE 0]
  BY <1>2, <1>3 DEF Commands, Holds
<1>5. result \in Result /\ Outcome(result) \in Terminal
  BY <1>3 DEF Supervisor, Outcome, Terminal
<1>6. /\ m \in Snapshot /\ m.seq = sup[s].mem.seq /\ m.state = "running" /\ m.phase = phase
      /\ m.worker = IF phase = "worker" THEN result ELSE "passed"
      /\ m.verification = IF phase = "worker" THEN "none" ELSE result
  <2>1. CASE phase = "worker"
    <3>1. m = [sup[s].mem EXCEPT !.worker = result]
      BY <2>1
    <3>. HIDE DEF m
    <3>. QED  BY <1>3, <1>4, <1>5, <2>1, <3>1 DEF Snapshot
  <2>2. CASE phase = "verification"
    <3>1. m = [sup[s].mem EXCEPT !.verification = result]
      BY <2>2
    <3>. HIDE DEF m
    <3>. QED  BY <1>3, <1>4, <1>5, <2>2, <3>1 DEF Snapshot
  <2>. QED  BY <1>4, <2>1, <2>2
<1>7. p = [sup[s] EXCEPT !.mem = m, !.result = "none", !.verdict = Outcome(result)]
  <2>1. CASE phase = "worker"
    BY <1>3, <2>1 DEF Supervisor
  <2>2. CASE phase = "verification"
    BY <1>3, <2>2 DEF Supervisor
  <2>. QED  BY <1>4, <2>1, <2>2
<1>. HIDE DEF m, p
<1>8. /\ p \in Supervisor /\ p.mem = m /\ p.task = sup[s].task /\ p.result = "none"
      /\ p.verdict = Outcome(result)
  BY <1>3, <1>5, <1>6, <1>7 DEF Supervisor, Result
<1>9. \/ next = "start_verification" /\ phase = "worker" /\ result = "passed"
      \/ next = "collecting" /\ (phase = "verification" \/ result # "passed")
  BY <1>4 DEF After
<1>10. Outcome(result) = "succeeded" => result = "passed"
  BY DEF Outcome
<1>. HIDE DEF next
<1>11. Follows(status[TaskOf(s)], p.mem)
  <2>1. CASE phase = "worker"
    BY <1>3, <1>4, <1>6, <1>8, <2>1 DEF Follows
  <2>2. CASE phase = "verification"
    BY <1>3, <1>4, <1>6, <1>8, <2>2 DEF Follows
  <2>. QED  BY <1>4, <2>1, <2>2
<1>12. Holds(s, p, next) /\ Holds(s, p, "collecting")
  BY <1>2, <1>4, <1>8, <1>9 DEF Holds
<1>13. Commands(p, "collecting")
  BY <1>2, <1>4, <1>6, <1>8 DEF Commands
<1>14. Commands(p, next)
  <2>1. CASE next = "start_verification"
    <3>1. m.worker = "passed" /\ m.verification = "none" /\ m.phase = "worker" /\ m.state = "running"
          /\ launches[p.task] = [worker |-> 1, verification |-> 0]
      BY <1>2, <1>4, <1>6, <1>8, <1>9, <2>1
    <3>. QED  BY <1>2, <1>8, <2>1, <3>1 DEF Commands
  <2>. QED  BY <1>9, <1>13, <2>1
<1>15. Verified(p, "collecting", "failed")
  BY <1>2 DEF Verified
<1>16. Verified(p, next, p.verdict)
  <2>1. CASE next = "start_verification"
    BY <1>2, <2>1 DEF Verified
  <2>2. CASE next = "collecting"
    <3>1. p.verdict = "succeeded" =>
            p.mem.worker = "passed" /\ p.mem.verification = "passed" /\ Settled(p)
      <4>. SUFFICES ASSUME p.verdict = "succeeded"
                    PROVE  p.mem.worker = "passed" /\ p.mem.verification = "passed" /\ Settled(p)
        OBVIOUS
      <4>1. result = "passed" /\ phase = "verification"
        BY <1>8, <1>9, <1>10, <2>2
      <4>2. Settled(sup[s])
        BY <1>2, <1>3, <4>1 DEF Verified
      <4>3. Settled(p)
        BY <1>6, <1>8, <4>2 DEF Settled
      <4>. QED  BY <1>6, <1>8, <4>1, <4>3
    <3>. QED  BY <1>2, <1>5, <1>8, <2>2, <3>1 DEF Verified, Terminal
  <2>. QED  BY <1>9, <2>1, <2>2
<1>17. Good(s, p, next, p.verdict) /\ Good(s, p, "collecting", "failed")
  BY <1>12, <1>13, <1>14, <1>15, <1>16 DEF Good
<1>18. Rescue(next, "collecting") /\ next \in SupervisorStep \ Early
  BY <1>2, <1>9 DEF Rescue
<1>19. /\ p.mem.state = "running" /\ p.mem.seq = sup[s].mem.seq /\ p.mem \in Snapshot
       /\ "collecting" # "spawn" /\ sup[s].pc # "publish"
  BY <1>1, <1>6, <1>8
<1>. QED  BY <1>1, <1>2, <1>8, <1>11, <1>17, <1>18, <1>19, RecordStep

LEMMA StartVerificationStep ==
  ASSUME IInv, NEW s \in Supervisors, StartVerification(s) PROVE IInv'
<1>1. /\ sup[s].pc = "start_verification" /\ Works(s)
      /\ UNCHANGED <<status, cancelFile, locks, groups, submission, ins>>
  BY DEF StartVerification, At, Works, AtRest
<1>2. /\ "start_verification" \notin Early \cup Polled \cup Runs \cup Late
      /\ "spawn" \in Runs /\ "spawn" \notin Early \cup Polled \cup Late
      /\ "collecting" \in Late /\ "collecting" \notin Early \cup Polled \cup Runs
      /\ {"spawn", "collecting"} \subseteq SupervisorStep /\ "cancelled" \in Terminal
      /\ "running" \notin Terminal /\ "collecting" \notin {"idle", "read", "publish", "spawn"}
  BY DEF Early, Polled, Runs, Late, SupervisorStep, Terminal
<1>3. /\ Holds(s, sup[s], "start_verification") /\ Commands(sup[s], "start_verification")
      /\ Follows(status[TaskOf(s)], sup[s].mem) /\ sup[s].mem \in Snapshot /\ sup[s] \in Supervisor
      /\ sup \in SupervisorsTyped
  BY <1>1, AtWork, SupervisorTyped
<1>4. /\ sup[s].mem.phase = "worker" /\ sup[s].mem.worker = "passed"
      /\ sup[s].mem.verification = "none" /\ sup[s].mem.state = "running"
      /\ launches[sup[s].task] = [worker |-> 1, verification |-> 0]
  BY <1>2, <1>3 DEF Commands
<1>5. repoLock = s /\ group[sup[s].task] \in {"none", "gone"}
  BY <1>2, <1>3 DEF Holds
<1>6. CASE /\ sup' = [sup EXCEPT ![s].pc = "collecting", ![s].verdict = "cancelled"]
           /\ UNCHANGED lastEvent
  <2>1. /\ [sup[s] EXCEPT !.pc = "collecting", !.verdict = "cancelled"] \in Supervisor
        /\ sup' = [sup EXCEPT ![s] = [sup[s] EXCEPT !.pc = "collecting", !.verdict = "cancelled"]]
    BY <1>2, <1>3, <1>6 DEF Supervisor, SupervisorsTyped
  <2>. PICK r \in Supervisor : r = [sup[s] EXCEPT !.pc = "collecting", !.verdict = "cancelled"]
    BY <2>1
  <2>2. /\ sup' = [sup EXCEPT ![s] = r] /\ r.pc = "collecting" /\ r.task = sup[s].task
        /\ r.mem = sup[s].mem /\ r.verdict = "cancelled"
    BY <1>3, <2>1 DEF Supervisor
  <2>3. Holds(s, r, "collecting")
    BY <1>2, <1>5, <2>2 DEF Holds
  <2>4. Commands(r, "collecting")
    BY <1>2, <1>4, <2>2 DEF Commands
  <2>5. Verified(r, "collecting", "cancelled")
    BY <1>2 DEF Verified
  <2>6. Good(s, r, r.pc, r.verdict) /\ r.pc \notin Early
    BY <1>2, <2>2, <2>3, <2>4, <2>5 DEF Good
  <2>7. UNCHANGED <<disk, locks, groups, submission, ins>>
    BY <1>1, <1>6 DEF disk
  <2>. QED  BY <1>1, <1>2, <2>2, <2>6, <2>7, MoveStep
<1>7. CASE Record(s, [sup[s] EXCEPT !.mem.phase = "verification"], "spawn", "collecting")
  <2>. DEFINE m == [sup[s].mem EXCEPT !.phase = "verification"]
              p == [sup[s] EXCEPT !.mem.phase = "verification"]
  <2>1. /\ m \in Snapshot /\ m.seq = sup[s].mem.seq /\ m.state = "running" /\ m.phase = "verification"
        /\ m.worker = "passed" /\ m.verification = "none"
    BY <1>3, <1>4 DEF Snapshot, Phase
  <2>2. p = [sup[s] EXCEPT !.mem = m] /\ Record(s, p, "spawn", "collecting")
    BY <1>3, <1>7 DEF Supervisor, Snapshot
  <2>. HIDE DEF m, p
  <2>3. p \in Supervisor /\ p.mem = m /\ p.task = sup[s].task
    BY <1>3, <2>1, <2>2 DEF Supervisor
  <2>4. Follows(status[TaskOf(s)], p.mem)
    <3>1. Order["worker"] = 1 /\ Order["verification"] = 2
      BY DEF Order
    <3>2. Order[status[TaskOf(s)].phase] \in Nat
      <4>1. status[TaskOf(s)].phase \in Phase
        BY <1>1, TypedSupervisor DEF Snapshot
      <4>. QED  BY <4>1 DEF Order, Phase
    <3>. QED  BY <1>3, <1>4, <2>1, <2>3, <3>1, <3>2 DEF Follows
  <2>5. Holds(s, p, "spawn") /\ Holds(s, p, "collecting")
    BY <1>2, <1>5, <2>3 DEF Holds
  <2>6. Commands(p, "spawn")
    <3>1. launches[p.task] = [worker |-> 1, verification |-> 0]
      BY <1>4, <2>3
    <3>. QED  BY <1>2, <2>1, <2>3, <3>1 DEF Commands
  <2>7. Commands(p, "collecting")
    BY <1>2, <2>1, <2>3 DEF Commands
  <2>8. Verified(p, "spawn", p.verdict) /\ Verified(p, "collecting", "failed")
    BY <1>2 DEF Verified
  <2>9. Good(s, p, "spawn", p.verdict) /\ Good(s, p, "collecting", "failed")
    BY <2>5, <2>6, <2>7, <2>8 DEF Good
  <2>10. Rescue("spawn", "collecting")
    BY DEF Rescue
  <2>11. /\ p.mem \in Snapshot /\ p.mem.seq = sup[s].mem.seq /\ p.mem.state = "running"
    BY <2>1, <2>3
  <2>. QED  BY <1>1, <1>2, <2>2, <2>3, <2>4, <2>9, <2>10, <2>11, RecordStep
<1>. QED  BY <1>6, <1>7 DEF StartVerification

(***************************************************************************)
(* From the collecting of artifacts on, the place does not matter.         *)
(***************************************************************************)
LEMMA LateIsLate ==
  ASSUME NEW s, NEW p, NEW q, NEW here \in Late, NEW there \in Late,
         NEW old, NEW new, Good(s, p, here, old),
         q.task = p.task, q.mem.state = p.mem.state, q.mem.phase \in {p.mem.phase, "artifacts"},
         q.mem.worker = p.mem.worker, q.mem.verification = p.mem.verification,
         new \in {old, "failed"}
  PROVE  Good(s, q, there, new)
<1>1. Late \cap (Early \cup Polled \cup Runs \cup {"start_verification", "exit"}) = {}
  BY DEF Late, Early, Polled, Runs
<1>2. Holds(s, q, there)
  BY <1>1 DEF Good, Holds, Early
<1>3. Commands(q, there)
  BY <1>1 DEF Good, Commands
<1>4. Verified(q, there, new)
  BY <1>1 DEF Good, Verified, Settled, Runs, Polled
<1>. QED  BY <1>2, <1>3, <1>4 DEF Good

LEMMA CollectingStep ==
  ASSUME IInv, NEW s \in Supervisors, Collecting(s) PROVE IInv'
<1>. DEFINE m == [sup[s].mem EXCEPT !.phase = "artifacts"]
            p == [sup[s] EXCEPT !.mem.phase = "artifacts"]
<1>1. /\ sup[s].pc = "collecting" /\ Works(s)
      /\ UNCHANGED <<status, cancelFile, locks, groups, submission, ins>>
      /\ Record(s, p, "collect", "exit")
  BY DEF Collecting, At, Works, AtRest
<1>2. /\ {"collecting", "collect"} \subseteq Late
      /\ {"collecting", "collect", "exit"} \cap (Early \cup Polled \cup Runs \cup {"start_verification"}) = {}
      /\ {"collect", "exit"} \subseteq SupervisorStep /\ "running" \notin Terminal
  BY DEF Early, Polled, Runs, Late, SupervisorStep, Terminal
<1>3. /\ Good(s, sup[s], "collecting", sup[s].verdict)
      /\ Follows(status[TaskOf(s)], sup[s].mem) /\ sup[s].mem \in Snapshot /\ sup[s] \in Supervisor
  BY <1>1, AtWork, SupervisorTyped DEF Good
<1>4. sup[s].mem.state = "running" /\ sup[s].mem.phase # "completed" /\ group[sup[s].task] \in {"none", "gone"}
  BY <1>2, <1>3 DEF Good, Commands, Holds
<1>5. /\ m \in Snapshot /\ m.seq = sup[s].mem.seq /\ m.state = "running" /\ m.phase = "artifacts"
      /\ m.worker = sup[s].mem.worker /\ m.verification = sup[s].mem.verification
  BY <1>3, <1>4 DEF Snapshot, Phase
<1>6. p = [sup[s] EXCEPT !.mem = m]
  BY <1>3 DEF Supervisor, Snapshot
<1>. HIDE DEF m, p
<1>7. p \in Supervisor /\ p.mem = m /\ p.task = sup[s].task /\ p.verdict = sup[s].verdict
  BY <1>3, <1>5, <1>6 DEF Supervisor
<1>8. Follows(status[TaskOf(s)], p.mem)
  <2>1. \A phase \in Phase \ {"completed"} : Order[phase] <= Order["artifacts"]
    BY DEF Order, Phase
  <2>2. \A phase \in Phase : Order[phase] \in Nat
    BY DEF Order, Phase
  <2>3. status[TaskOf(s)].phase \in Phase /\ sup[s].mem.phase \in Phase \ {"completed"}
    BY <1>1, <1>3, <1>4, TypedSupervisor DEF Snapshot
  <2>4. "artifacts" \in Phase
    BY DEF Phase
  <2>5. Order[status[TaskOf(s)].phase] <= Order["artifacts"]
    <3>1. Order[status[TaskOf(s)].phase] <= Order[sup[s].mem.phase]
      BY <1>3 DEF Follows
    <3>. QED  BY <2>1, <2>2, <2>3, <2>4, <3>1
  <2>. QED  BY <1>3, <1>5, <1>7, <2>5 DEF Follows
<1>9. Good(s, p, "collect", p.verdict)
  BY <1>2, <1>3, <1>4, <1>5, <1>7, LateIsLate
<1>10. Good(s, p, "exit", "failed") /\ Rescue("collect", "exit")
  BY <1>4, <1>7, ExitIsGood DEF Rescue
<1>11. /\ p.mem \in Snapshot /\ p.mem.seq = sup[s].mem.seq /\ p.mem.state = "running"
  BY <1>5, <1>7
<1>. QED  BY <1>1, <1>2, <1>7, <1>8, <1>9, <1>10, <1>11, RecordStep

LEMMA CollectStep ==
  ASSUME IInv, NEW s \in Supervisors, Collect(s) PROVE IInv'
<1>1. /\ sup[s].pc = "collect" /\ Works(s)
      /\ UNCHANGED <<status, cancelFile, locks, groups, submission, ins>>
  BY DEF Collect, At, Works, AtRest
<1>2. /\ {"collect", "finish"} \subseteq Late
      /\ {"collect", "finish"} \cap (Early \cup Runs) = {}
      /\ "finish" \in SupervisorStep \ {"idle", "read", "publish", "spawn", "exit"} /\ "failed" \in Terminal
  BY DEF Early, Polled, Runs, Late, SupervisorStep, Terminal
<1>3. /\ Good(s, sup[s], "collect", sup[s].verdict) /\ sup[s] \in Supervisor /\ sup \in SupervisorsTyped
  BY <1>1, AtWork, SupervisorTyped DEF Good
<1>4. sup[s].mem.state = "running"
  BY <1>2, <1>3 DEF Good, Commands
<1>5. CASE Record(s, sup[s], "finish", "finish")
  <2>1. Good(s, sup[s], "finish", sup[s].verdict) /\ Good(s, sup[s], "finish", "failed")
    BY <1>2, <1>3, LateIsLate
  <2>2. Rescue("finish", "finish")
    BY DEF Rescue
  <2>. QED  BY <1>1, <1>2, <1>3, <1>4, <1>5, <2>1, <2>2, SameRecordStep
<1>6. CASE /\ sup' = [sup EXCEPT ![s].pc = "finish", ![s].verdict = "failed"]
           /\ UNCHANGED lastEvent
  <2>1. /\ [sup[s] EXCEPT !.pc = "finish", !.verdict = "failed"] \in Supervisor
        /\ sup' = [sup EXCEPT ![s] = [sup[s] EXCEPT !.pc = "finish", !.verdict = "failed"]]
    BY <1>2, <1>3, <1>6 DEF Supervisor, SupervisorsTyped
  <2>. PICK r \in Supervisor : r = [sup[s] EXCEPT !.pc = "finish", !.verdict = "failed"]
    BY <2>1
  <2>2. /\ sup' = [sup EXCEPT ![s] = r] /\ r.pc = "finish" /\ r.task = sup[s].task
        /\ r.mem = sup[s].mem /\ r.verdict = "failed"
    BY <1>3, <2>1 DEF Supervisor
  <2>3. Good(s, r, "finish", "failed")
    <3>1. Good(s, sup[s], "finish", "failed")
      BY <1>2, <1>3, LateIsLate
    <3>2. Holds(s, r, "finish") /\ Commands(r, "finish")
      BY <2>2, <3>1 DEF Good, Holds, Commands
    <3>3. Verified(r, "finish", "failed")
      BY <1>2 DEF Verified
    <3>. QED  BY <3>2, <3>3 DEF Good
  <2>4. UNCHANGED <<disk, locks, groups, submission, ins>>
    BY <1>1, <1>6 DEF disk
  <2>. QED  BY <1>1, <1>2, <2>2, <2>3, <2>4, MoveStep
<1>. QED  BY <1>5, <1>6 DEF Collect

LEMMA FinishTaskStep ==
  ASSUME IInv, NEW s \in Supervisors, FinishTask(s) PROVE IInv'
<1>1. /\ sup[s].pc = "finish" /\ Works(s) /\ Finish(s, sup[s].verdict)
      /\ UNCHANGED <<status, cancelFile, locks, groups, submission, ins>>
  BY DEF FinishTask, At, Works, AtRest
<1>2. "finish" \in Late /\ "finish" \notin Polled
  BY DEF Late, Polled
<1>3. /\ Holds(s, sup[s], "finish") /\ Verified(sup[s], "finish", sup[s].verdict)
      /\ sup[s] \in Supervisor
  BY <1>1, AtWork, SupervisorTyped
<1>4. sup[s].verdict \in Terminal /\ group[TaskOf(s)] \in {"none", "gone"}
  BY <1>2, <1>3 DEF Verified, Holds, TaskOf, Supervisor
<1>5. sup[s].verdict = "succeeded" =>
        /\ sup[s].mem.worker = "passed" /\ sup[s].mem.verification = "passed"
        /\ status[TaskOf(s)].phase \notin {"queued", "worker"} /\ ~EarlyCancel(TaskOf(s))
  BY <1>2, <1>3 DEF Verified, Settled, TaskOf
<1>. QED  BY <1>1, <1>4, <1>5, FinishStep

(***************************************************************************)
(* status.json is replaced, and the supervisor goes on; or that fails, and *)
(* it falls back.                                                          *)
(***************************************************************************)
LEMMA GoodCarries ==
  ASSUME NEW s, NEW p, NEW q, NEW step, NEW verdict, Good(s, p, step, verdict),
         q.task = p.task, q.mem = p.mem, q.result = p.result
  PROVE  Good(s, q, step, verdict)
<1>1. Settled(q) <=> Settled(p)
  BY DEF Settled
<1>2. Holds(s, q, step)
  BY DEF Good, Holds
<1>3. Commands(q, step)
  BY DEF Good, Commands
<1>4. Verified(q, step, verdict)
  BY <1>1 DEF Good, Verified
<1>. QED  BY <1>2, <1>3, <1>4 DEF Good

LEMMA Published ==
  ASSUME IInv, NEW s \in Supervisors, Publish(s)
  PROVE  \E r \in Supervisor :
           /\ sup' = [sup EXCEPT ![s] = r]
           /\ r.task = sup[s].task /\ r.mem = sup[s].mem /\ r.result = sup[s].result
           /\ \/ /\ r.pc = sup[s].then /\ r.verdict = sup[s].verdict
                 /\ status' = [status EXCEPT ![TaskOf(s)] = sup[s].mem]
              \/ /\ r.pc = sup[s].fallback /\ r.verdict = "failed"
                 /\ status' = status \/ status' = [status EXCEPT ![TaskOf(s)] = sup[s].mem]
<1>. DEFINE p == [sup[s] EXCEPT !.then = "idle", !.fallback = "idle"]
            w == [p EXCEPT !.pc = sup[s].then]
            f == [p EXCEPT !.pc = sup[s].fallback, !.verdict = "failed"]
<1>1. \/ /\ status' = [status EXCEPT ![TaskOf(s)] = sup[s].mem]
         /\ sup' = [sup EXCEPT ![s] = w]
      \/ /\ status' = status \/ status' = [status EXCEPT ![TaskOf(s)] = sup[s].mem]
         /\ sup' = [sup EXCEPT ![s] = f]
  BY DEF Publish
<1>2. sup[s] \in Supervisor /\ "idle" \in SupervisorStep /\ "failed" \in Terminal
  BY SupervisorTyped DEF SupervisorStep, Terminal
<1>3. /\ p \in Supervisor /\ p.task = sup[s].task /\ p.mem = sup[s].mem /\ p.result = sup[s].result
      /\ p.verdict = sup[s].verdict
  BY <1>2 DEF Supervisor
<1>. HIDE DEF p
<1>4. sup[s].then \in SupervisorStep /\ sup[s].fallback \in SupervisorStep
  BY <1>2 DEF Supervisor
<1>5. /\ w \in Supervisor /\ w.pc = sup[s].then /\ w.verdict = p.verdict
      /\ w.task = p.task /\ w.mem = p.mem /\ w.result = p.result
  BY <1>3, <1>4 DEF Supervisor
<1>6. /\ f \in Supervisor /\ f.pc = sup[s].fallback /\ f.verdict = "failed"
      /\ f.task = p.task /\ f.mem = p.mem /\ f.result = p.result
  BY <1>2, <1>3, <1>4 DEF Supervisor
<1>. HIDE DEF w, f
<1>. QED  BY <1>1, <1>3, <1>5, <1>6

LEMMA PublishStep ==
  ASSUME IInv, NEW s \in Supervisors, Publish(s) PROVE IInv'
<1>1. sup[s].pc = "publish" /\ Works(s) /\ sup[s].pc # "idle" /\ sup[s].pc \notin AtRest
  BY DEF Publish, At, Works, AtRest
<1>. PICK t \in Tasks : t = TaskOf(s)
  BY <1>1, TypedSupervisor
<1>. PICK p \in Supervisor : p = sup[s]
  BY SupervisorTyped
<1>. PICK r \in Supervisor :
       /\ sup' = [sup EXCEPT ![s] = r]
       /\ r.task = p.task /\ r.mem = p.mem /\ r.result = p.result
       /\ \/ /\ r.pc = p.then /\ r.verdict = p.verdict
             /\ status' = [status EXCEPT ![t] = p.mem]
          \/ /\ r.pc = p.fallback /\ r.verdict = "failed"
             /\ status' = status \/ status' = [status EXCEPT ![t] = p.mem]
  BY Published
<1>2. /\ TypeOK /\ TaskOK(t) /\ Fits(s, p) /\ p.task = t /\ sup \in SupervisorsTyped
      /\ p.mem \in Snapshot /\ status[t] \in Snapshot /\ status[t] # Absent
      /\ ownerLock[t] = s /\ submission[t] = "over"
  BY <1>1, TypedSupervisor, SupervisorTyped DEF SupervisorOK, TaskOf
<1>3. Written(s, p) /\ Follows(status[t], p.mem)
  BY <1>1, <1>2 DEF Fits
<1>4. /\ lastEvent' = lastEvent /\ cancelFile' = cancelFile /\ ownerLock' = ownerLock
      /\ repoLock' = repoLock /\ group' = group /\ launches' = launches
      /\ submission' = submission /\ ins' = ins
  BY DEF Publish, locks, groups
<1>5. /\ status' \in [Tasks -> Snapshot \cup {Absent}]
      /\ \A u \in Tasks \ {t} : status'[u] = status[u]
      /\ status'[t] = p.mem \/ (status'[t] = status[t] /\ r.pc = p.fallback)
  <2>1. status \in [Tasks -> Snapshot \cup {Absent}]
    BY <1>2 DEF TypeOK
  <2>. QED  BY <1>2, <2>1
<1>6. /\ sup' \in SupervisorsTyped /\ sup'[s] = r /\ \A q \in Supervisors \ {s} : sup'[q] = sup[q]
  BY Updated
<1>7. Settled(p) => Settled(p)'
  BY <1>2, <1>4, <1>5 DEF Settled, EarlyCancel
<1>8. Good(s, r, r.pc, r.verdict)'
  <2>1. Good(s, p, r.pc, r.verdict)
    BY <1>3 DEF Written
  <2>2. Good(s, p, r.pc, r.verdict)'
    BY <1>4, <1>7, <2>1, GoodStays
  <2>. QED  BY <2>2, GoodCarries DEF Good, Holds, Commands, Verified, Settled
<1>9. r.pc \in {"start_verification", "exit"} \cup Runs \cup Late
  BY <1>3, <1>8 DEF Good, Holds, Written
<1>10. r.pc \notin {"idle", "read", "publish"} \cup Early
  BY <1>9 DEF Runs, Polled, Late, Early
<1>11. /\ p.mem.state \in {"running"} \cup Terminal
       /\ p.mem.state \in Terminal => p.mem.phase = "completed" /\ r.pc = "exit"
       /\ lastEvent[t] = Event(p.mem)
       /\ p.mem.state = "succeeded" =>
            p.mem.worker = "passed" /\ p.mem.verification = "passed" /\ ~EarlyCancel(t)
  BY <1>2, <1>3 DEF Written, Rescue, Settled
<1>12. r.pc # "exit" => Follows(status'[t], r.mem)
  <2>1. CASE status'[t] = status[t]
    BY <1>3, <2>1
  <2>2. CASE status'[t] = p.mem
    <3>1. p.mem.seq \in Nat /\ Order[p.mem.phase] <= Order[p.mem.phase]
      <4>1. p.mem.phase \in Phase /\ p.mem.seq \in Nat
        BY <1>2 DEF Snapshot
      <4>. QED  BY <4>1 DEF Order, Phase
    <3>. QED  BY <1>11, <2>2, <3>1 DEF Follows
  <2>. QED  BY <1>5, <2>1, <2>2
<1>13. r.pc = "spawn" => status'[t] = r.mem
  BY <1>3, <1>5 DEF Written
<1>14. status'[t] # Absent /\ (status[t].state \notin {"absent", "queued"} =>
                                status'[t].state \notin {"absent", "queued"})
  BY <1>2, <1>5, <1>11 DEF Absent, Terminal
<1>15. Fits(s, r)'
  <2>1. CASE r.pc = "exit"
    BY <1>2, <1>4, <1>14, <2>1 DEF Fits, AtRest
  <2>2. CASE r.pc # "exit"
    BY <1>2, <1>4, <1>8, <1>10, <1>12, <1>13, <1>14, <2>2 DEF Fits, Follows
  <2>. QED  BY <2>1, <2>2
<1>16. SupervisorOK(s)' /\ TaskOf(s)' = t /\ sup'[s].task = t
  BY <1>2, <1>6, <1>15 DEF SupervisorOK, TaskOf
<1>17. TypeOK'
  BY <1>2, <1>4, <1>5, <1>6 DEF TypeOK, Supervisor, SupervisorsTyped
<1>18. TaskOK(t)'
  <2>1. group[t] = "running" => Works(s)' /\ Stage(s)' \in Polled
    <3>1. group[t] = "running" => r.pc \in Polled
      BY <1>2, <1>4, <1>8 DEF Good, Holds
    <3>. QED  BY <1>6, <3>1 DEF Works, Stage, AtRest, Polled
  <2>2. CASE status'[t] = status[t]
    BY <1>2, <1>4, <1>16, <2>1, <2>2 DEF TaskOK, EarlyCancel
  <2>3. CASE status'[t] = p.mem
    <3>1. p.mem.state \in Terminal => group[t] \in {"none", "gone"}
      BY <1>2, <1>4, <1>8, <1>11 DEF Good, Holds, Polled
    <3>2. launches[t].verification # 0 => p.mem.phase \notin {"queued", "worker"}
      <4>1. launches[t].verification # 0 => Order[status[t].phase] >= 2
        BY <1>2 DEF TaskOK, Order, Snapshot, Phase
      <4>2. Order[status[t].phase] \in Nat /\ Order[p.mem.phase] \in Nat
        <5>1. status[t].phase \in Phase /\ p.mem.phase \in Phase
          BY <1>2 DEF Snapshot
        <5>. QED  BY <5>1 DEF Order, Phase
      <4>3. Order["queued"] = 0 /\ Order["worker"] = 1
        BY DEF Order
      <4>. QED  BY <1>3, <4>1, <4>2, <4>3 DEF Follows
    <3>3. p.mem.state \notin {"absent", "queued"} /\ EarlyCancel(t)' = EarlyCancel(t)
      BY <1>4, <1>11 DEF Terminal, EarlyCancel
    <3>. QED  BY <1>2, <1>4, <1>11, <1>16, <2>1, <2>3, <3>1, <3>2, <3>3 DEF TaskOK
  <2>. QED  BY <1>5, <2>2, <2>3
<1>. QED  BY <1>1, <1>4, <1>5, <1>6, <1>14, <1>16, <1>17, <1>18, SupervisorFrame

-----------------------------------------------------------------------------
(***************************************************************************)
(* The steps that start and end an execution.                              *)
(***************************************************************************)
LEMMA OneSupervisor ==
  ASSUME IInv, NEW r \in Supervisors, NEW s \in Supervisors, r # s,
         sup[r].pc # "idle", sup[s].pc # "idle"
  PROVE  TaskOf(r) # TaskOf(s)
BY TypedSupervisor

LEMMA IdleTyped == IdleSupervisor \in Supervisor
BY TaskAssumption DEF Supervisor, IdleSupervisor, Absent, SupervisorStep, Result, Terminal

LEMMA Stopped ==
  ASSUME IInv, NEW s \in Supervisors, sup[s].pc # "idle",
         sup' = [sup EXCEPT ![s] = IdleSupervisor], DropLocks(s),
         UNCHANGED <<disk, launches, submission, ins>>,
         \/ sup[s].pc = "exit" /\ group' = group
         \/ group' = [group EXCEPT ![TaskOf(s)] = IF @ = "running" THEN "orphan" ELSE @]
  PROVE  IInv'
<1>. PICK t \in Tasks : t = TaskOf(s)
  BY TypedSupervisor
<1>1. sup \in SupervisorsTyped /\ TypeOK
  BY SupervisorTyped
<1>2. /\ sup' \in SupervisorsTyped /\ sup'[s] = IdleSupervisor
      /\ \A q \in Supervisors \ {s} : sup'[q] = sup[q]
  BY IdleTyped, Updated
<1>3. /\ group' \in [Tasks -> {"none", "running", "gone", "orphan"}]
      /\ \A u \in Tasks \ {t} : group'[u] = group[u]
      /\ sup[s].pc # "exit" => group'[t] # "running"
      /\ group'[t] = group[t] \/ (group[t] = "running" /\ group'[t] = "orphan")
  <2>1. group \in [Tasks -> {"none", "running", "gone", "orphan"}]
    BY <1>1 DEF TypeOK
  <2>2. CASE sup[s].pc = "exit" /\ group' = group
    BY <2>1, <2>2
  <2>3. CASE group' = [group EXCEPT ![t] = IF group[t] = "running" THEN "orphan" ELSE group[t]]
    BY <2>1, <2>3
  <2>. QED  BY <2>2, <2>3
<1>4. /\ ownerLock' \in [Tasks -> Supervisors \cup Inspectors \cup {Nobody}]
      /\ repoLock' \in Supervisors \cup {Nobody}
      /\ \A u \in Tasks : ownerLock[u] # s => ownerLock'[u] = ownerLock[u]
      /\ repoLock # s => repoLock' = repoLock
  BY <1>1 DEF DropLocks, TypeOK
<1>5. TypeOK'
  BY <1>1, <1>2, <1>3, <1>4 DEF TypeOK, disk, Supervisor, SupervisorsTyped
<1>6. /\ status' = status /\ lastEvent' = lastEvent /\ cancelFile' = cancelFile
      /\ launches' = launches /\ submission' = submission /\ ins' = ins
  BY DEF disk
<1>7. ASSUME NEW r \in Supervisors PROVE SupervisorOK(r)'
  <2>1. CASE r = s
    BY <1>2, <2>1 DEF SupervisorOK, Fits, AtRest, IdleSupervisor
  <2>2. CASE r # s
    <3>. PICK p \in Supervisor : p = sup[r]
      BY SupervisorTyped
    <3>1. Fits(r, p) /\ sup'[r] = p /\ (repoLock = r => repoLock' = r)
      BY <1>2, <1>4, <2>2 DEF IInv, SupervisorOK
    <3>2. p.pc # "idle" => p.task \in Tasks /\ p.task # t /\ ownerLock[p.task] = r
      BY <2>2, OneSupervisor, TypedSupervisor
    <3>3. \A u \in Tasks : EarlyCancel(u)' = EarlyCancel(u)
      BY <1>6 DEF EarlyCancel
    <3>4. Fits(r, p)'
      BY <1>3, <1>4, <1>6, <2>2, <3>1, <3>2, <3>3, FitsStays
    <3>. QED  BY <3>1, <3>4 DEF SupervisorOK
  <2>. QED  BY <2>1, <2>2
<1>8. ASSUME NEW u \in Tasks PROVE TaskOK(u)'
  <2>1. /\ TaskOK(u) /\ EarlyCancel(u)' = EarlyCancel(u)
        /\ group'[u] = group[u] \/ (group[u] = "running" /\ group'[u] = "orphan")
    BY <1>3, <1>6 DEF IInv, EarlyCancel
  <2>2. ASSUME group'[u] = "running"
        PROVE  \E r \in Supervisors : (TaskOf(r) = u /\ Works(r) /\ Stage(r) \in Polled)'
    <3>. PICK r \in Supervisors : TaskOf(r) = u /\ Works(r) /\ Stage(r) \in Polled
      BY <2>1, <2>2 DEF TaskOK
    <3>1. r # s
      BY <1>3, <2>2 DEF Works, AtRest
    <3>. QED  BY <1>2, <3>1 DEF TaskOf, Works, Stage
  <2>. QED  BY <1>6, <2>1, <2>2 DEF TaskOK
<1>9. ASSUME NEW i \in Inspectors PROVE InspectorOK(i)'
  <2>1. InspectorOK(i) /\ i # s
    BY TaskAssumption DEF IInv
  <2>2. ins[i].pc = "release" => ownerLock'[ins[i].task] = i
    BY <1>4, <2>1 DEF InspectorOK
  <2>3. ASSUME NEW r \in Supervisors, Works(r)' PROVE Works(r) /\ TaskOf(r)' = TaskOf(r)
    BY <1>2, <2>3 DEF Works, AtRest, TaskOf, IdleSupervisor
  <2>4. ~Executing(ins[i].task) => ~Executing(ins[i].task)'
    BY <1>6, <2>3 DEF Executing, Works, AtRest
  <2>. QED  BY <1>6, <2>1, <2>2, <2>4 DEF InspectorOK
<1>. QED  BY <1>5, <1>7, <1>8, <1>9 DEF IInv

LEMMA ExitStep ==
  ASSUME IInv, NEW s \in Supervisors, Exit(s) PROVE IInv'
BY Stopped DEF Exit, At, groups

LEMMA CrashStep ==
  ASSUME IInv, NEW s \in Supervisors, Crash(s) PROVE IInv'
BY Stopped DEF Crash, At

LEMMA BeginStep ==
  ASSUME IInv, NEW s \in Supervisors, NEW t \in Tasks, Begin(s, t) PROVE IInv'
<1>1. /\ sup \in SupervisorsTyped /\ TypeOK /\ "read" \in SupervisorStep
  BY SupervisorTyped DEF SupervisorStep
<1>2. [IdleSupervisor EXCEPT !.pc = "read", !.task = t] \in Supervisor
  BY <1>1, IdleTyped DEF Supervisor
<1>. PICK r \in Supervisor : r = [IdleSupervisor EXCEPT !.pc = "read", !.task = t]
  BY <1>2
<1>3. sup' = [sup EXCEPT ![s] = r] /\ r.pc = "read" /\ r.task = t
  BY IdleTyped DEF Begin, Supervisor
<1>4. sup' \in SupervisorsTyped /\ sup'[s] = r /\ \A q \in Supervisors \ {s} : sup'[q] = sup[q]
  BY <1>3, Updated
<1>5. /\ sup[s].pc = "idle" /\ status[t] # Absent /\ submission[t] = "over"
      /\ ownerLock[t] = Nobody /\ ownerLock' = [ownerLock EXCEPT ![t] = s]
      /\ status' = status /\ lastEvent' = lastEvent /\ cancelFile' = cancelFile
      /\ repoLock' = repoLock /\ group' = group /\ launches' = launches
      /\ submission' = submission /\ ins' = ins
  BY DEF Begin, At, disk, groups
<1>6. /\ ownerLock' \in [Tasks -> Supervisors \cup Inspectors \cup {Nobody}] /\ ownerLock'[t] = s
      /\ \A u \in Tasks \ {t} : ownerLock'[u] = ownerLock[u]
  BY <1>1, <1>5 DEF TypeOK
<1>7. TypeOK'
  BY <1>1, <1>4, <1>5, <1>6 DEF TypeOK, Supervisor, SupervisorsTyped
<1>8. ASSUME NEW q \in Supervisors PROVE SupervisorOK(q)'
  <2>1. CASE q = s
    BY <1>3, <1>4, <1>5, <1>6, <2>1 DEF SupervisorOK, Fits, AtRest
  <2>2. CASE q # s
    <3>. PICK p \in Supervisor : p = sup[q]
      BY SupervisorTyped
    <3>1. Fits(q, p) /\ sup'[q] = p /\ q # Nobody
      BY <1>4, <2>2, TaskAssumption DEF IInv, SupervisorOK
    <3>2. p.pc # "idle" => p.task \in Tasks /\ p.task # t
      BY <1>5, <3>1 DEF Fits
    <3>3. \A u \in Tasks : EarlyCancel(u)' = EarlyCancel(u)
      BY <1>5 DEF EarlyCancel
    <3>4. Fits(q, p)'
      BY <1>5, <1>6, <3>1, <3>2, <3>3, FitsStays
    <3>. QED  BY <3>1, <3>4 DEF SupervisorOK
  <2>. QED  BY <2>1, <2>2
<1>9. ASSUME NEW u \in Tasks PROVE TaskOK(u)'
  <2>1. TaskOK(u) /\ EarlyCancel(u)' = EarlyCancel(u)
    BY <1>5 DEF IInv, EarlyCancel
  <2>2. ASSUME group[u] = "running"
        PROVE  \E q \in Supervisors : (TaskOf(q) = u /\ Works(q) /\ Stage(q) \in Polled)'
    <3>. PICK q \in Supervisors : TaskOf(q) = u /\ Works(q) /\ Stage(q) \in Polled
      BY <2>1, <2>2 DEF TaskOK
    <3>1. q # s
      BY <1>5 DEF Works, AtRest
    <3>. QED  BY <1>4, <3>1 DEF TaskOf, Works, Stage
  <2>. QED  BY <1>5, <2>1, <2>2 DEF TaskOK
<1>10. ASSUME NEW i \in Inspectors PROVE InspectorOK(i)'
  <2>1. InspectorOK(i) /\ i # Nobody
    BY TaskAssumption DEF IInv
  <2>2. ins[i].pc = "release" => ownerLock'[ins[i].task] = i
    BY <1>5, <1>6, <2>1 DEF InspectorOK
  <2>3. ASSUME NEW q \in Supervisors, Works(q)' PROVE Works(q) /\ TaskOf(q)' = TaskOf(q)
    BY <1>3, <1>4, <2>3 DEF Works, AtRest, TaskOf
  <2>4. ~Executing(ins[i].task) => ~Executing(ins[i].task)'
    BY <1>5, <2>3 DEF Executing, Works, AtRest
  <2>. QED  BY <1>5, <2>1, <2>2, <2>4 DEF InspectorOK
<1>. QED  BY <1>7, <1>8, <1>9, <1>10 DEF IInv

(***************************************************************************)
(* Steps that touch one task nobody executes.                              *)
(***************************************************************************)
LEMMA IdleTask ==
  ASSUME IInv, TypeOK', NEW t \in Tasks, TaskOK(t)',
         \A s \in Supervisors : Works(s) => TaskOf(s) # t,
         \/ \A s \in Supervisors : sup[s].pc # "idle" => TaskOf(s) # t
         \/ status' = status /\ submission' = submission,
         \A u \in Tasks \ {t} :
           /\ status'[u] = status[u] /\ lastEvent'[u] = lastEvent[u] /\ group'[u] = group[u]
           /\ submission'[u] = submission[u],
         status'[t].state \in {"absent", "queued"} => status[t].state \in {"absent", "queued"},
         UNCHANGED <<cancelFile, locks, launches, sup, ins>>
  PROVE  IInv'
<1>. /\ cancelFile' = cancelFile /\ ownerLock' = ownerLock /\ repoLock' = repoLock
     /\ launches' = launches /\ sup' = sup /\ ins' = ins
  BY DEF locks
<1>1. ASSUME NEW r \in Supervisors PROVE SupervisorOK(r)'
  <2>. PICK p \in Supervisor : p = sup[r]
    BY SupervisorTyped
  <2>1. Fits(r, p) /\ sup'[r] = p
    BY DEF IInv, SupervisorOK
  <2>2. CASE p.pc \in AtRest
    <3>1. p.pc # "idle" => p.task \in Tasks
      BY <2>1 DEF Fits
    <3>2. p.pc # "idle" =>
            status'[p.task] = status[p.task] /\ submission'[p.task] = submission[p.task]
      BY <3>1 DEF TaskOf
    <3>3. Fits(r, p)'
      BY <2>1, <2>2, <3>2 DEF Fits, AtRest
    <3>. QED  BY <2>1, <3>3 DEF SupervisorOK
  <2>3. CASE p.pc \notin AtRest
    <3>1. p.task \in Tasks \ {t}
      BY <2>1, <2>3 DEF Fits, AtRest, Works, TaskOf
    <3>2. EarlyCancel(p.task)' = EarlyCancel(p.task)
      BY DEF EarlyCancel
    <3>3. Fits(r, p)'
      BY <2>1, <3>1, <3>2, FitsStays
    <3>. QED  BY <2>1, <3>3 DEF SupervisorOK
  <2>. QED  BY <2>2, <2>3
<1>2. ASSUME NEW u \in Tasks, u # t PROVE TaskOK(u)'
  <2>1. TaskOK(u) /\ EarlyCancel(u)' = EarlyCancel(u)
    BY DEF IInv, EarlyCancel
  <2>2. \A r \in Supervisors :
          TaskOf(r)' = TaskOf(r) /\ Works(r)' = Works(r) /\ Stage(r)' = Stage(r)
    BY DEF TaskOf, Works, Stage
  <2>. QED  BY <1>2, <2>1, <2>2 DEF TaskOK
<1>3. ASSUME NEW i \in Inspectors PROVE InspectorOK(i)'
  <2>1. InspectorOK(i)
    BY DEF IInv
  <2>2. Executing(ins[i].task)' <=> Executing(ins[i].task)
    BY DEF Executing, TaskOf
  <2>3. ins[i].task \in Tasks /\ status[ins[i].task].state \notin {"absent", "queued"} =>
          status'[ins[i].task].state \notin {"absent", "queued"}
    OBVIOUS
  <2>. QED  BY <2>1, <2>2, <2>3 DEF InspectorOK
<1>. QED  BY <1>1, <1>2, <1>3 DEF IInv

LEMMA OrphanEndsStep ==
  ASSUME IInv, NEW t \in Tasks, OrphanEnds(t) PROVE IInv'
<1>1. /\ group[t] = "orphan" /\ group' = [group EXCEPT ![t] = "gone"]
      /\ status' = status /\ lastEvent' = lastEvent /\ submission' = submission
      /\ UNCHANGED <<cancelFile, locks, launches, sup, ins>>
  BY DEF OrphanEnds, disk
<1>2. /\ group' \in [Tasks -> {"none", "running", "gone", "orphan"}] /\ group'[t] = "gone"
      /\ \A u \in Tasks \ {t} : group'[u] = group[u]
  BY <1>1 DEF IInv, TypeOK
<1>3. TypeOK'
  BY <1>1, <1>2 DEF IInv, TypeOK, locks
<1>4. TaskOK(t)'
  <2>1. TaskOK(t) /\ EarlyCancel(t)' = EarlyCancel(t)
    BY <1>1 DEF IInv, EarlyCancel
  <2>. QED  BY <1>1, <1>2, <2>1 DEF TaskOK, Terminal
<1>5. ASSUME NEW s \in Supervisors, Works(s) PROVE TaskOf(s) # t
  <2>1. Fits(s, sup[s]) /\ sup[s].pc \notin AtRest
    BY <1>5 DEF IInv, SupervisorOK, Works
  <2>2. CASE sup[s].pc = "publish"
    <3>1. Holds(s, sup[s], sup[s].then)
      BY <2>1, <2>2 DEF Fits, Written, Good
    <3>. QED  BY <1>1, <3>1 DEF Holds, TaskOf
  <2>3. CASE sup[s].pc # "publish"
    <3>1. Holds(s, sup[s], sup[s].pc)
      BY <2>1, <2>3 DEF Fits, Good
    <3>. QED  BY <1>1, <3>1 DEF Holds, TaskOf
  <2>. QED  BY <2>2, <2>3
<1>. QED  BY <1>1, <1>2, <1>3, <1>4, <1>5, IdleTask

(***************************************************************************)
(* The steps of submit: nobody executes the task before it is over.        *)
(***************************************************************************)
LEMMA Submissions ==
  /\ Queued \in Snapshot /\ Refused \in Snapshot
  /\ Queued.state = "queued" /\ Queued.phase = "queued" /\ Queued.seq = 1
  /\ Refused.state = "failed" /\ Refused.phase = "completed" /\ Refused.seq = 2
  /\ Absent.state = "absent" /\ Absent.seq = 0 /\ Queued # Absent
  /\ Event(Queued).seq = 1 /\ Event(Refused).seq = 2
  /\ {"absent", "queued"} \cap Terminal = {}
<1>1. /\ Queued \in Snapshot /\ Queued.state = "queued" /\ Queued.phase = "queued" /\ Queued.seq = 1
      /\ Absent.state = "absent" /\ Absent.seq = 0 /\ Queued # Absent
  BY DEF Queued, Absent, Snapshot, State, Phase, Result, Terminal
<1>2. /\ Refused \in Snapshot /\ Refused.state = "failed" /\ Refused.phase = "completed"
      /\ Refused.seq = 2
  BY DEF Refused, Absent, Snapshot, State, Phase, Result, Terminal
<1>3. {"absent", "queued"} \cap Terminal = {}
  BY DEF Terminal
<1>. QED  BY <1>1, <1>2, <1>3 DEF Event

LEMMA Submitting ==
  ASSUME IInv, NEW t \in Tasks, submission[t] # "over",
         NEW m \in {Queued, Refused},
         NEW step \in {"queued", "spawn", "refused", "failed", "over"},
         ContinueSubmit(t, step),
         status' \in {status, [status EXCEPT ![t] = m]},
         lastEvent' \in {lastEvent, [lastEvent EXCEPT ![t] = Event(m)]},
         UNCHANGED <<cancelFile, locks, groups, sup, ins>>,
         /\ status'[t].state = "queued" => status'[t] = Queued
         /\ status'[t].state = "absent" => status[t].state = "absent"
         /\ \/ lastEvent'[t] = Event(status'[t])
            \/ lastEvent'[t].seq > status'[t].seq /\ status'[t].state \notin Terminal
         /\ step = "queued" => status'[t] = Absent /\ lastEvent'[t] = Event(Queued)
         /\ step \in {"spawn", "refused", "failed"} => status'[t] = Queued
         /\ step = "failed" => lastEvent'[t] = Event(Refused)
  PROVE  IInv'
<1>. /\ cancelFile' = cancelFile /\ ownerLock' = ownerLock /\ repoLock' = repoLock
     /\ group' = group /\ launches' = launches /\ sup' = sup /\ ins' = ins
  BY DEF locks, groups
<1>1. /\ m \in Snapshot /\ m.state \in {"queued", "failed"} /\ m.phase \in {"queued", "completed"}
      /\ m.state = "failed" => m.phase = "completed"
      /\ Event(m) \in [seq : Nat, state : State \cup {"absent"}]
  <2>1. /\ m \in Snapshot /\ m.state \in {"queued", "failed"} /\ m.phase \in {"queued", "completed"}
        /\ m.state = "failed" => m.phase = "completed"
    BY Submissions
  <2>2. m.seq \in Nat /\ m.state \in State
    BY <2>1 DEF Snapshot
  <2>. QED  BY <2>1, <2>2 DEF Event
<1>2. TypeOK /\ TaskOK(t)
  BY DEF IInv
<1>3. /\ status' \in [Tasks -> Snapshot \cup {Absent}] /\ status'[t] \in {status[t], m}
      /\ \A u \in Tasks \ {t} : status'[u] = status[u]
  BY <1>1, <1>2 DEF TypeOK
<1>4. /\ lastEvent' \in [Tasks -> [seq : Nat, state : State \cup {"absent"}]]
      /\ \A u \in Tasks \ {t} : lastEvent'[u] = lastEvent[u]
  BY <1>1, <1>2 DEF TypeOK
<1>5. /\ submission' \in [Tasks -> {"new", "queued", "spawn", "refused", "failed", "over"}]
      /\ submission'[t] = step
      /\ \A u \in Tasks \ {t} : submission'[u] = submission[u]
  BY <1>2 DEF ContinueSubmit, TypeOK
<1>6. TypeOK'
  BY <1>2, <1>3, <1>4, <1>5 DEF TypeOK
<1>7. ASSUME NEW s \in Supervisors, sup[s].pc # "idle" PROVE TaskOf(s) # t
  BY <1>7, TypedSupervisor
<1>8. /\ group[t] = "none" /\ launches[t] = [worker |-> 0, verification |-> 0]
      /\ status[t].state \in {"absent", "queued"}
  <2>1. submission[t] \in {"new", "queued", "spawn", "refused", "failed"}
    BY <1>2 DEF TypeOK
  <2>2. status[t] \in {Absent, Queued}
    BY <1>2, <2>1 DEF TaskOK
  <2>3. status[t].state \in {"absent", "queued"}
    BY <2>2, Submissions
  <2>. QED  BY <1>2, <2>3 DEF TaskOK
<1>9. TaskOK(t)'
  <2>1. status'[t].state \in {"absent", "queued", "failed"}
    BY <1>1, <1>3, <1>8
  <2>2. status'[t].state = "failed" => status'[t].phase = "completed"
    BY <1>1, <1>3, <1>8
  <2>. QED  BY <1>5, <1>8, <2>1, <2>2 DEF TaskOK, Terminal
<1>10. status'[t].state \in {"absent", "queued"} => status[t].state \in {"absent", "queued"}
  BY <1>8
<1>11. \A s \in Supervisors : Works(s) => TaskOf(s) # t
  BY <1>7 DEF Works, AtRest
<1>. QED  BY <1>3, <1>4, <1>5, <1>6, <1>7, <1>9, <1>10, <1>11, IdleTask

LEMMA SubmitStep ==
  ASSUME IInv, NEW t \in Tasks, Submit(t) PROVE IInv'
<1>1. TaskOK(t) /\ TypeOK
  BY DEF IInv
<1>2. /\ \A m : [lastEvent EXCEPT ![t] = Event(m)][t] = Event(m)
      /\ \A m : [status EXCEPT ![t] = m][t] = m
  BY <1>1 DEF TypeOK
<1>3. CASE AppendSubmission(t, "new", Queued, "queued")
  <2>1. /\ submission[t] = "new" /\ status' = status /\ UNCHANGED <<cancelFile, locks, groups, sup, ins>>
        /\ \/ lastEvent' = [lastEvent EXCEPT ![t] = Event(Queued)] /\ ContinueSubmit(t, "queued")
           \/ lastEvent' = lastEvent /\ ContinueSubmit(t, "over")
    BY <1>3 DEF AppendSubmission
  <2>2. status[t] = Absent
    BY <1>1, <2>1 DEF TaskOK
  <2>3. CASE lastEvent' = [lastEvent EXCEPT ![t] = Event(Queued)] /\ ContinueSubmit(t, "queued")
    <3>1. lastEvent'[t] = Event(Queued) /\ status'[t] = Absent
      BY <1>2, <2>1, <2>2, <2>3
    <3>2. /\ lastEvent'[t].seq > status'[t].seq /\ status'[t].state \notin Terminal
          /\ status'[t].state = "queued" => status'[t] = Queued
          /\ status'[t].state = "absent" => status[t].state = "absent"
      BY <2>2, <3>1, Submissions
    <3>3. /\ status' \in {status, [status EXCEPT ![t] = Queued]}
          /\ lastEvent' \in {lastEvent, [lastEvent EXCEPT ![t] = Event(Queued)]}
      BY <2>1, <2>3
    <3>. QED  BY <2>1, <2>3, <3>1, <3>2, <3>3, Submissions, Submitting
  <2>4. CASE lastEvent' = lastEvent /\ ContinueSubmit(t, "over")
    BY <1>1, <2>1, <2>2, <2>4, Submissions, Submitting DEF TaskOK
  <2>. QED  BY <2>1, <2>3, <2>4
<1>4. CASE PublishSubmission(t, "queued", Queued, "spawn")
  <2>1. /\ submission[t] = "queued" /\ lastEvent' = lastEvent
        /\ UNCHANGED <<cancelFile, locks, groups, sup, ins>>
        /\ \/ status' = [status EXCEPT ![t] = Queued] /\ ContinueSubmit(t, "spawn")
           \/ status' = status /\ ContinueSubmit(t, "over")
    BY <1>4 DEF PublishSubmission
  <2>2. status[t] = Absent /\ lastEvent[t] = Event(Queued)
    BY <1>1, <2>1 DEF TaskOK
  <2>3. CASE status' = [status EXCEPT ![t] = Queued] /\ ContinueSubmit(t, "spawn")
    BY <1>2, <2>1, <2>2, <2>3, Submissions, Submitting
  <2>4. CASE status' = status /\ ContinueSubmit(t, "over")
    BY <2>1, <2>2, <2>4, Submissions, Submitting
  <2>. QED  BY <2>1, <2>3, <2>4
<1>5. CASE AppendSubmission(t, "refused", Refused, "failed")
  <2>1. /\ submission[t] = "refused" /\ status' = status
        /\ UNCHANGED <<cancelFile, locks, groups, sup, ins>>
        /\ \/ lastEvent' = [lastEvent EXCEPT ![t] = Event(Refused)] /\ ContinueSubmit(t, "failed")
           \/ lastEvent' = lastEvent /\ ContinueSubmit(t, "over")
    BY <1>5 DEF AppendSubmission
  <2>2. status[t] = Queued
    BY <1>1, <2>1 DEF TaskOK
  <2>3. CASE lastEvent' = [lastEvent EXCEPT ![t] = Event(Refused)] /\ ContinueSubmit(t, "failed")
    <3>1. lastEvent'[t] = Event(Refused) /\ status'[t] = Queued
      BY <1>2, <2>1, <2>2, <2>3
    <3>2. /\ lastEvent'[t].seq > status'[t].seq /\ status'[t].state \notin Terminal
          /\ status'[t].state = "queued" => status'[t] = Queued
          /\ status'[t].state = "absent" => status[t].state = "absent"
      BY <2>2, <3>1, Submissions
    <3>3. /\ status' \in {status, [status EXCEPT ![t] = Refused]}
          /\ lastEvent' \in {lastEvent, [lastEvent EXCEPT ![t] = Event(Refused)]}
      BY <2>1, <2>3
    <3>. QED  BY <2>1, <2>3, <3>1, <3>2, <3>3, Submissions, Submitting
  <2>4. CASE lastEvent' = lastEvent /\ ContinueSubmit(t, "over")
    BY <1>1, <2>1, <2>2, <2>4, Submissions, Submitting DEF TaskOK
  <2>. QED  BY <2>1, <2>3, <2>4
<1>6. CASE PublishSubmission(t, "failed", Refused, "over")
  <2>1. /\ submission[t] = "failed" /\ lastEvent' = lastEvent /\ ContinueSubmit(t, "over")
        /\ UNCHANGED <<cancelFile, locks, groups, sup, ins>>
        /\ status' \in {status, [status EXCEPT ![t] = Refused]}
    BY <1>6 DEF PublishSubmission
  <2>2. status[t] = Queued /\ lastEvent[t] = Event(Refused)
    BY <1>1, <2>1 DEF TaskOK
  <2>3. status'[t] \in {Queued, Refused}
    BY <1>2, <2>1, <2>2
  <2>. QED  BY <2>1, <2>2, <2>3, Submissions, Submitting
<1>. QED  BY <1>3, <1>4, <1>5, <1>6 DEF Submit

LEMMA SubmitEndsStep ==
  ASSUME IInv, NEW t \in Tasks, SpawnSupervisor(t) \/ SubmitterDies(t) PROVE IInv'
<1>1. TaskOK(t) /\ TypeOK
  BY DEF IInv
<1>2. /\ submission[t] \in {"queued", "spawn", "refused", "failed"}
      /\ ContinueSubmit(t, "over") \/ (submission[t] = "spawn" /\ ContinueSubmit(t, "refused"))
      /\ status' = status /\ lastEvent' = lastEvent
      /\ UNCHANGED <<cancelFile, locks, groups, sup, ins>>
  BY <1>1 DEF SpawnSupervisor, SubmitterDies, disk, TypeOK
<1>3. submission[t] = "spawn" => status[t] = Queued
  BY <1>1 DEF TaskOK
<1>4. /\ status[t].state = "queued" => status[t] = Queued
      /\ \/ lastEvent[t] = Event(status[t])
         \/ lastEvent[t].seq > status[t].seq /\ status[t].state \notin Terminal
  BY <1>1 DEF TaskOK
<1>. QED  BY <1>2, <1>3, <1>4, Submitting

(***************************************************************************)
(* A signal changes nothing that the invariant speaks of.                  *)
(***************************************************************************)
LEMMA InterruptStep ==
  ASSUME IInv, NEW s \in Supervisors, Interrupt(s) PROVE IInv'
<1>1. /\ sup[s].pc # "idle" /\ UNCHANGED <<disk, locks, groups, submission, ins>>
      /\ sup' = [sup EXCEPT ![s].interrupted = TRUE]
  BY DEF Interrupt
<1>. PICK t \in Tasks : t = TaskOf(s)
  BY <1>1, TypedSupervisor
<1>. PICK p \in Supervisor : p = sup[s]
  BY SupervisorTyped
<1>2. [p EXCEPT !.interrupted = TRUE] \in Supervisor
  BY DEF Supervisor
<1>. PICK r \in Supervisor : r = [p EXCEPT !.interrupted = TRUE]
  BY <1>2
<1>3. /\ r.pc = p.pc /\ r.task = p.task /\ r.mem = p.mem /\ r.then = p.then
      /\ r.fallback = p.fallback /\ r.result = p.result /\ r.verdict = p.verdict
  BY DEF Supervisor
<1>4. sup' = [sup EXCEPT ![s] = r]
  BY <1>1, SupervisorTyped DEF SupervisorsTyped
<1>5. sup' \in SupervisorsTyped /\ sup'[s] = r /\ \A q \in Supervisors \ {s} : sup'[q] = sup[q]
  BY <1>4, Updated
<1>6. /\ status' = status /\ lastEvent' = lastEvent /\ cancelFile' = cancelFile
      /\ ownerLock' = ownerLock /\ repoLock' = repoLock /\ group' = group /\ launches' = launches
      /\ submission' = submission /\ ins' = ins
  BY <1>1 DEF disk, locks, groups
<1>7. TypeOK'
  BY <1>5, <1>6, SupervisorTyped DEF TypeOK, Supervisor, SupervisorsTyped
<1>8. Fits(s, r)
  <2>1. Fits(s, p)
    BY DEF IInv, SupervisorOK
  <2>2. ASSUME NEW step, NEW verdict, Good(s, p, step, verdict) PROVE Good(s, r, step, verdict)
    <3>1. r.task = p.task /\ r.mem = p.mem /\ r.result = p.result
      BY <1>3
    <3>. QED  BY <2>2, <3>1, GoodCarries
  <2>3. Settled(r) <=> Settled(p)
    BY <1>3 DEF Settled
  <2>4. p.pc = "publish" => Written(s, r)
    BY <1>3, <2>1, <2>2, <2>3 DEF Fits, Written
  <2>. QED  BY <1>3, <2>1, <2>2, <2>4 DEF Fits
<1>9. Fits(s, r)'
  BY <1>6, <1>8, FitsStays DEF EarlyCancel
<1>10. SupervisorOK(s)' /\ TaskOf(s) = TaskOf(s)' /\ Works(s)' = Works(s) /\ Stage(s)' = Stage(s)
  BY <1>3, <1>5, <1>9 DEF SupervisorOK, TaskOf, Works, Stage
<1>11. TaskOK(t)'
  <2>1. TaskOK(t) /\ EarlyCancel(t)' = EarlyCancel(t)
    BY <1>6 DEF IInv, EarlyCancel
  <2>2. \A q \in Supervisors :
          TaskOf(q)' = TaskOf(q) /\ Stage(q)' = Stage(q) /\ Works(q)' = Works(q)
    BY <1>5, <1>10 DEF TaskOf, Stage, Works
  <2>. QED  BY <1>6, <2>1, <2>2 DEF TaskOK
<1>12. sup'[s].task = t
  BY <1>10 DEF TaskOf
<1>. QED  BY <1>1, <1>5, <1>6, <1>7, <1>10, <1>11, <1>12, SupervisorFrame
-----------------------------------------------------------------------------
(***************************************************************************)
(* An inspector takes and returns free owner locks only, and what it asks  *)
(* for does not contradict what was verified before.                       *)
(***************************************************************************)
LEMMA InspectorFrame ==
  ASSUME IInv, TypeOK', NEW i \in Inspectors, InspectorOK(i)',
         \A j \in Inspectors \ {i} : ins'[j] = ins[j],
         \A t \in Tasks : ownerLock'[t] = ownerLock[t] \/ ownerLock[t] \in {Nobody, i},
         \A t \in Tasks : cancelFile'[t] = cancelFile[t] \/ cancelFile'[t] = PhaseOnDisk(t),
         UNCHANGED <<status, lastEvent, repoLock, groups, submission, sup>>
  PROVE  IInv'
<1>1. \A t \in Tasks : EarlyCancel(t)' => EarlyCancel(t) \/ status[t].phase \in {"queued", "worker"}
  BY DEF EarlyCancel, PhaseOnDisk
<1>2. \A s \in Supervisors :
        TaskOf(s)' = TaskOf(s) /\ Stage(s)' = Stage(s) /\ Works(s)' = Works(s)
  BY DEF TaskOf, Stage, Works
<1>3. status' = status /\ lastEvent' = lastEvent /\ repoLock' = repoLock /\ sup' = sup
      /\ group' = group /\ launches' = launches /\ submission' = submission
  BY DEF groups
<1>4. ASSUME NEW s \in Supervisors PROVE SupervisorOK(s)'
  <2>. PICK p \in Supervisor : p = sup[s]
    BY SupervisorTyped
  <2>1. Fits(s, p) /\ sup'[s] = p /\ s # Nobody /\ s # i
    BY <1>3, TaskAssumption DEF IInv, SupervisorOK
  <2>2. p.pc # "idle" => p.task \in Tasks /\ ownerLock'[p.task] = ownerLock[p.task]
    BY <2>1 DEF Fits
  <2>3. Fits(s, p)'
    BY <1>1, <1>3, <2>1, <2>2, FitsStays
  <2>. QED  BY <2>1, <2>3 DEF SupervisorOK
<1>5. ASSUME NEW t \in Tasks PROVE TaskOK(t)'
  <2>1. TaskOK(t)
    BY DEF IInv
  <2>2. status[t].state = "succeeded" => ~EarlyCancel(t)'
    BY <1>1, <2>1 DEF TaskOK, Terminal
  <2>. QED  BY <1>2, <1>3, <2>1, <2>2 DEF TaskOK
<1>6. ASSUME NEW j \in Inspectors, j # i PROVE InspectorOK(j)'
  <2>1. InspectorOK(j) /\ ins'[j] = ins[j] /\ j # Nobody
    BY <1>6, TaskAssumption DEF IInv
  <2>2. Executing(ins[j].task)' <=> Executing(ins[j].task)
    BY <1>3, <2>1 DEF Executing, TaskOf
  <2>. QED  BY <1>3, <1>6, <2>1, <2>2 DEF InspectorOK
<1>. QED  BY <1>4, <1>5, <1>6 DEF IInv

Inspector ==
  [pc : {"idle", "probe", "release", "viewed"}, task : Tasks \cup {Nobody},
   view : State \cup {"absent", "interrupted"}, seen : State \cup {"absent"}]

LEMMA InspectorUpdated ==
  ASSUME TypeOK, NEW i \in Inspectors, NEW r \in Inspector, ins' = [ins EXCEPT ![i] = r]
  PROVE  /\ ins' \in [Inspectors -> Inspector] /\ ins'[i] = r
         /\ \A j \in Inspectors \ {i} : ins'[j] = ins[j]
<1>1. ins \in [Inspectors -> Inspector]
  BY DEF TypeOK, Inspector
<1>. QED  BY <1>1

LEMMA ReadStatusStep ==
  ASSUME IInv, NEW i \in Inspectors, NEW t \in Tasks, ReadStatus(i, t) PROVE IInv'
<1>. DEFINE r == [pc |-> "probe", task |-> t, view |-> status[t].state, seen |-> status[t].state]
<1>1. /\ status[t] # Absent /\ ins' = [ins EXCEPT ![i] = r]
      /\ UNCHANGED <<disk, locks, groups, submission, sup>>
  BY DEF ReadStatus
<1>2. status[t] \in Snapshot /\ status[t].state \in State
  BY <1>1 DEF IInv, TypeOK, Snapshot
<1>3. /\ r \in Inspector /\ r.task = t /\ r.pc = "probe" /\ r.view \in State
      /\ r.seen = status[t].state /\ r.view = status[t].state
  BY <1>2 DEF Inspector
<1>. HIDE DEF r
<1>4. /\ ins' \in [Inspectors -> Inspector] /\ ins'[i] = r
      /\ \A j \in Inspectors \ {i} : ins'[j] = ins[j]
  BY <1>1, <1>3, InspectorUpdated DEF IInv
<1>5. TypeOK'
  <2>1. TypeOK
    BY DEF IInv
  <2>. QED  BY <1>1, <1>4, <2>1 DEF TypeOK, Inspector, disk, locks, groups
<1>6. InspectorOK(i)'
  BY <1>1, <1>3, <1>4 DEF InspectorOK, State, Terminal, disk
<1>7. /\ ownerLock' = ownerLock /\ cancelFile' = cancelFile
      /\ UNCHANGED <<status, lastEvent, repoLock, groups, submission, sup>>
  BY <1>1 DEF disk, locks
<1>. QED  BY <1>4, <1>5, <1>6, <1>7, InspectorFrame

LEMMA ProbeStep ==
  ASSUME IInv, NEW i \in Inspectors, Probe(i) PROVE IInv'
<1>1. /\ ins[i].pc = "probe" /\ UNCHANGED <<disk, repoLock, groups, submission, sup>> /\ InspectorOK(i)
      /\ ins[i].task \in Tasks /\ TypeOK /\ ins \in [Inspectors -> Inspector]
  BY DEF Probe, IInv, InspectorOK, TypeOK, Inspector
<1>2. /\ cancelFile' = cancelFile /\ status' = status /\ lastEvent' = lastEvent /\ sup' = sup
      /\ repoLock' = repoLock /\ UNCHANGED <<status, lastEvent, repoLock, groups, submission, sup>>
      /\ group' = group /\ launches' = launches
  BY <1>1 DEF disk, groups
<1>3. ins'[i].task = ins[i].task => (Executing(ins[i].task)' <=> Executing(ins[i].task))
  BY <1>2 DEF Executing, TaskOf
<1>4. CASE /\ ownerLock[ins[i].task] = Nobody /\ ownerLock' = [ownerLock EXCEPT ![ins[i].task] = i]
           /\ ins' = [ins EXCEPT ![i].pc = "release"]
  <2>. DEFINE r == [ins[i] EXCEPT !.pc = "release"]
  <2>1. /\ r \in Inspector /\ r.pc = "release" /\ r.task = ins[i].task /\ r.view = ins[i].view
        /\ r.seen = ins[i].seen
    BY <1>1 DEF Inspector
  <2>2. ins' = [ins EXCEPT ![i] = r]
    BY <1>1, <1>4
  <2>. HIDE DEF r
  <2>3. /\ ins' \in [Inspectors -> Inspector] /\ ins'[i] = r
        /\ \A j \in Inspectors \ {i} : ins'[j] = ins[j]
    BY <1>1, <2>1, <2>2, InspectorUpdated
  <2>4. /\ ownerLock' \in [Tasks -> Supervisors \cup Inspectors \cup {Nobody}]
        /\ ownerLock'[ins[i].task] = i
        /\ \A t \in Tasks : ownerLock'[t] = ownerLock[t] \/ ownerLock[t] \in {Nobody, i}
    BY <1>1, <1>4 DEF TypeOK
  <2>5. TypeOK'
    BY <1>1, <1>2, <2>3, <2>4 DEF TypeOK, Inspector
  <2>6. InspectorOK(i)'
    BY <1>1, <1>2, <1>3, <2>1, <2>3, <2>4 DEF InspectorOK
  <2>. QED  BY <1>2, <2>3, <2>4, <2>5, <2>6, InspectorFrame
<1>5. CASE View(i, TRUE, FALSE) /\ UNCHANGED ownerLock
  <2>. DEFINE r == [ins[i] EXCEPT !.pc = "viewed"]
  <2>1. /\ r \in Inspector /\ r.pc = "viewed" /\ r.task = ins[i].task /\ r.view = ins[i].view
        /\ r.seen = ins[i].seen
    BY <1>1 DEF Inspector
  <2>2. ins' = [ins EXCEPT ![i] = r]
    <3>1. ins' = [ins EXCEPT ![i].pc = "viewed", ![i].view = @]
      BY <1>5 DEF View
    <3>. QED  BY <1>1, <3>1 DEF Inspector
  <2>. HIDE DEF r
  <2>3. /\ ins' \in [Inspectors -> Inspector] /\ ins'[i] = r
        /\ \A j \in Inspectors \ {i} : ins'[j] = ins[j]
    BY <1>1, <2>1, <2>2, InspectorUpdated
  <2>4. ownerLock' = ownerLock
    BY <1>5
  <2>5. TypeOK'
    BY <1>1, <1>2, <2>3, <2>4 DEF TypeOK, Inspector
  <2>6. InspectorOK(i)'
    BY <1>1, <1>2, <1>3, <2>1, <2>3, <2>4 DEF InspectorOK
  <2>. QED  BY <1>2, <2>3, <2>4, <2>5, <2>6, InspectorFrame
<1>. QED  BY <1>4, <1>5 DEF Probe

(***************************************************************************)
(* A verdict on an unfinished task that was running is given while the     *)
(* inspector has the lock its supervisor would hold.                       *)
(***************************************************************************)
LEMMA ReleaseStep ==
  ASSUME IInv, NEW i \in Inspectors, Release(i) PROVE IInv'
<1>1. /\ ins[i].pc = "release" /\ UNCHANGED <<disk, repoLock, groups, submission, sup>> /\ InspectorOK(i)
      /\ ins[i].task \in Tasks /\ ownerLock[ins[i].task] = i
      /\ ownerLock' = [ownerLock EXCEPT ![ins[i].task] = Nobody]
      /\ TypeOK /\ ins \in [Inspectors -> Inspector]
  BY DEF Release, IInv, InspectorOK, TypeOK, Inspector
<1>2. /\ cancelFile' = cancelFile /\ status' = status /\ lastEvent' = lastEvent /\ sup' = sup
      /\ repoLock' = repoLock /\ UNCHANGED <<status, lastEvent, repoLock, groups, submission, sup>>
      /\ group' = group /\ launches' = launches
  BY <1>1 DEF disk, groups
<1>3. PICK view \in {ins[i].view, "interrupted"} :
        ins' = [ins EXCEPT ![i].pc = "viewed", ![i].view = view]
  BY DEF Release, View
<1>. DEFINE r == [ins[i] EXCEPT !.pc = "viewed", !.view = view]
<1>4. /\ r \in Inspector /\ r.pc = "viewed" /\ r.task = ins[i].task /\ r.seen = ins[i].seen
  BY <1>1, <1>3 DEF Inspector
<1>5. ins' = [ins EXCEPT ![i] = r]
  BY <1>1, <1>3 DEF Inspector
<1>. HIDE DEF r
<1>6. /\ ins' \in [Inspectors -> Inspector] /\ ins'[i] = r
      /\ \A j \in Inspectors \ {i} : ins'[j] = ins[j]
  BY <1>1, <1>4, <1>5, InspectorUpdated
<1>7. /\ ownerLock' \in [Tasks -> Supervisors \cup Inspectors \cup {Nobody}]
      /\ \A t \in Tasks : ownerLock'[t] = ownerLock[t] \/ ownerLock[t] \in {Nobody, i}
  BY <1>1 DEF TypeOK
<1>8. TypeOK'
  BY <1>1, <1>2, <1>6, <1>7 DEF TypeOK, Inspector
<1>9. ~Executing(ins[i].task)
  <2>. SUFFICES ASSUME NEW s \in Supervisors, Works(s), TaskOf(s) = ins[i].task PROVE FALSE
    BY DEF Executing, Works, AtRest
  <2>1. ownerLock[ins[i].task] = s /\ s # i
    BY TaskAssumption, TypedSupervisor DEF Works, AtRest
  <2>. QED  BY <1>1, <2>1
<1>10. InspectorOK(i)'
  <2>1. ~Executing(ins[i].task)'
    BY <1>2, <1>4, <1>6, <1>9 DEF Executing, TaskOf
  <2>. QED  BY <1>1, <1>2, <1>4, <1>6, <2>1 DEF InspectorOK
<1>. QED  BY <1>2, <1>6, <1>7, <1>8, <1>10, InspectorFrame

(***************************************************************************)
(* The end of an inspection, with or without a request.                    *)
(***************************************************************************)
LEMMA Dismissed ==
  ASSUME IInv, NEW i \in Inspectors, ins' = [ins EXCEPT ![i] = IdleInspector],
         cancelFile' \in [Tasks -> {"none", "queued", "worker", "later"}],
         \A t \in Tasks : cancelFile'[t] = cancelFile[t] \/ cancelFile'[t] = PhaseOnDisk(t),
         UNCHANGED <<status, lastEvent, locks, groups, submission, sup>>
  PROVE  IInv'
<1>1. IdleInspector \in Inspector /\ TypeOK
  BY DEF IInv, Inspector, IdleInspector
<1>2. /\ ins' \in [Inspectors -> Inspector] /\ ins'[i] = IdleInspector
      /\ \A j \in Inspectors \ {i} : ins'[j] = ins[j]
  BY <1>1, InspectorUpdated
<1>3. TypeOK'
  BY <1>1, <1>2 DEF TypeOK, Inspector, locks, groups
<1>4. InspectorOK(i)'
  BY <1>2 DEF InspectorOK, IdleInspector
<1>5. ownerLock' = ownerLock /\ UNCHANGED <<status, lastEvent, repoLock, groups, submission, sup>>
  BY DEF locks
<1>. QED  BY <1>2, <1>3, <1>4, <1>5, InspectorFrame

LEMMA DoneStep ==
  ASSUME IInv, NEW i \in Inspectors, Done(i) PROVE IInv'
BY Dismissed DEF Done, disk, IInv, TypeOK

LEMMA RequestCancelStep ==
  ASSUME IInv, NEW i \in Inspectors, RequestCancel(i) PROVE IInv'
<1>. DEFINE t == ins[i].task
<1>1. /\ ins' = [ins EXCEPT ![i] = IdleInspector] /\ t \in Tasks
      /\ cancelFile' = [cancelFile EXCEPT ![t] = IF @ = "none" THEN PhaseOnDisk(t) ELSE @]
      /\ UNCHANGED <<status, lastEvent, locks, groups, submission, sup>>
  BY DEF RequestCancel, IInv, InspectorOK
<1>2. cancelFile \in [Tasks -> {"none", "queued", "worker", "later"}]
  BY DEF IInv, TypeOK
<1>3. PhaseOnDisk(t) \in {"none", "queued", "worker", "later"}
  BY DEF PhaseOnDisk
<1>. HIDE DEF t
<1>4. /\ cancelFile' \in [Tasks -> {"none", "queued", "worker", "later"}]
      /\ \A u \in Tasks : cancelFile'[u] = cancelFile[u] \/ cancelFile'[u] = PhaseOnDisk(u)
  BY <1>1, <1>2, <1>3
<1>. QED  BY <1>1, <1>4, Dismissed

-----------------------------------------------------------------------------
LEMMA Stuttering == IInv /\ UNCHANGED vars => IInv'
<1>. SUFFICES ASSUME IInv, UNCHANGED vars PROVE IInv'
  OBVIOUS
<1>1. /\ status' = status /\ lastEvent' = lastEvent /\ cancelFile' = cancelFile
      /\ ownerLock' = ownerLock /\ repoLock' = repoLock /\ group' = group
      /\ launches' = launches /\ submission' = submission /\ sup' = sup /\ ins' = ins
  BY DEF vars, disk, locks, groups
<1>2. TypeOK'
  BY <1>1 DEF IInv, TypeOK
<1>3. ASSUME NEW s \in Supervisors PROVE SupervisorOK(s)'
  <2>. PICK p \in Supervisor : p = sup[s]
    BY SupervisorTyped
  <2>1. Fits(s, p) /\ sup'[s] = p /\ EarlyCancel(p.task)' = EarlyCancel(p.task)
    BY <1>1 DEF IInv, SupervisorOK, EarlyCancel
  <2>2. Fits(s, p)'
    BY <1>1, <2>1, FitsStays
  <2>. QED  BY <2>1, <2>2 DEF SupervisorOK
<1>4. \A t \in Tasks : TaskOK(t)'
  BY <1>1 DEF IInv, TaskOK, EarlyCancel, TaskOf, Works, Stage
<1>5. \A i \in Inspectors : InspectorOK(i)'
  BY <1>1 DEF IInv, InspectorOK, Executing, TaskOf
<1>. QED  BY <1>2, <1>3, <1>4, <1>5 DEF IInv

LEMMA NextIInv == IInv /\ [Next]_vars => IInv'
<1>. SUFFICES ASSUME IInv, [Next]_vars PROVE IInv'
  OBVIOUS
<1>1. ASSUME NEW t \in Tasks, Submit(t) \/ SpawnSupervisor(t) \/ SubmitterDies(t) PROVE IInv'
  BY <1>1, SubmitStep, SubmitEndsStep
<1>2. ASSUME NEW t \in Tasks, OrphanEnds(t) PROVE IInv'
  BY <1>2, OrphanEndsStep
<1>3. ASSUME NEW s \in Supervisors, NEW t \in Tasks, Begin(s, t) PROVE IInv'
  BY <1>3, BeginStep
<1>4. ASSUME NEW s \in Supervisors, Execute(s) PROVE IInv'
  BY <1>4, ReadSnapshotStep, CancelCheckStep, LockRepositoryStep, BaselineStep, SpawnStep,
     RecordSpawnedStep, DropChildStep, OutputStep, PollCancelStep, StillRunningStep, ExitsStep,
     RecordExitedStep, StartVerificationStep, CollectingStep, CollectStep, FinishTaskStep,
     PublishStep, ExitStep DEF Execute
<1>5. ASSUME NEW s \in Supervisors, Crash(s) PROVE IInv'
  BY <1>5, CrashStep
<1>6. ASSUME NEW s \in Supervisors, Interrupt(s) PROVE IInv'
  BY <1>6, InterruptStep
<1>7. ASSUME NEW i \in Inspectors, Inspect(i) PROVE IInv'
  BY <1>7, ReadStatusStep, ProbeStep, ReleaseStep, DoneStep, RequestCancelStep DEF Inspect
<1>8. CASE UNCHANGED vars
  BY <1>8, Stuttering
<1>. QED  BY <1>1, <1>2, <1>3, <1>4, <1>5, <1>6, <1>7, <1>8 DEF Next

LEMMA InductiveInvariant == Spec => []IInv
BY Initially, NextIInv, PTL DEF Spec

-----------------------------------------------------------------------------
(***************************************************************************)
(* execute and inspect keep every record typed, journaled before it is     *)
(* published, final only when no command is left, and succeeded only when  *)
(* both passed and no request to cancel was there before the verification. *)
(***************************************************************************)
THEOREM RecordsAreTruthful == Spec => []TaskInv
<1>1. IInv => TypeOK /\ JournalLeads
  BY DEF IInv, TaskOK, JournalLeads
<1>2. IInv => SucceededMeansVerified /\ TerminalMeansStopped
  BY DEF IInv, TaskOK, SucceededMeansVerified, TerminalMeansStopped
<1>3. IInv => EarlyCancelWins
  BY DEF IInv, TaskOK, EarlyCancelWins, EarlyCancel
<1>. QED  BY <1>1, <1>2, <1>3, InductiveInvariant, PTL DEF TaskInv

(***************************************************************************)
(* The command group of a task runs only under a supervisor that has both  *)
(* the owner.lock of the task and the repository.lock.                     *)
(***************************************************************************)
THEOREM CommandsHoldBothLocks == Spec => []OneTaskPerCheckout
<1>1. IInv => OneTaskPerCheckout
  <2>. SUFFICES ASSUME IInv, NEW t \in Tasks, group[t] = "running"
                PROVE  \E s \in Supervisors : repoLock = s /\ ownerLock[t] = s /\ TaskOf(s) = t
    BY DEF OneTaskPerCheckout
  <2>. PICK s \in Supervisors : TaskOf(s) = t /\ Works(s) /\ Stage(s) \in Polled
    BY DEF IInv, TaskOK
  <2>1. sup[s].pc # "idle" /\ ownerLock[t] = s /\ Fits(s, sup[s]) /\ sup[s].pc \notin AtRest
    BY TypedSupervisor DEF Works, AtRest, IInv, SupervisorOK
  <2>2. Holds(s, sup[s], Stage(s))
    BY <2>1 DEF Fits, Written, Good, Stage
  <2>3. repoLock = s
    BY <2>2 DEF Holds, Polled
  <2>. QED  BY <2>1, <2>3
<1>. QED  BY <1>1, InductiveInvariant, PTL

(***************************************************************************)
(* A task never starts a command a second time, whatever supervisors die   *)
(* or execute it again, since only a queued task is taken up.              *)
(***************************************************************************)
THEOREM NoCommandTwice == Spec => []CommandsRunOnce
<1>1. IInv => CommandsRunOnce
  BY DEF IInv, TaskOK, CommandsRunOnce
<1>. QED  BY <1>1, InductiveInvariant, PTL

(***************************************************************************)
(* A final report is published when the command group of the task is gone. *)
(***************************************************************************)
THEOREM FinalReportIsLast == Spec => []TerminalMeansStopped
<1>1. IInv => TerminalMeansStopped
  BY DEF IInv, TaskOK, TerminalMeansStopped
<1>. QED  BY <1>1, InductiveInvariant, PTL

(***************************************************************************)
(* A request found in cancel.request that was written before the           *)
(* verification was on record keeps the task from succeeding.              *)
(***************************************************************************)
THEOREM CancelIsNotLost == Spec => []EarlyCancelWins
<1>1. IInv => EarlyCancelWins
  BY DEF IInv, TaskOK, EarlyCancelWins, EarlyCancel
<1>. QED  BY <1>1, InductiveInvariant, PTL

(***************************************************************************)
(* What inspect reports interrupted, having read it running, nobody works  *)
(* on at any later time while the report stands.                           *)
(***************************************************************************)
THEOREM InterruptedForGood == Spec => []InterruptedIsAbandoned
<1>1. IInv => InterruptedIsAbandoned
  BY DEF IInv, InspectorOK, InterruptedIsAbandoned
<1>. QED  BY <1>1, InductiveInvariant, PTL

(***************************************************************************)
(* A task an inspector has looked at stays submitted.                      *)
(***************************************************************************)
SeenIsThere ==
  \A i \in Inspectors : ins[i].pc # "idle" => status[ins[i].task].state # "absent"

LEMMA SeenInitially == Init => SeenIsThere
BY DEF Init, SeenIsThere, IdleInspector

LEMMA SubmittedStays ==
  ASSUME IInv, [Next]_vars, NEW t \in Tasks, status[t].state # "absent"
  PROVE  status'[t].state # "absent"
<1>1. status \in [Tasks -> Snapshot \cup {Absent}]
  BY DEF IInv, TypeOK
<1>2. ASSUME NEW u \in Tasks, Submit(u) PROVE status'[t].state # "absent"
  <2>1. status' \in {status, [status EXCEPT ![u] = Queued], [status EXCEPT ![u] = Refused]}
    BY <1>2 DEF Submit, AppendSubmission, PublishSubmission
  <2>. QED  BY <1>1, <2>1, Submissions
<1>3. ASSUME NEW s \in Supervisors, Publish(s) PROVE status'[t].state # "absent"
  <2>1. Works(s) /\ TaskOf(s) \in Tasks /\ sup[s].mem \in Snapshot
    BY <1>3, TypedSupervisor DEF Publish, At, Works, AtRest
  <2>2. /\ status' \in {status, [status EXCEPT ![TaskOf(s)] = sup[s].mem]}
        /\ sup[s].mem.state # "absent"
    BY <1>3, <2>1 DEF Publish, Snapshot, State, Terminal
  <2>. QED  BY <1>1, <2>1, <2>2
<1>4. ASSUME NEW s \in Supervisors, Execute(s) PROVE Publish(s) \/ UNCHANGED status
  <2>1. CASE ReadSnapshot(s) \/ CancelCheck(s) \/ LockRepository(s) \/ Baseline(s) \/ Spawn(s)
    BY <2>1 DEF ReadSnapshot, CancelCheck, LockRepository, Baseline, Spawn, disk
  <2>2. CASE RecordSpawned(s) \/ DropChild(s) \/ Output(s) \/ PollCancel(s) \/ StillRunning(s) \/ Exits(s)
    BY <2>2 DEF RecordSpawned, DropChild, Output, PollCancel, StillRunning, Exits, disk
  <2>3. CASE RecordExited(s) \/ StartVerification(s) \/ Collecting(s) \/ Collect(s)
    BY <2>3 DEF RecordExited, StartVerification, Collecting, Collect, disk
  <2>4. CASE FinishTask(s) \/ Exit(s)
    BY <2>4 DEF FinishTask, Exit, disk
  <2>. QED  BY <1>4, <2>1, <2>2, <2>3, <2>4 DEF Execute
<1>5. ASSUME NEW s \in Supervisors, (\E u \in Tasks : Begin(s, u)) \/ Crash(s) \/ Interrupt(s)
      PROVE  UNCHANGED status
  BY <1>5 DEF Begin, Crash, Interrupt, disk
<1>6. ASSUME NEW i \in Inspectors, Inspect(i) PROVE UNCHANGED status
  BY <1>6 DEF Inspect, ReadStatus, Probe, Release, Done, RequestCancel, disk
<1>7. ASSUME \/ UNCHANGED vars
             \/ \E u \in Tasks : SpawnSupervisor(u) \/ SubmitterDies(u) \/ OrphanEnds(u)
      PROVE  UNCHANGED status
  BY <1>7 DEF vars, SpawnSupervisor, SubmitterDies, OrphanEnds, disk
<1>8. CASE UNCHANGED status
  BY <1>8
<1>. QED  BY <1>2, <1>3, <1>4, <1>5, <1>6, <1>7, <1>8 DEF Next

LEMMA OthersDoNotLook == [Next]_vars => ins' = ins \/ \E i \in Inspectors : Inspect(i)
<1>1. ASSUME NEW s \in Supervisors, Execute(s) PROVE UNCHANGED ins
  <2>1. CASE ReadSnapshot(s) \/ CancelCheck(s) \/ LockRepository(s) \/ Baseline(s) \/ Spawn(s)
    BY <2>1 DEF ReadSnapshot, CancelCheck, LockRepository, Baseline, Spawn
  <2>2. CASE RecordSpawned(s) \/ DropChild(s) \/ Output(s) \/ PollCancel(s) \/ StillRunning(s) \/ Exits(s)
    BY <2>2 DEF RecordSpawned, DropChild, Output, PollCancel, StillRunning, Exits
  <2>3. CASE RecordExited(s) \/ StartVerification(s) \/ Collecting(s) \/ Collect(s)
    BY <2>3 DEF RecordExited, StartVerification, Collecting, Collect
  <2>4. CASE FinishTask(s) \/ Publish(s) \/ Exit(s)
    BY <2>4 DEF FinishTask, Publish, Exit
  <2>. QED  BY <1>1, <2>1, <2>2, <2>3, <2>4 DEF Execute
<1>2. ASSUME NEW s \in Supervisors, (\E u \in Tasks : Begin(s, u)) \/ Crash(s) \/ Interrupt(s)
      PROVE  UNCHANGED ins
  BY <1>2 DEF Begin, Crash, Interrupt
<1>3. ASSUME UNCHANGED vars \/ \E u \in Tasks : SpawnSupervisor(u) \/ SubmitterDies(u) \/ OrphanEnds(u)
      PROVE  UNCHANGED ins
  BY <1>3 DEF vars, SpawnSupervisor, SubmitterDies, OrphanEnds
<1>4. ASSUME NEW u \in Tasks, Submit(u) PROVE UNCHANGED ins
  BY <1>4 DEF Submit, AppendSubmission, PublishSubmission
<1>. QED  BY <1>1, <1>2, <1>3, <1>4 DEF Next

LEMMA SeenStep == IInv /\ SeenIsThere /\ [Next]_vars => SeenIsThere'
<1>. SUFFICES ASSUME IInv, SeenIsThere, [Next]_vars, NEW i \in Inspectors, ins'[i].pc # "idle"
              PROVE  status'[ins'[i].task].state # "absent"
  BY DEF SeenIsThere
<1>1. ASSUME ins[i].pc # "idle", ins'[i].task = ins[i].task PROVE status'[ins'[i].task].state # "absent"
  BY <1>1, SubmittedStays DEF SeenIsThere, IInv, InspectorOK
<1>2. ASSUME NEW t \in Tasks, ReadStatus(i, t) PROVE status'[ins'[i].task].state # "absent"
  <2>1. ins'[i].task = t /\ status[t] # Absent /\ status' = status /\ status[t] \in Snapshot \cup {Absent}
    BY <1>2 DEF ReadStatus, IInv, TypeOK, disk
  <2>. QED  BY <2>1 DEF Snapshot, State, Terminal
<1>3. (\E t \in Tasks : ReadStatus(i, t)) \/ (ins[i].pc # "idle" /\ ins'[i].task = ins[i].task)
  <2>1. TypeOK
    BY DEF IInv
  <2>2. ASSUME NEW j \in Inspectors, Inspect(j)
        PROVE (\E t \in Tasks : ReadStatus(i, t)) \/ (ins[i].pc # "idle" /\ ins'[i].task = ins[i].task)
    <3>1. CASE j # i
      <4>1. ASSUME \E t \in Tasks : ReadStatus(j, t) PROVE ins'[i] = ins[i]
        BY <2>1, <3>1, <4>1 DEF TypeOK, ReadStatus
      <4>2. ASSUME Probe(j) PROVE ins'[i] = ins[i]
        BY <2>1, <3>1, <4>2 DEF TypeOK, Probe, View
      <4>3. ASSUME Release(j) PROVE ins'[i] = ins[i]
        BY <2>1, <3>1, <4>3 DEF TypeOK, Release, View
      <4>4. ASSUME Done(j) \/ RequestCancel(j) PROVE ins'[i] = ins[i]
        BY <2>1, <3>1, <4>4 DEF TypeOK, Done, RequestCancel
      <4>5. ins'[i] = ins[i]
        BY <2>2, <4>1, <4>2, <4>3, <4>4 DEF Inspect
      <4>. QED  BY <4>5
    <3>2. CASE Probe(i) \/ Release(i)
      BY <2>1, <3>2 DEF TypeOK, Probe, Release, View
    <3>3. CASE Done(i) \/ RequestCancel(i)
      BY <2>1, <3>3 DEF TypeOK, Done, RequestCancel, IdleInspector
    <3>. QED  BY <2>2, <3>1, <3>2, <3>3 DEF Inspect
  <2>3. CASE ins' = ins
    BY <2>3
  <2>. QED  BY <2>2, <2>3, OthersDoNotLook
<1>. QED  BY <1>1, <1>2, <1>3

-----------------------------------------------------------------------------
(***************************************************************************)
(* Every step is one of the ledger's, or is not seen in it.                *)
(***************************************************************************)
Withdrawn == {t \in Tasks : cancelFile[t] \in {"queued", "worker"}}

LEMMA LedgerInit == Init => Ledger!Init
BY DEF Init, Ledger!Init, Ledger!NoReport, Absent

LEMMA SubmitRefines ==
  ASSUME NEW t \in Tasks, IInv, Submit(t)
  PROVE  Ledger!Submit(t) \/ Ledger!Report(t) \/ UNCHANGED Ledger!ledgerVars
<1>1. TaskOK(t) /\ status \in [Tasks -> Snapshot \cup {Absent}]
  BY DEF IInv, TypeOK
<1>2. UNCHANGED <<cancelFile, group, launches>>
  BY DEF Submit, AppendSubmission, PublishSubmission, groups
<1>3. CASE status' = status
  BY <1>2, <1>3 DEF Ledger!ledgerVars
<1>4. CASE submission[t] = "queued" /\ status' = [status EXCEPT ![t] = Queued]
  <2>1. status[t] = Absent /\ Absent = Ledger!NoReport
    BY <1>1, <1>4 DEF TaskOK, Absent, Ledger!NoReport
  <2>2. status' = [status EXCEPT ![t].state = "queued", ![t].seq = 1]
    BY <1>1, <1>4, <2>1 DEF Queued
  <2>. QED  BY <1>2, <2>1, <2>2 DEF Ledger!Submit
<1>5. CASE submission[t] = "failed" /\ status' = [status EXCEPT ![t] = Refused]
  <2>1. status[t] = Queued /\ status'[t] = Refused /\ group[t] = "none"
    BY <1>1, <1>5, Submissions DEF TaskOK
  <2>2. Queued.worker = "none" /\ Queued.verification = "none"
    BY DEF Queued, Absent
  <2>3. Ledger!Advances(Queued, Refused)
    BY <2>2, Submissions DEF Ledger!Advances, Ledger!Order, Ledger!Final
  <2>4. Ledger!Justified(t, Refused)
    BY <2>1, Submissions DEF Ledger!Justified
  <2>. QED  BY <1>2, <1>5, <2>1, <2>3, <2>4 DEF Ledger!Report
<1>. QED  BY <1>3, <1>4, <1>5 DEF Submit, AppendSubmission, PublishSubmission

LEMMA PublishRefines ==
  ASSUME NEW s \in Supervisors, IInv, Publish(s)
  PROVE  (\E t \in Tasks : Ledger!Report(t)) \/ UNCHANGED Ledger!ledgerVars
<1>1. sup[s].pc = "publish" /\ Works(s) /\ sup[s].pc \notin AtRest
  BY DEF Publish, At, Works, AtRest
<1>. PICK t \in Tasks : t = TaskOf(s)
  BY <1>1, TypedSupervisor DEF AtRest
<1>2. /\ status' = status \/ status' = [status EXCEPT ![t] = sup[s].mem]
      /\ UNCHANGED <<group, launches, cancelFile>>
  BY DEF Publish, disk, groups
<1>3. CASE status' = status
  BY <1>2, <1>3 DEF Ledger!ledgerVars
<1>4. CASE status' = [status EXCEPT ![t] = sup[s].mem]
  <2>1. status'[t] = sup[s].mem /\ status' = [status EXCEPT ![t] = status'[t]]
    BY <1>4 DEF IInv, TypeOK
  <2>2. sup[s].task = t /\ Follows(status[t], sup[s].mem) /\ Written(s, sup[s])
    BY <1>1 DEF IInv, SupervisorOK, Fits, TaskOf
  <2>3. status[t].seq \in Nat /\ sup[s].mem.seq \in Nat
    BY <1>1, TypedSupervisor DEF AtRest, Snapshot
  <2>4. Ledger!Advances(status[t], sup[s].mem)
    BY <2>2, <2>3 DEF Ledger!Advances, Ledger!Order, Ledger!Final, Order, Follows, Written, Terminal
  <2>5. sup[s].mem.state \in Terminal => Holds(s, sup[s], "exit")
    BY <2>2 DEF Written, Good
  <2>6. Ledger!Justified(t, sup[s].mem)
    BY <2>2, <2>5
       DEF Ledger!Justified, Ledger!Final, Terminal, Written, Holds, Settled, EarlyCancel, Polled
  <2>. QED  BY <1>2, <2>1, <2>4, <2>6 DEF Ledger!Report
<1>. QED  BY <1>2, <1>3, <1>4

(***************************************************************************)
(* A command is started by the supervisor that has the repository.lock,    *)
(* and whoever has a command running has it too.                           *)
(***************************************************************************)
LEMMA SpawnRefines ==
  ASSUME NEW s \in Supervisors, IInv, Spawn(s)
  PROVE  \/ \E t \in Tasks, c \in {"worker", "verification"} : Ledger!Start(t, c)
         \/ UNCHANGED Ledger!ledgerVars
<1>1. sup[s].pc = "spawn" /\ Works(s) /\ UNCHANGED <<status, cancelFile>>
  BY DEF Spawn, At, Works, AtRest, disk
<1>2. "spawn" \in Runs /\ "spawn" \notin Early \cup Polled
  BY DEF Runs, Early, Polled
<1>3. /\ Holds(s, sup[s], "spawn") /\ Commands(sup[s], "spawn") /\ status[TaskOf(s)] = sup[s].mem
  BY <1>1, AtWork
<1>. PICK t \in Tasks : t = TaskOf(s)
  BY <1>1, TypedSupervisor
<1>. PICK c \in {"worker", "verification"} : c = sup[s].mem.phase
  BY <1>2, <1>3 DEF Commands
<1>4. /\ status[t].state = "running" /\ status[t].phase = c
      /\ c = "verification" => status[t].worker = "passed"
      /\ group[t] \in {"none", "gone"} /\ repoLock = s
  BY <1>2, <1>3 DEF Commands, Holds, TaskOf
<1>5. launches[t][c] = 0
  <2>1. launches[t] = [worker |-> IF c = "worker" /\ "spawn" = "spawn" THEN 0 ELSE 1,
                       verification |-> IF c = "verification" /\ "spawn" # "spawn" THEN 1 ELSE 0]
    BY <1>2, <1>3 DEF Commands, TaskOf
  <2>2. CASE c = "worker"
    BY <2>1, <2>2
  <2>3. CASE c = "verification"
    BY <2>1, <2>3
  <2>. QED  BY <2>2, <2>3
<1>6. ASSUME NEW u \in Tasks, group[u] = "running" PROVE FALSE
  <2>. PICK r \in Supervisors : TaskOf(r) = u /\ Works(r) /\ Stage(r) \in Polled
    BY <1>6 DEF IInv, TaskOK
  <2>1. Fits(r, sup[r]) /\ sup[r].pc \notin AtRest
    BY DEF IInv, SupervisorOK, Works
  <2>2. Holds(r, sup[r], Stage(r))
    BY <2>1 DEF Fits, Written, Good, Stage
  <2>3. repoLock = r
    BY <2>2 DEF Holds, Polled
  <2>. QED  BY <1>1, <1>2, <1>4, <2>3 DEF Stage
<1>7. CASE /\ group' = [group EXCEPT ![t] = "running"]
           /\ launches' = [launches EXCEPT ![t][c] = @ + 1]
  <2>1. launches' = [launches EXCEPT ![t][c] = 1]
    BY <1>5, <1>7
  <2>. QED  BY <1>1, <1>4, <1>5, <1>6, <1>7, <2>1 DEF Ledger!Start
<1>8. CASE UNCHANGED groups
  BY <1>1, <1>8 DEF groups, Ledger!ledgerVars
<1>. QED  BY <1>7, <1>8 DEF Spawn

LEMMA EndRunRefines ==
  ASSUME NEW s \in Supervisors, IInv, PollCancel(s) \/ Exits(s) \/ DropChild(s)
  PROVE  (\E t \in Tasks : Ledger!Stop(t)) \/ UNCHANGED Ledger!ledgerVars
<1>1. sup[s].pc \in {"poll_cancel", "poll_exit", "drop_child"}
  BY DEF PollCancel, Exits, DropChild, At
<1>2. Works(s) /\ sup[s].pc \in Polled /\ sup[s].pc # "publish"
  BY <1>1 DEF Works, AtRest, Polled
<1>. PICK t \in Tasks : t = TaskOf(s)
  BY <1>2, TypedSupervisor, AtWork
<1>3. group[t] = "running"
  BY <1>2, AtWork DEF Holds, TaskOf
<1>4. /\ UNCHANGED <<status, cancelFile, launches>>
      /\ group' = [group EXCEPT ![t] = "gone"] \/ group' = group
  BY DEF PollCancel, Exits, DropChild, EndRun, disk
<1>. QED  BY <1>3, <1>4 DEF Ledger!Stop, Ledger!ledgerVars

LEMMA CrashRefines ==
  ASSUME NEW s \in Supervisors, IInv, Crash(s)
  PROVE  (\E t \in Tasks : Ledger!Abandon(t)) \/ UNCHANGED Ledger!ledgerVars
<1>. DEFINE t == TaskOf(s)
<1>1. /\ t \in Tasks /\ UNCHANGED <<status, cancelFile, launches>>
      /\ group' = [group EXCEPT ![t] = IF group[t] = "running" THEN "orphan" ELSE group[t]]
  BY TypedSupervisor DEF Crash, At, disk
<1>2. CASE group[t] = "running"
  BY <1>1, <1>2 DEF Ledger!Abandon
<1>3. CASE group[t] # "running"
  BY <1>1, <1>3 DEF Ledger!ledgerVars, IInv, TypeOK
<1>. QED  BY <1>2, <1>3

LEMMA CancelRefines ==
  ASSUME NEW i \in Inspectors, IInv, SeenIsThere, RequestCancel(i)
  PROVE  (\E t \in Tasks : Ledger!Withdraw(t)) \/ UNCHANGED Ledger!ledgerVars
<1>. DEFINE t == ins[i].task
            f == IF cancelFile[t] = "none" THEN PhaseOnDisk(t) ELSE cancelFile[t]
<1>1. /\ t \in Tasks /\ UNCHANGED <<status, group, launches>>
      /\ cancelFile' = [cancelFile EXCEPT ![t] = f]
      /\ cancelFile \in [Tasks -> {"none", "queued", "worker", "later"}]
      /\ status[t].state # "absent"
  BY DEF RequestCancel, groups, IInv, InspectorOK, TypeOK, SeenIsThere
<1>2. CASE cancelFile[t] = "none" /\ status[t].phase \in {"queued", "worker"}
  <2>1. f \in {"queued", "worker"}
    BY <1>2 DEF PhaseOnDisk
  <2>. HIDE DEF f
  <2>2. Withdrawn' = Withdrawn \cup {t}
    BY <1>1, <2>1 DEF Withdrawn
  <2>. QED  BY <1>1, <1>2, <2>2 DEF Ledger!Withdraw, Withdrawn
<1>3. CASE ~(cancelFile[t] = "none" /\ status[t].phase \in {"queued", "worker"})
  <2>1. f \in {"queued", "worker"} <=> cancelFile[t] \in {"queued", "worker"}
    BY <1>3 DEF PhaseOnDisk
  <2>. HIDE DEF f
  <2>2. Withdrawn' = Withdrawn
    BY <1>1, <2>1 DEF Withdrawn
  <2>. QED  BY <1>1, <2>2 DEF Ledger!ledgerVars, Withdrawn
<1>. QED  BY <1>2, <1>3

LEMMA OrphanRefines ==
  ASSUME NEW t \in Tasks, OrphanEnds(t) PROVE Ledger!Stop(t)
BY DEF OrphanEnds, Ledger!Stop, disk

(***************************************************************************)
(* The other steps change nothing that the ledger shows.                   *)
(***************************************************************************)
LEMMA Unseen ==
  ASSUME NEW s \in Supervisors,
         \/ \E t \in Tasks : Begin(s, t)
         \/ Interrupt(s) \/ ReadSnapshot(s) \/ CancelCheck(s) \/ LockRepository(s) \/ Baseline(s)
         \/ RecordSpawned(s) \/ Output(s) \/ StillRunning(s) \/ RecordExited(s)
         \/ StartVerification(s) \/ Collecting(s) \/ Collect(s) \/ FinishTask(s) \/ Exit(s)
  PROVE  UNCHANGED Ledger!ledgerVars
<1>1. UNCHANGED <<status, cancelFile, group, launches>>
  BY DEF disk, groups, Begin, Interrupt, ReadSnapshot, CancelCheck, LockRepository, Baseline,
       RecordSpawned, Output, StillRunning, RecordExited, StartVerification, Collecting, Collect,
       FinishTask, Exit
<1>. QED  BY <1>1 DEF Ledger!ledgerVars

LEMMA UnseenReading ==
  ASSUME NEW i \in Inspectors, Inspect(i), ~RequestCancel(i)
  PROVE  UNCHANGED Ledger!ledgerVars
<1>1. UNCHANGED <<status, cancelFile, group, launches>>
  BY DEF disk, groups, Inspect, ReadStatus, Probe, Release, Done
<1>. QED  BY <1>1 DEF Ledger!ledgerVars

LEMMA LedgerStep ==
  IInv /\ SeenIsThere /\ [Next]_vars => [Ledger!Next]_(Ledger!ledgerVars)
<1>. SUFFICES ASSUME IInv, SeenIsThere, [Next]_vars
              PROVE  Ledger!Next \/ UNCHANGED Ledger!ledgerVars
  OBVIOUS
<1>1. ASSUME NEW t \in Tasks, Submit(t) \/ SpawnSupervisor(t) \/ SubmitterDies(t) \/ OrphanEnds(t)
      PROVE  Ledger!Next \/ UNCHANGED Ledger!ledgerVars
  <2>1. CASE SpawnSupervisor(t) \/ SubmitterDies(t)
    BY <2>1 DEF SpawnSupervisor, SubmitterDies, disk, groups, Ledger!ledgerVars
  <2>. QED  BY <1>1, <2>1, SubmitRefines, OrphanRefines DEF Ledger!Next
<1>2. ASSUME NEW s \in Supervisors,
             Execute(s) \/ Crash(s) \/ Interrupt(s) \/ \E t \in Tasks : Begin(s, t)
      PROVE  Ledger!Next \/ UNCHANGED Ledger!ledgerVars
  <2>1. CASE Publish(s)
    BY <2>1, PublishRefines DEF Ledger!Next
  <2>2. CASE Spawn(s)
    BY <2>2, SpawnRefines DEF Ledger!Next
  <2>3. CASE PollCancel(s) \/ Exits(s) \/ DropChild(s)
    BY <2>3, EndRunRefines DEF Ledger!Next
  <2>4. CASE Crash(s)
    BY <2>4, CrashRefines DEF Ledger!Next
  <2>. QED  BY <1>2, <2>1, <2>2, <2>3, <2>4, Unseen DEF Execute
<1>3. ASSUME NEW i \in Inspectors, Inspect(i) PROVE Ledger!Next \/ UNCHANGED Ledger!ledgerVars
  BY <1>3, CancelRefines, UnseenReading DEF Ledger!Next
<1>4. CASE UNCHANGED vars
  BY <1>4 DEF vars, disk, groups, Ledger!ledgerVars
<1>. QED  BY <1>1, <1>2, <1>3, <1>4 DEF Next

(***************************************************************************)
(* Tasks implement their ledger: of everything execute, inspect and cancel *)
(* do, readers see reports that move forward to a final one, commands that *)
(* are started once, in order and one at a time, and no success of a task  *)
(* withdrawn before its verification -- for any number of tasks, of        *)
(* supervisors killed anywhere, and of inspectors.                         *)
(***************************************************************************)
THEOREM TasksImplementLedger == Spec => ImplementsLedger
<1>1. Spec => []SeenIsThere
  BY SeenInitially, SeenStep, InductiveInvariant, PTL DEF Spec
<1>. QED
  BY <1>1, LedgerInit, LedgerStep, InductiveInvariant, PTL DEF Spec, ImplementsLedger, Ledger!Spec

(***************************************************************************)
(* What is reported of a finished task is reported of it for ever: neither *)
(* a supervisor that executes it again, nor one whose record is late,      *)
(* writes status.json once more.                                           *)
(***************************************************************************)
THEOREM FinalReportStands ==
  Spec => [][\A t \in Tasks : status[t].state \in Terminal => status'[t] = status[t]]_status
<1>. DEFINE Stands == \A t \in Tasks : status[t].state \in Terminal => status'[t] = status[t]
<1>1. ASSUME IInv, Ledger!Next PROVE Stands
  <2>1. status \in [Tasks -> Snapshot \cup {Absent}]
    BY <1>1 DEF IInv, TypeOK
  <2>2. ASSUME NEW u \in Tasks, Ledger!Submit(u) PROVE Stands
    <3>1. status[u].state \notin Terminal
      BY <2>2 DEF Ledger!Submit, Ledger!NoReport, Terminal
    <3>2. \A t \in Tasks \ {u} : status'[t] = status[t]
      BY <2>1, <2>2 DEF Ledger!Submit
    <3>. QED  BY <3>1, <3>2
  <2>3. ASSUME NEW u \in Tasks, Ledger!Report(u) PROVE Stands
    <3>1. status[u].state \notin Terminal
      BY <2>3 DEF Ledger!Report, Ledger!Advances, Terminal
    <3>2. \A t \in Tasks \ {u} : status'[t] = status[t]
      BY <2>1, <2>3 DEF Ledger!Report
    <3>. QED  BY <3>1, <3>2
  <2>4. ASSUME status' = status PROVE Stands
    BY <2>4
  <2>. HIDE DEF Stands
  <2>. QED
    BY <1>1, <2>2, <2>3, <2>4
    DEF Ledger!Next, Ledger!Stop, Ledger!Abandon, Ledger!Withdraw, Ledger!Start
<1>2. IInv /\ [Ledger!Next]_(Ledger!ledgerVars) => [Stands]_status
  BY <1>1 DEF Ledger!ledgerVars
<1>. QED
  BY <1>2, TasksImplementLedger, InductiveInvariant, PTL DEF ImplementsLedger, Ledger!Spec

-----------------------------------------------------------------------------
(***************************************************************************)
(* How many steps execute has yet to make, polls of a running command      *)
(* aside: two to each place that follows, as it may be reached by a record *)
(* and its publication.  A worker's run has a verification's after it, and *)
(* a place one falls back to lies behind the one it takes the place of.    *)
(***************************************************************************)
Places ==
  [idle |-> 0, exit |-> 1, finish |-> 2, collect |-> 3, collecting |-> 4, exited |-> 5,
   drop_child |-> 5, poll_exit |-> 6, poll_cancel |-> 6, spawned |-> 7, spawn |-> 8,
   start_verification |-> 9, baseline |-> 14, lock_repository |-> 15, cancel_check |-> 16,
   read |-> 17]

Ahead(step, phase) ==
  Places[step] + (IF step \in Runs /\ phase = "worker" THEN 5 ELSE 0)

StepsLeft(s) ==
  2 * Ahead(Stage(s), sup[s].mem.phase) + (IF At(s, "publish") THEN 1 ELSE 0)

Polls == {"poll_cancel", "poll_exit"}

(* A poll that found the command running, and what it printed meanwhile.   *)
Waits(s) == /\ Stage(s) \in Polls /\ Stage(s)' \in Polls
            /\ sup'[s].mem.phase = sup[s].mem.phase

Nearer(s) == StepsLeft(s)' \in 0 .. StepsLeft(s) - 1

GoesOn(s) ==
  /\ Execute(s) => Nearer(s) \/ Waits(s)
  /\ StepsLeft(s)' > StepsLeft(s) => Waits(s) \/ \E t \in Tasks : Begin(s, t)

LEMMA PlacesCounted ==
  /\ Places["idle"] = 0 /\ Places["exit"] = 1 /\ Places["finish"] = 2 /\ Places["collect"] = 3
  /\ Places["collecting"] = 4 /\ Places["exited"] = 5 /\ Places["drop_child"] = 5
  /\ Places["poll_exit"] = 6 /\ Places["poll_cancel"] = 6 /\ Places["spawned"] = 7
  /\ Places["spawn"] = 8 /\ Places["start_verification"] = 9 /\ Places["baseline"] = 14
  /\ Places["lock_repository"] = 15 /\ Places["cancel_check"] = 16 /\ Places["read"] = 17
BY DEF Places

LEMMA AheadCounted ==
  ASSUME NEW step \in SupervisorStep \ {"publish"}, NEW phase
  PROVE  Ahead(step, phase) \in 0 .. 17
BY PlacesCounted DEF Ahead, SupervisorStep, Runs, Polled

LEMMA StepsLeftCounted ==
  ASSUME IInv, NEW s \in Supervisors
  PROVE  StepsLeft(s) \in 0 .. 35 /\ Stage(s) \in SupervisorStep \ {"publish"}
<1>1. Stage(s) \in SupervisorStep \ {"publish"}
  <2>1. sup[s].pc \in SupervisorStep
    BY SupervisorTyped DEF Supervisor
  <2>2. CASE sup[s].pc # "publish"
    BY <2>1, <2>2 DEF Stage
  <2>3. CASE sup[s].pc = "publish"
    <3>1. Holds(s, sup[s], sup[s].then)
      BY <2>3, SupervisorTyped DEF SupervisorOK, Fits, Written, Good
    <3>. QED  BY <2>3, <3>1 DEF Holds, Stage, Early, Runs, Polled, Late, SupervisorStep
  <2>. QED  BY <2>2, <2>3
<1>2. Ahead(Stage(s), sup[s].mem.phase) \in 0 .. 17
  BY <1>1, AheadCounted
<1>. QED  BY <1>1, <1>2 DEF StepsLeft

(***************************************************************************)
(* A step to a later place; a record, which leads to one or falls back.    *)
(***************************************************************************)
LEMMA MoveGoesOn ==
  ASSUME IInv, NEW s \in Supervisors, sup[s].pc \in SupervisorStep \ {"publish"},
         sup'[s].pc \in SupervisorStep \ {"publish"},
         Ahead(sup'[s].pc, sup'[s].mem.phase) < Ahead(sup[s].pc, sup[s].mem.phase)
  PROVE  Nearer(s)
<1>1. /\ Stage(s)' = sup'[s].pc /\ Stage(s) = sup[s].pc
      /\ ~At(s, "publish") /\ ~At(s, "publish")'
  BY DEF Stage, At
<1>2. /\ Ahead(sup'[s].pc, sup'[s].mem.phase) \in 0 .. 17
      /\ Ahead(sup[s].pc, sup[s].mem.phase) \in 0 .. 17
  BY AheadCounted
<1>3. /\ StepsLeft(s)' = 2 * Ahead(sup'[s].pc, sup'[s].mem.phase)
      /\ StepsLeft(s) = 2 * Ahead(sup[s].pc, sup[s].mem.phase)
  BY <1>1, <1>2 DEF StepsLeft
<1>. QED  BY <1>2, <1>3 DEF Nearer

LEMMA RecordGoesOn ==
  ASSUME IInv, NEW s \in Supervisors, sup[s].pc \in SupervisorStep \ {"publish"},
         NEW p \in Supervisor, p.mem \in Snapshot,
         NEW next \in SupervisorStep \ {"publish"}, NEW fallback \in SupervisorStep \ {"publish"},
         Record(s, p, next, fallback),
         Ahead(next, p.mem.phase) < Ahead(sup[s].pc, sup[s].mem.phase),
         Ahead(fallback, p.mem.phase) < Ahead(sup[s].pc, sup[s].mem.phase)
  PROVE  Nearer(s)
<1>1. \E r \in Supervisor :
        /\ sup' = [sup EXCEPT ![s] = r] /\ Recorded(p, r)
        /\ (r.pc = "publish" /\ r.then = next) \/ r.pc = fallback
  BY Records
<1>2. PICK r \in Supervisor :
        /\ sup' = [sup EXCEPT ![s] = r] /\ Recorded(p, r)
        /\ (r.pc = "publish" /\ r.then = next) \/ r.pc = fallback
  BY <1>1
<1>3. sup'[s] = r /\ r.mem.phase = p.mem.phase
  BY <1>2, Updated DEF Recorded
<1>4. CASE r.pc = fallback
  BY <1>3, <1>4, MoveGoesOn
<1>5. CASE r.pc = "publish" /\ r.then = next
  <2>1. Stage(s)' = next /\ sup'[s].mem.phase = p.mem.phase /\ At(s, "publish")'
    BY <1>3, <1>5 DEF Stage, At
  <2>2. Stage(s) = sup[s].pc /\ ~At(s, "publish")
    BY DEF Stage, At
  <2>3. /\ Ahead(next, p.mem.phase) \in 0 .. 17 /\ Ahead(sup[s].pc, sup[s].mem.phase) \in 0 .. 17
    BY AheadCounted
  <2>4. StepsLeft(s)' = 2 * Ahead(next, p.mem.phase) + 1
    BY <2>1 DEF StepsLeft
  <2>5. StepsLeft(s) = 2 * Ahead(sup[s].pc, sup[s].mem.phase)
    BY <2>2, <2>3 DEF StepsLeft
  <2>. QED  BY <2>3, <2>4, <2>5 DEF Nearer
<1>. QED  BY <1>2, <1>4, <1>5

(* The record of a task that is finished leads to the end of execute.      *)
LEMMA FinishGoesOn ==
  ASSUME IInv, NEW s \in Supervisors, Works(s), sup[s].pc # "publish",
         NEW state \in Terminal, Finish(s, state)
  PROVE  Nearer(s)
<1>. DEFINE p == [sup[s] EXCEPT !.mem.state = state, !.mem.phase = "completed"]
            m == [sup[s].mem EXCEPT !.state = state, !.phase = "completed"]
<1>1. /\ sup[s] \in Supervisor /\ sup[s].mem \in Snapshot
      /\ sup[s].pc \in {"start_verification"} \cup Early \cup Runs \cup Late
  BY AtWork, SupervisorTyped
<1>2. m \in Snapshot /\ m.phase = "completed"
  BY <1>1 DEF Snapshot, State, Phase
<1>3. p = [sup[s] EXCEPT !.mem = m]
  BY <1>1 DEF Supervisor, Snapshot
<1>4. Record(s, p, "exit", "exit")
  BY DEF Finish
<1>. HIDE DEF m, p
<1>5. p \in Supervisor /\ p.mem = m
  BY <1>1, <1>2, <1>3 DEF Supervisor
<1>6. Ahead("exit", p.mem.phase) = 1
  BY PlacesCounted DEF Ahead, Runs, Polled
<1>7. Ahead(sup[s].pc, sup[s].mem.phase) > 1
  BY <1>1, PlacesCounted DEF Ahead, Runs, Polled, Early, Late
<1>8. sup[s].pc \in SupervisorStep \ {"publish"} /\ "exit" \in SupervisorStep \ {"publish"}
  BY <1>1 DEF SupervisorStep, Runs, Polled, Early, Late
<1>. QED  BY <1>2, <1>4, <1>5, <1>6, <1>7, <1>8, RecordGoesOn

LEMMA GotoFields ==
  ASSUME IInv, NEW s \in Supervisors, NEW next, Goto(s, next)
  PROVE  sup'[s].pc = next /\ sup'[s].mem = sup[s].mem
BY SupervisorTyped DEF SupervisorsTyped, Supervisor, Goto

(***************************************************************************)
(* The steps before the first command, and those after the last.           *)
(***************************************************************************)
LEMMA EarlyGoesOn ==
  ASSUME IInv, NEW s \in Supervisors,
         ReadSnapshot(s) \/ CancelCheck(s) \/ LockRepository(s) \/ Baseline(s)
  PROVE  Nearer(s)
<1>. USE PlacesCounted
<1>1. CASE ReadSnapshot(s)
  <2>1. sup[s].pc = "read" /\ sup'[s].pc \in {"cancel_check", "exit"}
    BY <1>1, SupervisorTyped DEF ReadSnapshot, Goto, At, SupervisorsTyped, Supervisor
  <2>. QED  BY <2>1, MoveGoesOn DEF SupervisorStep, Ahead, Runs, Polled
<1>2. CASE CancelCheck(s) \/ LockRepository(s) \/ Baseline(s)
  <2>1. /\ sup[s].pc \in Early /\ Works(s) /\ sup[s].pc # "publish"
        /\ sup[s].pc \in SupervisorStep \ {"publish"}
    BY <1>2 DEF CancelCheck, LockRepository, Baseline, At, Early, Works, AtRest, SupervisorStep
  <2>2. sup[s].mem \in Snapshot /\ sup[s] \in Supervisor
    BY <2>1, AtWork, SupervisorTyped
  <2>3. ASSUME NEW state \in Terminal, Finish(s, state) PROVE Nearer(s)
    BY <2>1, <2>3, FinishGoesOn
  <2>4. ASSUME NEW next \in {"lock_repository", "baseline", "exit"}, Goto(s, next),
               Places[next] < Places[sup[s].pc]
        PROVE  Nearer(s)
    <3>1. sup'[s].pc = next
      BY <2>4, GotoFields
    <3>. QED  BY <2>1, <2>4, <3>1, MoveGoesOn DEF SupervisorStep, Ahead, Runs, Polled, Early
  <2>5. CASE CancelCheck(s)
    BY <2>3, <2>4, <2>5 DEF CancelCheck, At, Terminal
  <2>6. CASE LockRepository(s)
    BY <2>3, <2>4, <2>6 DEF LockRepository, At, Terminal
  <2>7. CASE Baseline(s)
    <3>. DEFINE p == [sup[s] EXCEPT !.mem.state = "running", !.mem.phase = "worker"]
                m == [sup[s].mem EXCEPT !.state = "running", !.phase = "worker"]
    <3>1. CASE Record(s, p, "spawn", "exit")
      <4>1. m \in Snapshot /\ m.phase = "worker" /\ sup[s].pc = "baseline"
        BY <2>2, <2>7 DEF Snapshot, State, Phase, Baseline, At
      <4>2. p = [sup[s] EXCEPT !.mem = m]
        BY <2>2 DEF Supervisor, Snapshot
      <4>. HIDE DEF m, p
      <4>3. p \in Supervisor /\ p.mem = m
        BY <2>2, <4>1, <4>2 DEF Supervisor
      <4>4. /\ Ahead("spawn", p.mem.phase) = 13 /\ Ahead("exit", p.mem.phase) = 1
            /\ Ahead(sup[s].pc, sup[s].mem.phase) = 14
        BY <4>1, <4>3 DEF Ahead, Runs, Polled
      <4>5. {"spawn", "exit"} \subseteq SupervisorStep \ {"publish"}
        BY DEF SupervisorStep
      <4>. QED  BY <2>1, <3>1, <4>1, <4>3, <4>4, <4>5, RecordGoesOn
    <3>2. CASE Finish(s, "blocked") \/ Goto(s, "exit")
      BY <2>3, <2>4, <2>7, <3>2 DEF Baseline, At, Terminal
    <3>. QED  BY <2>7, <3>1, <3>2 DEF Baseline
  <2>. QED  BY <1>2, <2>5, <2>6, <2>7
<1>. QED  BY <1>1, <1>2

LEMMA LateGoesOn ==
  ASSUME IInv, NEW s \in Supervisors, Collecting(s) \/ Collect(s) \/ FinishTask(s)
  PROVE  Nearer(s)
<1>. USE PlacesCounted
<1>1. sup[s].pc \in Late /\ Works(s) /\ sup[s].pc \in SupervisorStep \ {"publish"}
  BY DEF Collecting, Collect, FinishTask, At, Late, Works, AtRest, SupervisorStep
<1>2. sup[s].mem \in Snapshot /\ sup[s] \in Supervisor /\ Verified(sup[s], sup[s].pc, sup[s].verdict)
  BY <1>1, AtWork, SupervisorTyped
<1>3. ASSUME NEW step \in Late \cup {"exit"}, NEW phase PROVE Ahead(step, phase) = Places[step]
  BY DEF Ahead, Runs, Polled, Late
<1>4. {"collect", "finish", "exit"} \subseteq SupervisorStep \ {"publish"}
  BY DEF SupervisorStep
<1>5. CASE Collecting(s)
  <2>. DEFINE p == [sup[s] EXCEPT !.mem.phase = "artifacts"]
              m == [sup[s].mem EXCEPT !.phase = "artifacts"]
  <2>1. Record(s, p, "collect", "exit") /\ sup[s].pc = "collecting"
    BY <1>5 DEF Collecting, At
  <2>2. m \in Snapshot /\ p = [sup[s] EXCEPT !.mem = m]
    BY <1>2 DEF Snapshot, Phase, Supervisor
  <2>. HIDE DEF p, m
  <2>3. p \in Supervisor /\ p.mem = m
    BY <1>2, <2>2 DEF Supervisor
  <2>4. /\ Ahead("collect", p.mem.phase) = 3 /\ Ahead("exit", p.mem.phase) = 1
        /\ Ahead(sup[s].pc, sup[s].mem.phase) = 4
    BY <1>3, <2>1 DEF Late
  <2>5. /\ p.mem \in Snapshot
        /\ Ahead("collect", p.mem.phase) < Ahead(sup[s].pc, sup[s].mem.phase)
        /\ Ahead("exit", p.mem.phase) < Ahead(sup[s].pc, sup[s].mem.phase)
    BY <2>2, <2>3, <2>4
  <2>. QED  BY <1>1, <1>4, <2>1, <2>3, <2>5, RecordGoesOn
<1>6. CASE Collect(s)
  <2>1. /\ Ahead("finish", sup[s].mem.phase) = 2 /\ Ahead(sup[s].pc, sup[s].mem.phase) = 3
    BY <1>3, <1>6 DEF Late, Collect, At
  <2>2. CASE Record(s, sup[s], "finish", "finish")
    BY <1>1, <1>2, <1>4, <2>1, <2>2, RecordGoesOn
  <2>3. CASE sup' = [sup EXCEPT ![s].pc = "finish", ![s].verdict = "failed"]
    <3>1. sup'[s].pc = "finish" /\ sup'[s].mem = sup[s].mem
      BY <2>3, SupervisorTyped DEF SupervisorsTyped, Supervisor
    <3>. QED  BY <1>1, <1>4, <2>1, <3>1, MoveGoesOn
  <2>. QED  BY <1>6, <2>2, <2>3 DEF Collect
<1>7. CASE FinishTask(s)
  <2>1. sup[s].verdict \in Terminal
    BY <1>1, <1>2 DEF Verified, Supervisor
  <2>. QED  BY <1>1, <1>7, <2>1, FinishGoesOn DEF FinishTask
<1>. QED  BY <1>5, <1>6, <1>7

(***************************************************************************)
(* A command from its spawn to what follows its end.                       *)
(***************************************************************************)
LEMMA CommandGoesOn ==
  ASSUME IInv, NEW s \in Supervisors,
         \/ Spawn(s) \/ RecordSpawned(s) \/ DropChild(s) \/ PollCancel(s) \/ Exits(s)
         \/ RecordExited(s) \/ StartVerification(s) \/ StillRunning(s) \/ Output(s)
  PROVE  Nearer(s) \/ Waits(s)
<1>. USE PlacesCounted
<1>1. /\ sup[s].pc \in Runs \cup {"start_verification"} /\ Works(s)
      /\ sup[s].pc \in SupervisorStep \ {"publish"}
  BY DEF Spawn, RecordSpawned, DropChild, PollCancel, Exits, RecordExited, StartVerification,
       StillRunning, Output, At, Runs, Polled, Works, AtRest, SupervisorStep
<1>2. /\ Stage(s) = sup[s].pc /\ sup[s].mem \in Snapshot
      /\ sup \in SupervisorsTyped /\ sup[s] \in Supervisor
      /\ sup[s].pc \in Runs => sup[s].mem.phase \in {"worker", "verification"}
  BY <1>1, AtWork, SupervisorTyped DEF Commands
<1>3. ASSUME NEW next \in {"spawned", "exited", "collecting"}, sup'[s].pc = next,
             sup'[s].mem = sup[s].mem, Places[next] < Places[sup[s].pc],
             next # "collecting" => sup[s].pc \in Runs
      PROVE  Nearer(s)
  BY <1>1, <1>3, MoveGoesOn DEF SupervisorStep, Ahead, Runs, Polled
<1>4. CASE Spawn(s)
  <2>1. /\ sup[s].pc = "spawn" /\ sup'[s].pc \in {"spawned", "collecting"}
        /\ sup'[s].mem = sup[s].mem
    BY <1>2, <1>4 DEF Spawn, At, SupervisorsTyped, Supervisor
  <2>. QED  BY <1>3, <2>1 DEF Runs
<1>5. CASE RecordSpawned(s)
  <2>1. Record(s, sup[s], "poll_cancel", "drop_child") /\ sup[s].pc = "spawned"
    BY <1>5 DEF RecordSpawned, At
  <2>2. /\ Ahead("poll_cancel", sup[s].mem.phase) < Ahead(sup[s].pc, sup[s].mem.phase)
        /\ Ahead("drop_child", sup[s].mem.phase) < Ahead(sup[s].pc, sup[s].mem.phase)
        /\ {"poll_cancel", "drop_child"} \subseteq SupervisorStep \ {"publish"}
    BY <2>1 DEF Ahead, Runs, Polled, SupervisorStep
  <2>. QED  BY <1>1, <1>2, <2>1, <2>2, RecordGoesOn
<1>6. CASE DropChild(s)
  <2>1. sup[s].pc = "drop_child" /\ sup'[s].pc = "collecting" /\ sup'[s].mem = sup[s].mem
    BY <1>6, GotoFields DEF DropChild, At
  <2>. QED  BY <1>3, <2>1
<1>7. ASSUME NEW result, EndRun(s, result), sup[s].pc \in Polls PROVE Nearer(s)
  <2>1. sup'[s].pc \in {"exited", "collecting"} /\ sup'[s].mem = sup[s].mem
    BY <1>2, <1>7 DEF EndRun, SupervisorsTyped, Supervisor
  <2>. QED  BY <1>3, <1>7, <2>1 DEF Polls, Runs, Polled
<1>8. ASSUME NEW next \in Polls, Goto(s, next), sup[s].pc \in Polls PROVE Waits(s)
  <2>1. sup'[s].pc = next /\ sup'[s].mem = sup[s].mem
    BY <1>8, GotoFields
  <2>. QED  BY <1>2, <1>8, <2>1 DEF Waits, Stage, Polls
<1>9. CASE PollCancel(s) \/ StillRunning(s) \/ Exits(s)
  <2>1. sup[s].pc \in Polls
    BY <1>9 DEF PollCancel, StillRunning, Exits, At, Polls
  <2>2. \/ \E result : EndRun(s, result)
        \/ \E next \in Polls : Goto(s, next)
    BY <1>9 DEF PollCancel, StillRunning, Exits, Polls
  <2>. QED  BY <1>7, <1>8, <2>1, <2>2
<1>10. CASE Output(s)
  <2>. DEFINE p == [sup[s] EXCEPT !.outputs = @ + 1]
  <2>1. /\ sup[s].pc \in Polls /\ sup[s].outputs < MaxOutputs
        /\ Record(s, p, sup[s].pc, sup[s].pc)
    BY <1>10 DEF Output, Polls
  <2>2. p \in Supervisor /\ p.mem = sup[s].mem
    BY <1>2, <2>1, TaskAssumption DEF Supervisor
  <2>. HIDE DEF p
  <2>3. \E r \in Supervisor :
          /\ sup' = [sup EXCEPT ![s] = r] /\ Recorded(p, r)
          /\ (r.pc = "publish" /\ r.then = sup[s].pc) \/ r.pc = sup[s].pc
    BY <1>1, <1>2, <2>1, <2>2, Records
  <2>4. /\ sup'[s].mem.phase = sup[s].mem.phase
        /\ \/ sup'[s].pc = "publish" /\ sup'[s].then = sup[s].pc
           \/ sup'[s].pc = sup[s].pc
    BY <2>2, <2>3, Updated DEF Recorded
  <2>. QED  BY <1>1, <1>2, <2>1, <2>4 DEF Waits, Stage
<1>11. CASE RecordExited(s)
  <2>. DEFINE phase == sup[s].mem.phase
              result == sup[s].result
              m == [sup[s].mem EXCEPT ![phase] = result]
              p == [sup[s] EXCEPT !.mem[phase] = result, !.result = "none",
                                  !.verdict = Outcome(result)]
              next == After(phase, result)
  <2>1. /\ sup[s].pc = "exited" /\ phase \in {"worker", "verification"} /\ result \in Result
        /\ Outcome(result) \in Terminal /\ Record(s, p, next, "collecting")
    BY <1>1, <1>2, <1>11 DEF RecordExited, At, Runs, Outcome, Terminal, Supervisor
  <2>2. m \in Snapshot /\ m.phase = phase
    BY <1>2, <2>1 DEF Snapshot
  <2>3. p = [sup[s] EXCEPT !.mem = m, !.result = "none", !.verdict = Outcome(result)]
    BY <1>2, <2>1 DEF Supervisor, Snapshot
  <2>4. /\ next \in {"start_verification", "collecting"}
        /\ next = "start_verification" => phase = "worker"
    BY DEF After
  <2>. HIDE DEF p, m, next, result
  <2>5. p \in Supervisor /\ p.mem = m
    BY <1>2, <2>1, <2>2, <2>3 DEF Supervisor, Result
  <2>6. /\ Ahead(sup[s].pc, sup[s].mem.phase) = 5 + (IF phase = "worker" THEN 5 ELSE 0)
        /\ Ahead("collecting", p.mem.phase) = 4 /\ Ahead("start_verification", p.mem.phase) = 9
    BY <2>1 DEF Ahead, Runs, Polled
  <2>7. /\ Ahead(next, p.mem.phase) < Ahead(sup[s].pc, sup[s].mem.phase)
        /\ Ahead("collecting", p.mem.phase) < Ahead(sup[s].pc, sup[s].mem.phase)
    BY <2>4, <2>6
  <2>8. next \in SupervisorStep \ {"publish"} /\ "collecting" \in SupervisorStep \ {"publish"}
    BY <2>4 DEF SupervisorStep
  <2>. QED  BY <1>1, <2>1, <2>2, <2>5, <2>7, <2>8, RecordGoesOn
<1>12. CASE StartVerification(s)
  <2>. DEFINE m == [sup[s].mem EXCEPT !.phase = "verification"]
              p == [sup[s] EXCEPT !.mem.phase = "verification"]
  <2>1. sup[s].pc = "start_verification"
    BY <1>12 DEF StartVerification, At
  <2>2. CASE sup' = [sup EXCEPT ![s].pc = "collecting", ![s].verdict = "cancelled"]
    <3>1. sup'[s].pc = "collecting" /\ sup'[s].mem = sup[s].mem
      BY <1>2, <2>2 DEF SupervisorsTyped, Supervisor
    <3>. QED  BY <1>3, <2>1, <3>1
  <2>3. CASE Record(s, p, "spawn", "collecting")
    <3>1. m \in Snapshot /\ m.phase = "verification" /\ p = [sup[s] EXCEPT !.mem = m]
      BY <1>2 DEF Snapshot, Phase, Supervisor
    <3>. HIDE DEF m, p
    <3>2. p \in Supervisor /\ p.mem = m /\ p.mem \in Snapshot
      BY <1>2, <3>1 DEF Supervisor
    <3>3. /\ Ahead("spawn", p.mem.phase) < Ahead(sup[s].pc, sup[s].mem.phase)
          /\ Ahead("collecting", p.mem.phase) < Ahead(sup[s].pc, sup[s].mem.phase)
          /\ {"spawn", "collecting"} \subseteq SupervisorStep \ {"publish"}
      BY <2>1, <3>1, <3>2 DEF Ahead, Runs, Polled, SupervisorStep
    <3>. QED  BY <1>1, <2>3, <3>2, <3>3, RecordGoesOn
  <2>. QED  BY <1>12, <2>2, <2>3 DEF StartVerification
<1>. QED  BY <1>4, <1>5, <1>6, <1>9, <1>10, <1>11, <1>12

(* A place one falls back to has no more steps ahead than the other.       *)
LEMMA RescueIsNoFurther ==
  ASSUME NEW s, NEW p, Written(s, p)
  PROVE  /\ Ahead(p.fallback, p.mem.phase) <= Ahead(p.then, p.mem.phase)
         /\ p.fallback \in SupervisorStep \ {"publish"} /\ p.then \in SupervisorStep \ {"publish"}
<1>. USE PlacesCounted
<1>1. Rescue(p.then, p.fallback) /\ Holds(s, p, p.then) /\ Holds(s, p, p.fallback)
  BY DEF Written, Good
<1>2. p.fallback \in SupervisorStep \ {"publish"} /\ p.then \in SupervisorStep \ {"publish"}
  BY <1>1 DEF Holds, Early, Runs, Polled, Late, SupervisorStep
<1>3. CASE p.fallback = p.then
  BY <1>2, <1>3, AheadCounted
<1>4. CASE p.fallback = "exit"
  <2>1. Ahead(p.fallback, p.mem.phase) = 1
    BY <1>4 DEF Ahead, Runs, Polled
  <2>2. Ahead(p.then, p.mem.phase) >= 1
    BY <1>1 DEF Ahead, Holds, Early, Runs, Polled, Late
  <2>. QED  BY <1>2, <2>1, <2>2
<1>5. CASE p.fallback = "drop_child" /\ p.then = "poll_cancel"
  BY <1>2, <1>5 DEF Ahead, Runs, Polled
<1>6. CASE p.fallback = "collecting" /\ p.then \in {"spawn", "start_verification"}
  BY <1>2, <1>6 DEF Ahead, Runs, Polled
<1>. QED  BY <1>1, <1>3, <1>4, <1>5, <1>6 DEF Rescue

LEMMA PublishGoesOn ==
  ASSUME IInv, NEW s \in Supervisors, Publish(s)
  PROVE  Nearer(s)
<1>1. sup[s].pc = "publish" /\ Written(s, sup[s])
  BY SupervisorTyped DEF Publish, At, SupervisorOK, Fits
<1>2. \E r \in Supervisor : /\ sup' = [sup EXCEPT ![s] = r] /\ r.mem = sup[s].mem
                            /\ r.pc \in {sup[s].then, sup[s].fallback}
  BY Published
<1>3. sup'[s].mem = sup[s].mem /\ sup'[s].pc \in {sup[s].then, sup[s].fallback}
  BY <1>2, Updated
<1>4. /\ Ahead(sup[s].fallback, sup[s].mem.phase) <= Ahead(sup[s].then, sup[s].mem.phase)
      /\ sup[s].fallback \in SupervisorStep \ {"publish"}
      /\ sup[s].then \in SupervisorStep \ {"publish"}
  BY <1>1, RescueIsNoFurther
<1>5. /\ Stage(s) = sup[s].then /\ Stage(s)' = sup'[s].pc
      /\ At(s, "publish") /\ ~At(s, "publish")'
  BY <1>1, <1>3, <1>4 DEF Stage, At
<1>6. /\ Ahead(sup[s].then, sup[s].mem.phase) \in 0 .. 17
      /\ Ahead(sup'[s].pc, sup[s].mem.phase) \in 0 .. 17
      /\ Ahead(sup'[s].pc, sup[s].mem.phase) <= Ahead(sup[s].then, sup[s].mem.phase)
  BY <1>3, <1>4, AheadCounted
<1>7. /\ StepsLeft(s) = 2 * Ahead(sup[s].then, sup[s].mem.phase) + 1
      /\ StepsLeft(s)' = 2 * Ahead(sup'[s].pc, sup[s].mem.phase)
  BY <1>3, <1>5, <1>6 DEF StepsLeft
<1>. QED  BY <1>6, <1>7 DEF Nearer

LEMMA EndGoesOn ==
  ASSUME IInv, NEW s \in Supervisors, Exit(s) \/ Crash(s)
  PROVE  StepsLeft(s)' = 0
<1>1. sup'[s] = IdleSupervisor
  BY SupervisorTyped DEF Exit, Crash, SupervisorsTyped
<1>2. Stage(s)' = "idle" /\ ~At(s, "publish")'
  BY <1>1 DEF Stage, At, IdleSupervisor
<1>. QED  BY <1>2, PlacesCounted DEF StepsLeft, Ahead, Runs, Polled

(* A supervisor's step leaves the others alone.                            *)
LEMMA OthersStay ==
  ASSUME IInv, NEW s \in Supervisors, NEW r \in Supervisors, r # s,
         Execute(s) \/ Crash(s) \/ Interrupt(s) \/ \E t \in Tasks : Begin(s, t)
  PROVE  sup'[r] = sup[r]
<1>1. sup \in SupervisorsTyped
  BY SupervisorTyped
<1>2. CASE ReadSnapshot(s) \/ CancelCheck(s) \/ LockRepository(s) \/ Baseline(s)
  BY <1>1, <1>2 DEF SupervisorsTyped, ReadSnapshot, CancelCheck, LockRepository, Baseline, Goto,
       Finish, Record
<1>3. CASE Spawn(s) \/ RecordSpawned(s) \/ DropChild(s) \/ Output(s)
  BY <1>1, <1>3 DEF SupervisorsTyped, Spawn, RecordSpawned, DropChild, Output, Goto, Record
<1>4. CASE PollCancel(s) \/ StillRunning(s) \/ Exits(s) \/ RecordExited(s)
  BY <1>1, <1>4 DEF SupervisorsTyped, PollCancel, StillRunning, Exits, EndRun, RecordExited, Goto,
       Record
<1>5. CASE StartVerification(s) \/ Collecting(s) \/ Collect(s) \/ FinishTask(s)
  BY <1>1, <1>5 DEF SupervisorsTyped, StartVerification, Collecting, Collect, FinishTask, Finish,
       Record
<1>6. CASE Publish(s) \/ Exit(s) \/ Crash(s) \/ Interrupt(s) \/ \E t \in Tasks : Begin(s, t)
  BY <1>1, <1>6 DEF SupervisorsTyped, Publish, Exit, Crash, Interrupt, Begin
<1>. QED  BY <1>2, <1>3, <1>4, <1>5, <1>6 DEF Execute

(***************************************************************************)
(* A supervisor is not sent back: each step of execute but the polls of a  *)
(* running command leaves fewer of them to make, at most 35 in all, be its *)
(* writes done or refused, and nothing that anybody else does makes it     *)
(* more.  (That a step is made, and a poll finds the command ended, is     *)
(* fairness.)                                                              *)
(***************************************************************************)
THEOREM ExecuteGoesOn ==
  Spec => [][\A s \in Supervisors : GoesOn(s)]_vars
<1>1. ASSUME IInv, [Next]_vars, NEW s \in Supervisors PROVE GoesOn(s)
  <2>0. StepsLeft(s) \in Nat
    BY <1>1, StepsLeftCounted
  <2>1. ASSUME Execute(s) PROVE Nearer(s) \/ Waits(s)
    <3>1. CASE Exit(s)
      <4>1. Stage(s) = "exit" /\ ~At(s, "publish")
        BY <3>1 DEF Exit, At, Stage
      <4>2. StepsLeft(s) = 2
        BY <4>1, PlacesCounted DEF StepsLeft, Ahead, Runs, Polled
      <4>. QED  BY <1>1, <3>1, <4>2, EndGoesOn DEF Nearer
    <3>. QED
      BY <1>1, <2>1, <3>1, EarlyGoesOn, LateGoesOn, CommandGoesOn, PublishGoesOn DEF Execute
  <2>2. ASSUME sup'[s] = sup[s] PROVE ~(StepsLeft(s)' > StepsLeft(s))
    <3>1. StepsLeft(s)' = StepsLeft(s)
      BY <2>2 DEF StepsLeft, Stage, At
    <3>. QED  BY <2>0, <3>1
  <2>3. ASSUME Interrupt(s) PROVE ~(StepsLeft(s)' > StepsLeft(s))
    <3>1. /\ sup'[s].pc = sup[s].pc /\ sup'[s].then = sup[s].then /\ sup'[s].mem = sup[s].mem
      BY <1>1, <2>3, SupervisorTyped DEF Interrupt, SupervisorsTyped, Supervisor
    <3>2. StepsLeft(s)' = StepsLeft(s)
      BY <3>1 DEF StepsLeft, Stage, At
    <3>. QED  BY <2>0, <3>2
  <2>4. \/ sup'[s] = sup[s] \/ Execute(s) \/ Interrupt(s) \/ Crash(s)
        \/ \E t \in Tasks : Begin(s, t)
    <3>1. ASSUME NEW r \in Supervisors,
                 Execute(r) \/ Crash(r) \/ Interrupt(r) \/ \E t \in Tasks : Begin(r, t)
          PROVE  r = s \/ sup'[s] = sup[s]
      BY <1>1, <3>1, OthersStay
    <3>2. ASSUME \/ UNCHANGED vars
                 \/ \E t \in Tasks :
                      Submit(t) \/ SpawnSupervisor(t) \/ SubmitterDies(t) \/ OrphanEnds(t)
                 \/ \E i \in Inspectors : Inspect(i)
          PROVE  sup' = sup
      BY <3>2 DEF vars, Submit, AppendSubmission, PublishSubmission, SpawnSupervisor,
           SubmitterDies, OrphanEnds, Inspect, ReadStatus, Probe, Release, Done, RequestCancel
    <3>. QED  BY <1>1, <3>1, <3>2 DEF Next
  <2>5. ASSUME StepsLeft(s)' > StepsLeft(s) PROVE Waits(s) \/ \E t \in Tasks : Begin(s, t)
    <3>1. ~Crash(s)
      BY <1>1, <2>0, <2>5, EndGoesOn
    <3>2. Execute(s) => Waits(s)
      BY <2>0, <2>1, <2>5 DEF Nearer
    <3>. QED  BY <2>2, <2>3, <2>4, <2>5, <3>1, <3>2
  <2>. QED  BY <2>1, <2>5 DEF GoesOn
<1>2. IInv /\ [Next]_vars => [\A s \in Supervisors : GoesOn(s)]_vars
  BY <1>1
<1>. QED  BY <1>2, InductiveInvariant, PTL DEF Spec
=============================================================================
