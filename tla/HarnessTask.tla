----------------------------- MODULE HarnessTask -----------------------------
(***************************************************************************)
(* Explicit coding tasks of crates/leio-harness/src/task.rs.  A submitted  *)
(* task is executed by a detached supervisor process, which holds the      *)
(* task's owner.lock and the checkout's repository.lock, runs a worker and *)
(* a verification command and records its progress in events.ndjson and    *)
(* status.json.  Other processes only read these files: to tell whether a  *)
(* task is still supervised, they try the owner.lock themselves.           *)
(*                                                                         *)
(* One checkout.  A record is two writes, journal first; either can fail,  *)
(* and a supervisor may die between any two steps; the kernel then drops   *)
(* its locks, and the process group it started goes on as an orphan.       *)
(***************************************************************************)
EXTENDS Naturals

CONSTANTS
  Tasks,        \* the run ids
  Supervisors,  \* processes that run `task execute`
  Inspectors,   \* processes that run `task status`, `list` or `cancel`
  Nobody,       \* the owner of a lock nobody holds
  MayCrash,     \* whether supervisors are killed in this instance
  MaySignal,    \* whether they are sent SIGTERM or SIGINT
  MaxOutputs    \* bound: output events a supervisor records

ASSUME TaskAssumption ==
  /\ Nobody \notin Supervisors \cup Inspectors
  /\ Supervisors \cap Inspectors = {}
  /\ MayCrash \in BOOLEAN /\ MaySignal \in BOOLEAN
  /\ MaxOutputs \in Nat

VARIABLES
  status,     \* status.json of each task
  lastEvent,  \* the last event appended to events.ndjson
  ownerLock,  \* who holds owner.lock
  repoLock,   \* who holds repository.lock
  cancelFile, \* cancel.request: the phase on disk when it was written
  group,      \* the process group of the task's current command
  launches,   \* history: how often each command was started
  submission, \* where the submit of each task is
  sup,        \* the supervisors
  ins         \* the inspectors

disk   == <<status, lastEvent, cancelFile>>
locks  == <<ownerLock, repoLock>>
groups == <<group, launches>>
vars   == <<disk, locks, groups, submission, sup, ins>>

Terminal == {"blocked", "failed", "cancelled", "succeeded"}
Result   == {"none", "passed", "failed", "canceled"}
Phase    == {"queued", "worker", "verification", "artifacts", "completed"}

(***************************************************************************)
(* TaskSnapshot; "absent" before the task is submitted.                    *)
(***************************************************************************)
Absent == [state |-> "absent", phase |-> "queued", seq |-> 0,
           worker |-> "none", verification |-> "none"]
Queued == [Absent EXCEPT !.state = "queued", !.seq = 1]
Refused == [Absent EXCEPT !.state = "failed", !.phase = "completed", !.seq = 2]

IdleSupervisor ==
  [pc |-> "idle", task |-> Nobody, mem |-> Absent, then |-> "idle",
   fallback |-> "idle", result |-> "none", verdict |-> "none", interrupted |-> FALSE,
   outputs |-> 0]

IdleInspector ==
  [pc |-> "idle", task |-> Nobody, view |-> "absent", seen |-> "absent"]

Init ==
  /\ status = [t \in Tasks |-> Absent]
  /\ lastEvent = [t \in Tasks |-> [seq |-> 0, state |-> "absent"]]
  /\ cancelFile = [t \in Tasks |-> "none"]
  /\ ownerLock = [t \in Tasks |-> Nobody]
  /\ repoLock = Nobody
  /\ group = [t \in Tasks |-> "none"]
  /\ launches = [t \in Tasks |-> [worker |-> 0, verification |-> 0]]
  /\ submission = [t \in Tasks |-> "new"]
  /\ sup = [s \in Supervisors |-> IdleSupervisor]
  /\ ins = [i \in Inspectors |-> IdleInspector]

-----------------------------------------------------------------------------
(***************************************************************************)
(* submit: the record of the queued task, and the detached supervisor; if  *)
(* that cannot be spawned, a terminal record, which takes no lock.  Each   *)
(* record is an append and a replacement, and submit ends where one fails, *)
(* where supervisor.log cannot be opened, or where it dies.                *)
(***************************************************************************)
Event(m) == [seq |-> m.seq, state |-> m.state]

ContinueSubmit(t, step) == submission' = [submission EXCEPT ![t] = step]

AppendSubmission(t, at, m, step) ==
  /\ submission[t] = at
  /\ \/ /\ lastEvent' = [lastEvent EXCEPT ![t] = Event(m)]
        /\ ContinueSubmit(t, step)
     \/ /\ ContinueSubmit(t, "over")
        /\ UNCHANGED lastEvent
  /\ UNCHANGED <<status, cancelFile, locks, groups, sup, ins>>

PublishSubmission(t, at, m, step) ==
  /\ submission[t] = at
  /\ \/ /\ status' = [status EXCEPT ![t] = m]
        /\ ContinueSubmit(t, step)
     \/ /\ ContinueSubmit(t, "over")
        /\ UNCHANGED status
  /\ UNCHANGED <<lastEvent, cancelFile, locks, groups, sup, ins>>

Submit(t) ==
  \/ AppendSubmission(t, "new", Queued, "queued")
  \/ PublishSubmission(t, "queued", Queued, "spawn")
  \/ AppendSubmission(t, "refused", Refused, "failed")
  \/ PublishSubmission(t, "failed", Refused, "over")

SpawnSupervisor(t) ==
  /\ submission[t] = "spawn"
  /\ ContinueSubmit(t, "refused") \/ ContinueSubmit(t, "over")
  /\ UNCHANGED <<disk, locks, groups, sup, ins>>

SubmitterDies(t) ==
  /\ MayCrash
  /\ submission[t] \notin {"new", "over"}
  /\ ContinueSubmit(t, "over")
  /\ UNCHANGED <<disk, locks, groups, sup, ins>>

-----------------------------------------------------------------------------
(***************************************************************************)
(* The supervisor: execute.                                                *)
(***************************************************************************)
At(s, step) == sup[s].pc = step
TaskOf(s) == sup[s].task
Goto(s, step) == sup' = [sup EXCEPT ![s].pc = step]

(***************************************************************************)
(* Tracker::canceled: SIGTERM or SIGINT, or the cancel.request file.       *)
(***************************************************************************)
Canceled(s) == sup[s].interrupted \/ cancelFile[TaskOf(s)] # "none"

(***************************************************************************)
(* Tracker::record: p is the supervisor with what the record changes.  The *)
(* event is counted in memory, appended, and status.json is replaced.  The *)
(* error of a write leaves the count, and leads execute to the fallback:   *)
(* it ends with the error, or takes its work for failed and goes on.       *)
(* (write_json_atomic may fail after its rename.)                          *)
(***************************************************************************)
Record(s, p, next, fallback) ==
  LET q == [p EXCEPT !.mem.seq = @ + 1]
  IN  \/ /\ sup' = [sup EXCEPT ![s] =
                      [q EXCEPT !.pc = "publish", !.then = next, !.fallback = fallback]]
         /\ lastEvent' = [lastEvent EXCEPT ![TaskOf(s)] = Event(q.mem)]
      \/ /\ sup' = [sup EXCEPT ![s] = [q EXCEPT !.pc = fallback, !.verdict = "failed"]]
         /\ UNCHANGED lastEvent

Publish(s) ==
  LET published == [status EXCEPT ![TaskOf(s)] = sup[s].mem]
      p == [sup[s] EXCEPT !.then = "idle", !.fallback = "idle"]
  IN  /\ At(s, "publish")
      /\ \/ /\ status' = published
            /\ sup' = [sup EXCEPT ![s] = [p EXCEPT !.pc = sup[s].then]]
         \/ /\ status' \in {status, published}
            /\ sup' = [sup EXCEPT ![s] = [p EXCEPT !.pc = sup[s].fallback, !.verdict = "failed"]]
      /\ UNCHANGED <<lastEvent, cancelFile, locks, groups, submission, ins>>

Finish(s, state) ==
  Record(s, [sup[s] EXCEPT !.mem.state = state, !.mem.phase = "completed"], "exit", "exit")

(***************************************************************************)
(* execute begins: owner.lock must be free.  `task execute` is a hidden    *)
(* command, which submit runs; nobody runs it by hand before submit ends.  *)
(***************************************************************************)
Begin(s, t) ==
  /\ At(s, "idle")
  /\ submission[t] = "over" /\ status[t] # Absent
  /\ ownerLock[t] = Nobody
  /\ ownerLock' = [ownerLock EXCEPT ![t] = s]
  /\ sup' = [sup EXCEPT ![s] = [IdleSupervisor EXCEPT !.pc = "read", !.task = t]]
  /\ UNCHANGED <<disk, repoLock, groups, submission, ins>>

(***************************************************************************)
(* Faulty variant of MayExecute: a lost task is taken up again.            *)
(***************************************************************************)
RetryingMayExecute(s) == status[TaskOf(s)].state \in {"queued", "running"}

MayExecute(s) == status[TaskOf(s)].state = "queued"

ReadSnapshot(s) ==
  /\ At(s, "read")
  /\ IF MayExecute(s)
     THEN sup' = [sup EXCEPT ![s].pc = "cancel_check", ![s].mem = status[TaskOf(s)]]
     ELSE Goto(s, "exit")
  /\ UNCHANGED <<disk, locks, groups, submission, ins>>

CancelCheck(s) ==
  /\ At(s, "cancel_check")
  /\ IF Canceled(s)
     THEN Finish(s, "cancelled")
     ELSE Goto(s, "lock_repository") /\ UNCHANGED lastEvent
  /\ UNCHANGED <<status, cancelFile, locks, groups, submission, ins>>

(***************************************************************************)
(* Faulty variant of LockRepository: the outcome of try_lock is dropped.   *)
(***************************************************************************)
CarelessLockRepository(s) ==
  /\ At(s, "lock_repository")
  /\ repoLock' = s
  /\ Goto(s, "baseline")
  /\ UNCHANGED <<disk, ownerLock, groups, submission, ins>>

LockRepository(s) ==
  /\ At(s, "lock_repository")
  /\ IF repoLock = Nobody
     THEN /\ repoLock' = s
          /\ Goto(s, "baseline")
          /\ UNCHANGED lastEvent
     ELSE /\ Finish(s, "blocked")
          /\ UNCHANGED repoLock
  /\ UNCHANGED <<status, cancelFile, ownerLock, groups, submission, ins>>

(***************************************************************************)
(* git status: clean and the task is dispatched, or changed since the      *)
(* submission, or git cannot be run and execute returns its error.         *)
(***************************************************************************)
Baseline(s) ==
  /\ At(s, "baseline")
  /\ \/ Record(s, [sup[s] EXCEPT !.mem.state = "running", !.mem.phase = "worker"], "spawn", "exit")
     \/ Finish(s, "blocked")
     \/ Goto(s, "exit") /\ UNCHANGED lastEvent
  /\ UNCHANGED <<status, cancelFile, locks, groups, submission, ins>>

(***************************************************************************)
(* process::run_observed for the command of the current phase: spawn it,   *)
(* record that, then poll for cancellation, exit and the deadline, in this *)
(* order; its process group is killed before the run returns, also where   *)
(* the record failed and the child is dropped.  A timeout counts as failed.*)
(***************************************************************************)
Spawn(s) ==
  /\ At(s, "spawn")
  /\ \/ /\ group' = [group EXCEPT ![TaskOf(s)] = "running"]
        /\ launches' = [launches EXCEPT ![TaskOf(s)][sup[s].mem.phase] = @ + 1]
        /\ sup' = [sup EXCEPT ![s].pc = "spawned", ![s].verdict = "none"]
     \/ /\ sup' = [sup EXCEPT ![s].pc = "collecting", ![s].verdict = "failed"]
        /\ UNCHANGED groups
  /\ UNCHANGED <<disk, locks, submission, ins>>

(***************************************************************************)
(* Faulty variant of RecordSpawned: the exit is polled first.              *)
(***************************************************************************)
ExitFirstRecordSpawned(s) ==
  /\ At(s, "spawned")
  /\ Record(s, sup[s], "poll_exit", "drop_child")
  /\ UNCHANGED <<status, cancelFile, locks, groups, submission, ins>>

RecordSpawned(s) ==
  /\ At(s, "spawned")
  /\ Record(s, sup[s], "poll_cancel", "drop_child")
  /\ UNCHANGED <<status, cancelFile, locks, groups, submission, ins>>

DropChild(s) ==
  /\ At(s, "drop_child")
  /\ group' = [group EXCEPT ![TaskOf(s)] = "gone"]
  /\ Goto(s, "collecting")
  /\ UNCHANGED <<disk, locks, launches, submission, ins>>

(***************************************************************************)
(* A reader thread records a chunk of output; the tracker's mutex and the  *)
(* joining of the readers keep its record apart from the supervisor's.  A  *)
(* record that fails ends the reader, which the run learns when it joins.  *)
(***************************************************************************)
Output(s) ==
  /\ sup[s].pc \in {"poll_cancel", "poll_exit"}
  /\ sup[s].outputs < MaxOutputs
  /\ Record(s, [sup[s] EXCEPT !.outputs = @ + 1], sup[s].pc, sup[s].pc)
  /\ UNCHANGED <<status, cancelFile, locks, groups, submission, ins>>

(***************************************************************************)
(* The end of a run: the group is killed and the readers are joined; one   *)
(* that failed, or a result that cannot be written, is an error of the run.*)
(* Faulty variants: the group is left to itself; the run never returns.    *)
(***************************************************************************)
HangingEndRun(s, result) == UNCHANGED <<sup, group>>

AbandoningEndRun(s, result) ==
  /\ sup' = [sup EXCEPT ![s].pc = "exited", ![s].result = result]
  /\ UNCHANGED group

EndRun(s, result) ==
  /\ group' = [group EXCEPT ![TaskOf(s)] = "gone"]
  /\ \/ /\ sup[s].verdict # "failed"
        /\ sup' = [sup EXCEPT ![s].pc = "exited", ![s].result = result]
     \/ sup' = [sup EXCEPT ![s].pc = "collecting", ![s].verdict = "failed"]

PollCancel(s) ==
  /\ At(s, "poll_cancel")
  /\ IF Canceled(s)
     THEN EndRun(s, "canceled")
     ELSE Goto(s, "poll_exit") /\ UNCHANGED group
  /\ UNCHANGED <<disk, locks, launches, submission, ins>>

StillRunning(s) ==
  /\ At(s, "poll_exit") /\ Goto(s, "poll_cancel")
  /\ UNCHANGED <<disk, locks, groups, submission, ins>>

Exits(s) ==
  /\ At(s, "poll_exit")
  /\ \E result \in {"passed", "failed"} : EndRun(s, result)
  /\ UNCHANGED <<disk, locks, launches, submission, ins>>

(***************************************************************************)
(* outcome: the state a result leads to.                                   *)
(***************************************************************************)
Outcome(result) ==
  CASE result = "passed"   -> "succeeded"
    [] result = "canceled" -> "cancelled"
    [] OTHER               -> "failed"

(***************************************************************************)
(* What follows the end of the run of a phase.  Faulty variant: the        *)
(* verification runs whatever became of the worker.                        *)
(***************************************************************************)
EagerAfter(phase, result) ==
  IF phase = "worker" THEN "start_verification" ELSE "collecting"

After(phase, result) ==
  IF phase = "worker" /\ result = "passed" THEN "start_verification" ELSE "collecting"

RecordExited(s) ==
  LET phase  == sup[s].mem.phase
      result == sup[s].result
  IN  /\ At(s, "exited")
      /\ Record(s, [sup[s] EXCEPT !.mem[phase] = result, !.result = "none",
                                  !.verdict = Outcome(result)],
                After(phase, result), "collecting")
      /\ UNCHANGED <<status, cancelFile, locks, groups, submission, ins>>

(***************************************************************************)
(* The verification is started unless the task was cancelled meanwhile.    *)
(***************************************************************************)
StartVerification(s) ==
  /\ At(s, "start_verification")
  /\ IF Canceled(s)
     THEN /\ sup' = [sup EXCEPT ![s].pc = "collecting", ![s].verdict = "cancelled"]
          /\ UNCHANGED lastEvent
     ELSE Record(s, [sup[s] EXCEPT !.mem.phase = "verification"], "spawn", "collecting")
  /\ UNCHANGED <<status, cancelFile, locks, groups, submission, ins>>

(***************************************************************************)
(* The change artifacts are collected whatever the verdict.                *)
(***************************************************************************)
Collecting(s) ==
  /\ At(s, "collecting")
  /\ Record(s, [sup[s] EXCEPT !.mem.phase = "artifacts"], "collect", "exit")
  /\ UNCHANGED <<status, cancelFile, locks, groups, submission, ins>>

Collect(s) ==
  /\ At(s, "collect")
  /\ \/ Record(s, sup[s], "finish", "finish")
     \/ /\ sup' = [sup EXCEPT ![s].pc = "finish", ![s].verdict = "failed"]
        /\ UNCHANGED lastEvent
  /\ UNCHANGED <<status, cancelFile, locks, groups, submission, ins>>

FinishTask(s) ==
  /\ At(s, "finish")
  /\ Finish(s, sup[s].verdict)
  /\ UNCHANGED <<status, cancelFile, locks, groups, submission, ins>>

(***************************************************************************)
(* The process ends, on its own or killed; the kernel drops its locks.     *)
(***************************************************************************)
DropLocks(s) ==
  /\ ownerLock' = [t \in Tasks |-> IF ownerLock[t] = s THEN Nobody ELSE ownerLock[t]]
  /\ repoLock' = IF repoLock = s THEN Nobody ELSE repoLock

Exit(s) ==
  /\ At(s, "exit")
  /\ DropLocks(s)
  /\ sup' = [sup EXCEPT ![s] = IdleSupervisor]
  /\ UNCHANGED <<disk, groups, submission, ins>>

Crash(s) ==
  /\ MayCrash
  /\ ~At(s, "idle")
  /\ DropLocks(s)
  /\ group' = [group EXCEPT ![TaskOf(s)] = IF @ = "running" THEN "orphan" ELSE @]
  /\ sup' = [sup EXCEPT ![s] = IdleSupervisor]
  /\ UNCHANGED <<disk, launches, submission, ins>>

OrphanEnds(t) ==
  /\ group[t] = "orphan"
  /\ group' = [group EXCEPT ![t] = "gone"]
  /\ UNCHANGED <<disk, locks, launches, submission, sup, ins>>

(***************************************************************************)
(* SIGTERM or SIGINT, once the handlers are installed.                     *)
(***************************************************************************)
Interrupt(s) ==
  /\ MaySignal
  /\ sup[s].pc \notin {"idle", "read"}
  /\ ~sup[s].interrupted
  /\ sup' = [sup EXCEPT ![s].interrupted = TRUE]
  /\ UNCHANGED <<disk, locks, groups, submission, ins>>

-----------------------------------------------------------------------------
(***************************************************************************)
(* inspect: status.json is read first, owner.lock is tried afterwards, and *)
(* held for a moment when it was free.  "seen" is the state that was read. *)
(***************************************************************************)
Supervised(t) == \E s \in Supervisors : ~At(s, "idle") /\ TaskOf(s) = t

ReadStatus(i, t) ==
  /\ ins[i].pc = "idle"
  /\ status[t] # Absent
  /\ ins' = [ins EXCEPT ![i] =
       [pc |-> "probe", task |-> t, view |-> status[t].state, seen |-> status[t].state]]
  /\ UNCHANGED <<disk, locks, groups, submission, sup>>

(***************************************************************************)
(* The view of an unfinished task nobody holds the lock of is failed and   *)
(* interrupted; a queued one is given ten seconds ("aged").                *)
(***************************************************************************)
View(i, alive, aged) ==
  LET interrupted == /\ ins[i].view \notin Terminal
                     /\ ~alive
                     /\ ins[i].view # "queued" \/ aged
  IN  ins' = [ins EXCEPT ![i].pc = "viewed",
                         ![i].view = IF interrupted THEN "interrupted" ELSE @]

Probe(i) ==
  LET t == ins[i].task
  IN  /\ ins[i].pc = "probe"
      /\ IF ownerLock[t] = Nobody
         THEN /\ ownerLock' = [ownerLock EXCEPT ![t] = i]
              /\ ins' = [ins EXCEPT ![i].pc = "release"]
         ELSE /\ View(i, TRUE, FALSE)
              /\ UNCHANGED ownerLock
      /\ UNCHANGED <<disk, repoLock, groups, submission, sup>>

Release(i) ==
  /\ ins[i].pc = "release"
  /\ ownerLock' = [ownerLock EXCEPT ![ins[i].task] = Nobody]
  /\ \E aged \in BOOLEAN : View(i, FALSE, aged)
  /\ UNCHANGED <<disk, repoLock, groups, submission, sup>>

Done(i) ==
  /\ ins[i].pc = "viewed"
  /\ ins' = [ins EXCEPT ![i] = IdleInspector]
  /\ UNCHANGED <<disk, locks, groups, submission, sup>>

(***************************************************************************)
(* cancel: an inspection, then the request file if its view was not        *)
(* terminal.  (The inspection it ends with is one like any other.)         *)
(***************************************************************************)
PhaseOnDisk(t) ==
  IF status[t].phase \in {"queued", "worker"} THEN status[t].phase ELSE "later"

RequestCancel(i) ==
  LET t == ins[i].task
  IN  /\ ins[i].pc = "viewed"
      /\ ins[i].view \notin Terminal \cup {"interrupted"}
      /\ cancelFile' = [cancelFile EXCEPT ![t] = IF @ = "none" THEN PhaseOnDisk(t) ELSE @]
      /\ ins' = [ins EXCEPT ![i] = IdleInspector]
      /\ UNCHANGED <<status, lastEvent, locks, groups, submission, sup>>

-----------------------------------------------------------------------------
Execute(s) ==
  \/ ReadSnapshot(s) \/ CancelCheck(s) \/ LockRepository(s) \/ Baseline(s)
  \/ Spawn(s) \/ RecordSpawned(s) \/ DropChild(s)
  \/ Output(s) \/ PollCancel(s) \/ StillRunning(s) \/ Exits(s)
  \/ RecordExited(s) \/ StartVerification(s)
  \/ Collecting(s) \/ Collect(s) \/ FinishTask(s) \/ Publish(s) \/ Exit(s)

Inspect(i) ==
  \/ \E t \in Tasks : ReadStatus(i, t)
  \/ Probe(i) \/ Release(i) \/ Done(i) \/ RequestCancel(i)

Next ==
  \/ \E t \in Tasks : Submit(t) \/ SpawnSupervisor(t) \/ SubmitterDies(t) \/ OrphanEnds(t)
  \/ \E s \in Supervisors : \/ \E t \in Tasks : Begin(s, t)
                            \/ Execute(s) \/ Crash(s) \/ Interrupt(s)
  \/ \E i \in Inspectors : Inspect(i)

Spec == Init /\ [][Next]_vars

(***************************************************************************)
(* A supervisor that is not killed goes on, and the deadline of a command  *)
(* ends its run if nothing else does.                                      *)
(***************************************************************************)
FairSpec ==
  Spec /\ \A s \in Supervisors : WF_vars(Execute(s)) /\ SF_vars(Exits(s))

-----------------------------------------------------------------------------
(***************************************************************************)
(* Every variable has its type.                                            *)
(***************************************************************************)
State == {"queued", "running"} \cup Terminal

Snapshot == [state : State, phase : Phase, seq : Nat,
             worker : Result, verification : Result]

SupervisorStep ==
  {"idle", "read", "cancel_check", "lock_repository", "baseline", "spawn",
   "spawned", "drop_child", "poll_cancel", "poll_exit", "exited", "start_verification",
   "collecting", "collect", "finish", "publish", "exit"}

TypeOK ==
  /\ status \in [Tasks -> Snapshot \cup {Absent}]
  /\ lastEvent \in [Tasks -> [seq : Nat, state : State \cup {"absent"}]]
  /\ cancelFile \in [Tasks -> {"none", "queued", "worker", "later"}]
  /\ ownerLock \in [Tasks -> Supervisors \cup Inspectors \cup {Nobody}]
  /\ repoLock \in Supervisors \cup {Nobody}
  /\ group \in [Tasks -> {"none", "running", "gone", "orphan"}]
  /\ launches \in [Tasks -> [worker : Nat, verification : Nat]]
  /\ submission \in [Tasks -> {"new", "queued", "spawn", "refused", "failed", "over"}]
  /\ sup \in [Supervisors ->
       [pc : SupervisorStep, task : Tasks \cup {Nobody}, mem : Snapshot \cup {Absent},
        then : SupervisorStep, fallback : SupervisorStep, result : Result, verdict : Terminal \cup {"none"},
        interrupted : BOOLEAN, outputs : 0 .. MaxOutputs]]
  /\ ins \in [Inspectors ->
       [pc : {"idle", "probe", "release", "viewed"}, task : Tasks \cup {Nobody},
        view : State \cup {"absent", "interrupted"},
        seen : State \cup {"absent"}]]

(***************************************************************************)
(* Only one task runs in the checkout: a command that is running belongs   *)
(* to a supervisor that holds its task's lock and the repository's.        *)
(***************************************************************************)
OneTaskPerCheckout ==
  \A t \in Tasks : group[t] = "running" =>
    \E s \in Supervisors : repoLock = s /\ ownerLock[t] = s /\ TaskOf(s) = t

(***************************************************************************)
(* No command of a task is ever started twice, whoever executes the task   *)
(* again and whenever its supervisor dies; nor the verification without    *)
(* the worker.                                                             *)
(***************************************************************************)
CommandsRunOnce ==
  \A t \in Tasks :
    launches[t].verification <= launches[t].worker /\ launches[t].worker <= 1

(***************************************************************************)
(* A task is reported succeeded only if both its commands passed, and any  *)
(* final report is made when no command of it is left, even as an orphan.  *)
(***************************************************************************)
SucceededMeansVerified ==
  \A t \in Tasks : status[t].state = "succeeded" =>
    status[t].worker = "passed" /\ status[t].verification = "passed"

TerminalMeansStopped ==
  \A t \in Tasks : status[t].state \in Terminal => group[t] \in {"none", "gone"}

(***************************************************************************)
(* The journal is written ahead: its last event is that of the status on   *)
(* disk or a later one, and nothing follows the event of a final report,   *)
(* whatever writes fail.                                                   *)
(***************************************************************************)
JournalLeads ==
  \A t \in Tasks :
    \/ lastEvent[t] = Event(status[t])
    \/ lastEvent[t].seq > status[t].seq /\ status[t].state \notin Terminal

(***************************************************************************)
(* A cancellation requested before the verification phase is not lost: the *)
(* task does not succeed any more.                                         *)
(***************************************************************************)
EarlyCancelWins ==
  \A t \in Tasks : cancelFile[t] \in {"queued", "worker"} => status[t].state # "succeeded"

(***************************************************************************)
(* The invariant of the records: typed, journaled, and truthful about the  *)
(* commands and about an early cancellation.                               *)
(***************************************************************************)
TaskInv ==
  TypeOK /\ JournalLeads /\ SucceededMeansVerified /\ TerminalMeansStopped /\ EarlyCancelWins

(***************************************************************************)
(* What an inspector reports interrupted, having seen it running, is not   *)
(* executed by anybody any more, and will not be: the lock is probed after *)
(* the status was read, and a running task is not taken up again.          *)
(***************************************************************************)
Executing(t) ==
  \E s \in Supervisors : sup[s].pc \notin {"idle", "read", "exit"} /\ TaskOf(s) = t

InterruptedIsAbandoned ==
  \A i \in Inspectors :
    ins[i].view = "interrupted" /\ ins[i].seen = "running" => ~Executing(ins[i].task)

(***************************************************************************)
(* A task reported running gets a final report, or has lost its supervisor.*)
(***************************************************************************)
RunningEnds ==
  \A t \in Tasks :
    status[t].state = "running" ~> status[t].state \in Terminal \/ ~Supervised(t)

(***************************************************************************)
(* Readers of the reports see a ledger of tasks (TaskLedger): whatever     *)
(* supervisors die, execute a task again or are cancelled, reports move    *)
(* forward to a final one and every command is started once, in its order  *)
(* and alone.                                                              *)
(***************************************************************************)
Ledger == INSTANCE TaskLedger WITH
  report <- status, command <- group, started <- launches,
  withdrawn <- {t \in Tasks : cancelFile[t] \in {"queued", "worker"}}

ImplementsLedger == Ledger!Spec
=============================================================================
