----------------------------- MODULE TaskLedger -----------------------------
(***************************************************************************)
(* What coding tasks promise to whoever reads their reports, with nothing  *)
(* of the supervisors, locks and files that keep the promise: a report     *)
(* only moves forward and a final one is the last, a command is started    *)
(* once, in its order, while no other one runs in the checkout, and a task *)
(* that was withdrawn in time does not succeed.                            *)
(***************************************************************************)
EXTENDS Naturals

CONSTANT Tasks

VARIABLES
  report,     \* what is reported of each task
  command,    \* of each task: "none", "running", "orphan" or "gone"
  started,    \* how often each command of each task was started
  withdrawn   \* the tasks that were cancelled before their verification

ledgerVars == <<report, command, started, withdrawn>>

Final == {"blocked", "failed", "cancelled", "succeeded"}

NoReport == [state |-> "absent", phase |-> "queued", seq |-> 0,
             worker |-> "none", verification |-> "none"]

Init ==
  /\ report = [t \in Tasks |-> NoReport]
  /\ command = [t \in Tasks |-> "none"]
  /\ started = [t \in Tasks |-> [worker |-> 0, verification |-> 0]]
  /\ withdrawn = {}

Submit(t) ==
  /\ report[t] = NoReport
  /\ report' = [report EXCEPT ![t].state = "queued", ![t].seq = 1]
  /\ UNCHANGED <<command, started, withdrawn>>

(***************************************************************************)
(* A later report of an unfinished task: no phase is gone back to, and a   *)
(* result that was reported stands.  A report that could not be written    *)
(* keeps its number.                                                       *)
(***************************************************************************)
Order == [queued |-> 0, worker |-> 1, verification |-> 2, artifacts |-> 3, completed |-> 4]

Advances(old, new) ==
  /\ old.state \in {"queued", "running"} /\ new.state \in {"running"} \cup Final
  /\ new.seq > old.seq
  /\ Order[old.phase] <= Order[new.phase]
  /\ \A c \in {"worker", "verification"} : old[c] # "none" => new[c] = old[c]

(***************************************************************************)
(* The last one is given when no command is left; a success rests on both  *)
(* results, and nobody withdrew the task.                                  *)
(***************************************************************************)
Justified(t, new) ==
  /\ new.state \in Final => new.phase = "completed" /\ command[t] \in {"none", "gone"}
  /\ new.state = "succeeded" =>
       /\ new.worker = "passed" /\ new.verification = "passed"
       /\ t \notin withdrawn

Report(t) ==
  /\ Advances(report[t], report'[t]) /\ Justified(t, report'[t])
  /\ report' = [report EXCEPT ![t] = report'[t]]
  /\ UNCHANGED <<command, started, withdrawn>>

(***************************************************************************)
(* An orphan may still run in the checkout: its lock died with its keeper. *)
(***************************************************************************)
Start(t, c) ==
  /\ report[t].state = "running" /\ report[t].phase = c
  /\ started[t][c] = 0
  /\ c = "verification" => report[t].worker = "passed"
  /\ command[t] \in {"none", "gone"} /\ \A u \in Tasks : command[u] # "running"
  /\ command' = [command EXCEPT ![t] = "running"]
  /\ started' = [started EXCEPT ![t][c] = 1]
  /\ UNCHANGED <<report, withdrawn>>

Stop(t) ==
  /\ command[t] \in {"running", "orphan"}
  /\ command' = [command EXCEPT ![t] = "gone"]
  /\ UNCHANGED <<report, started, withdrawn>>

Abandon(t) ==
  /\ command[t] = "running"
  /\ command' = [command EXCEPT ![t] = "orphan"]
  /\ UNCHANGED <<report, started, withdrawn>>

Withdraw(t) ==
  /\ report[t].state # "absent" /\ report[t].phase \in {"queued", "worker"}
  /\ withdrawn' = withdrawn \cup {t}
  /\ UNCHANGED <<report, command, started>>

Next ==
  \E t \in Tasks : \/ Submit(t) \/ Report(t) \/ Stop(t) \/ Abandon(t) \/ Withdraw(t)
                   \/ \E c \in {"worker", "verification"} : Start(t, c)

Spec == Init /\ [][Next]_ledgerVars
=============================================================================
