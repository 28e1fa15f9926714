---------------------------- MODULE SidecarLock ----------------------------
(***************************************************************************)
(* The advisory lock of src/sidecar.rs, which every leio-code process      *)
(* takes before it rebuilds a shared artifact of .leio-code/, and a shared *)
(* artifact that is updated under it: the playbook (src/playbook.rs),      *)
(* which is loaded, changed and replaced by a rename.                      *)
(*                                                                         *)
(* The lock is a file created with create_new that names its creator's     *)
(* pid.  It is removed by its creator, or by a process that finds it stale *)
(* -- which reads the file, decides, and then removes whatever file there  *)
(* is by then.  An agent is one process: a pid is not used again.          *)
(***************************************************************************)
EXTENDS Naturals, FiniteSets

CONSTANTS
  Agents,      \* processes that work on the repository
  NoFile,      \* the lock file does not exist
  MaxCalls,    \* bound: the calls of acquire_lock by each agent, nested ones aside
  MaxDepth,    \* bound: the nesting of acquire_lock in a process
  MayFail,     \* whether processes die and file operations fail
  MayAge       \* whether a lock is held for LEIO_LOCK_STALE_SECS

ASSUME SidecarAssumption ==
  /\ NoFile \notin [by : Agents, written : BOOLEAN, old : BOOLEAN]
  /\ MaxCalls \in Nat
  /\ MaxDepth \in Nat \ {0}
  /\ MayFail \in BOOLEAN /\ MayAge \in BOOLEAN

VARIABLES
  file,      \* the lock file: its creator, whether its pid is written, its age
  pc,        \* the next step of each agent
  calls,     \* the calls each agent made
  depth,     \* held_locks: the guards each agent has
  mem,       \* the artifact as each agent loaded it
  artifact,  \* the artifact on disk: how many updates of each agent it has
  dead,      \* the agents that died
  saved,     \* history: the updates of each agent that were saved
  robbed,    \* history: the agents at work whose lock file was removed
  past       \* history: which of "overdue", "robbery", "unread" has happened

vars == <<file, pc, calls, depth, mem, artifact, dead, saved, robbed, past>>
data == <<mem, artifact, saved>>
history == <<robbed, past>>

NoUpdates == [a \in Agents |-> 0]

Init ==
  /\ file = NoFile
  /\ pc = [a \in Agents |-> "idle"]
  /\ calls = [a \in Agents |-> 0]
  /\ depth = [a \in Agents |-> 0]
  /\ mem = [a \in Agents |-> NoUpdates]
  /\ artifact = NoUpdates
  /\ dead = {}
  /\ saved = NoUpdates
  /\ robbed = {}
  /\ past = {}

At(a, step) == a \notin dead /\ pc[a] = step
Goto(a, step) == pc' = [pc EXCEPT ![a] = step]

(***************************************************************************)
(* The lock is an agent's from the creation of its file on.                *)
(***************************************************************************)
Claiming == {"write_pid", "hold", "save", "drop"}
Holding  == {"hold", "save", "drop"}

(***************************************************************************)
(* remove_file removes the lock file, whosever it is.                      *)
(***************************************************************************)
Robs(a) == /\ file # NoFile
           /\ file.by \notin dead \cup {a}
           /\ pc[file.by] \in Claiming

Remove(a) ==
  /\ file' = NoFile
  /\ robbed' = (robbed \ {a}) \cup (IF Robs(a) THEN {file.by} ELSE {})
  /\ past' = past \cup (IF Robs(a) THEN {"robbery"} ELSE {})

-----------------------------------------------------------------------------
(***************************************************************************)
(* acquire_lock: create the file and write the pid into it.  A process     *)
(* that dies, or whose write fails, leaves a file that names nobody.       *)
(***************************************************************************)
Acquire(a) ==
  /\ At(a, "idle")
  /\ calls[a] < MaxCalls
  /\ calls' = [calls EXCEPT ![a] = @ + 1]
  /\ Goto(a, "try")
  /\ UNCHANGED <<file, depth, data, dead, history>>

Create(a) ==
  /\ At(a, "try")
  /\ IF file = NoFile
     THEN /\ file' = [by |-> a, written |-> FALSE, old |-> FALSE]
          /\ Goto(a, "write_pid")
     ELSE /\ Goto(a, "inspect")
          /\ UNCHANGED file
  /\ UNCHANGED <<depth, calls, data, dead, history>>

WritePid(a) ==
  /\ At(a, "write_pid")
  /\ file' = IF file # NoFile /\ file.by = a THEN [file EXCEPT !.written = TRUE] ELSE file
  /\ depth' = [depth EXCEPT ![a] = 1]
  /\ Goto(a, "hold")
  /\ UNCHANGED <<calls, data, dead, history>>

CreateFails(a) ==
  /\ MayFail
  /\ At(a, "try")
  /\ Goto(a, "idle")
  /\ UNCHANGED <<file, depth, calls, data, dead, history>>

WriteFails(a) ==
  /\ MayFail
  /\ At(a, "write_pid")
  /\ Goto(a, "idle")
  /\ robbed' = robbed \ {a}
  /\ UNCHANGED <<file, depth, calls, data, dead, past>>

(***************************************************************************)
(* steal_stale_lock: a file is stale when its pid is not alive, or when it *)
(* is old; one that names no pid, or cannot be read, is never stale.  (The *)
(* comment of DEFAULT_LOCK_STALE_SECS has "and" for this "or".)            *)
(* Faulty variant: one without a pid is taken for that of a dead process.  *)
(***************************************************************************)
HastyStale(f) == ~f.written \/ f.by \in dead \/ f.old

Stale(f) == f.written /\ (f.by \in dead \/ f.old)

Inspect(a) ==
  /\ At(a, "inspect")
  /\ \/ file # NoFile /\ Stale(file) /\ Goto(a, "steal")
     \/ (file # NoFile => ~Stale(file) \/ MayFail) /\ Goto(a, "wait")
  /\ UNCHANGED <<file, depth, calls, data, dead, history>>

(***************************************************************************)
(* The removal happens later, and nothing is checked again; whether it     *)
(* succeeded is not looked at either.                                      *)
(***************************************************************************)
Steal(a) ==
  /\ At(a, "steal")
  /\ Remove(a)
  /\ Goto(a, "try")
  /\ UNCHANGED <<depth, calls, data, dead>>

StealFails(a) ==
  /\ MayFail
  /\ At(a, "steal")
  /\ Goto(a, "try")
  /\ UNCHANGED <<file, depth, calls, data, dead, history>>

(***************************************************************************)
(* The poll goes on until LEIO_LOCK_WAIT_SECS are over.  Faulty variant:   *)
(* every poll sets the deadline anew.                                      *)
(***************************************************************************)
Wait(a) ==
  /\ At(a, "wait")
  /\ Goto(a, "try")
  /\ UNCHANGED <<file, depth, calls, data, dead, history>>

RenewingGiveUp(a) == FALSE

GiveUp(a) ==
  /\ At(a, "wait")
  /\ Goto(a, "idle")
  /\ UNCHANGED <<file, depth, calls, data, dead, history>>

-----------------------------------------------------------------------------
(***************************************************************************)
(* A nested acquire_lock of the same process counts up.                    *)
(***************************************************************************)
Reenter(a) ==
  /\ At(a, "hold")
  /\ depth[a] < MaxDepth
  /\ depth' = [depth EXCEPT ![a] = @ + 1]
  /\ UNCHANGED <<file, pc, calls, data, dead, history>>

(***************************************************************************)
(* load_or_default, a change, and save_playbook, which replaces the file.  *)
(* A playbook that cannot be read is taken for an empty one.               *)
(* Faulty variant: what is changed was loaded before the lock was taken.   *)
(***************************************************************************)
StaleLoaded(a) == mem[a]

Loaded(a) == artifact

Load(a) ==
  /\ At(a, "hold")
  /\ mem' = [mem EXCEPT ![a] = Loaded(a)]
  /\ Goto(a, "save")
  /\ UNCHANGED <<file, depth, calls, artifact, dead, saved, history>>

LoadFails(a) ==
  /\ MayFail
  /\ At(a, "hold")
  /\ mem' = [mem EXCEPT ![a] = NoUpdates]
  /\ past' = past \cup {"unread"}
  /\ Goto(a, "save")
  /\ UNCHANGED <<file, depth, calls, artifact, dead, saved, robbed>>

Save(a) ==
  /\ At(a, "save")
  /\ artifact' = [mem[a] EXCEPT ![a] = @ + 1]
  /\ mem' = [mem EXCEPT ![a] = artifact']
  /\ saved' = [saved EXCEPT ![a] = @ + 1]
  /\ Goto(a, "drop")
  /\ UNCHANGED <<file, depth, calls, dead, history>>

SaveFails(a) ==
  /\ MayFail
  /\ At(a, "save")
  /\ Goto(a, "drop")
  /\ UNCHANGED <<file, depth, calls, data, dead, history>>

(***************************************************************************)
(* Drop for SidecarLock: the last guard removes the file, and an error of  *)
(* the removal is ignored.  Faulty variant: every guard removes it.        *)
(***************************************************************************)
EarlyLast(a) == TRUE

Last(a) == depth[a] = 1

Drop(a) ==
  /\ At(a, "drop")
  /\ depth' = [depth EXCEPT ![a] = @ - 1]
  /\ IF Last(a)
     THEN Goto(a, "idle") /\ Remove(a)
     ELSE UNCHANGED <<pc, file, history>>
  /\ UNCHANGED <<calls, data, dead>>

DropFails(a) ==
  /\ MayFail
  /\ At(a, "drop") /\ depth[a] = 1
  /\ depth' = [depth EXCEPT ![a] = 0]
  /\ Goto(a, "idle")
  /\ robbed' = robbed \ {a}
  /\ UNCHANGED <<file, calls, data, dead, past>>

-----------------------------------------------------------------------------
(***************************************************************************)
(* A process dies, and a lock's age reaches LEIO_LOCK_STALE_SECS.          *)
(***************************************************************************)
Crash(a) ==
  /\ MayFail
  /\ a \notin dead /\ pc[a] # "idle"
  /\ dead' = dead \cup {a}
  /\ robbed' = robbed \ {a}
  /\ UNCHANGED <<file, pc, calls, depth, data, past>>

Age ==
  /\ MayAge
  /\ file # NoFile /\ file.written /\ ~file.old
  /\ file' = [file EXCEPT !.old = TRUE]
  /\ past' = past \cup {"overdue"}
  /\ UNCHANGED <<pc, calls, depth, data, dead, robbed>>

-----------------------------------------------------------------------------
Lock(a) == \/ Acquire(a) \/ Create(a) \/ CreateFails(a)
           \/ WritePid(a) \/ WriteFails(a)
           \/ Inspect(a) \/ Steal(a) \/ StealFails(a) \/ Wait(a) \/ GiveUp(a)

Update(a) == \/ Reenter(a) \/ Load(a) \/ LoadFails(a) \/ Save(a) \/ SaveFails(a)
             \/ Drop(a) \/ DropFails(a)

Next == (\E a \in Agents : Lock(a) \/ Update(a) \/ Crash(a)) \/ Age

Spec == Init /\ [][Next]_vars

(***************************************************************************)
(* A process that lives goes on, and the deadline of a waiting process     *)
(* passes however often it polls; the nesting of a process is its          *)
(* program's.  No removal is assumed to work, however often it is tried.   *)
(***************************************************************************)
Works(a) == \/ Create(a) \/ WritePid(a) \/ Inspect(a) \/ Wait(a) \/ GiveUp(a)
            \/ Steal(a) \/ Load(a) \/ Save(a) \/ Drop(a)

Fairness == \A a \in Agents : WF_vars(Works(a)) /\ SF_vars(GiveUp(a))

FairSpec == Spec /\ Fairness

-----------------------------------------------------------------------------
LockFile == [by : Agents, written : BOOLEAN, old : BOOLEAN]

Steps == Claiming \cup {"idle", "try", "inspect", "steal", "wait"}

Updates == [Agents -> Nat]

(* Every variable keeps its type.                                          *)
TypeOK ==
  /\ file \in LockFile \cup {NoFile}
  /\ pc \in [Agents -> Steps]
  /\ calls \in [Agents -> 0..MaxCalls]
  /\ depth \in [Agents -> 0..MaxDepth]
  /\ mem \in [Agents -> Updates]
  /\ artifact \in Updates
  /\ dead \subseteq Agents
  /\ saved \in Updates
  /\ robbed \subseteq Agents
  /\ past \subseteq {"overdue", "robbery", "unread"}

AtWork == {a \in Agents \ dead : pc[a] \in Claiming}

(* The lock belongs to whom its file names: a process at work under a lock *)
(* that was not robbed of it is the only such process, the file is its     *)
(* own, and it has a guard as soon as, and as long as, it works.           *)
LockInv ==
  /\ robbed \subseteq AtWork
  /\ \A a \in AtWork \ robbed :
       /\ file # NoFile
       /\ file.by = a
       /\ file.written <=> pc[a] # "write_pid"
  /\ \A a \in Agents : depth[a] > 0 <=> pc[a] \in Holding
  /\ file # NoFile /\ file.old => file.written

(* The same with its types.                                                *)
TypedLock == TypeOK /\ LockInv

(* Only one process works under the lock as long as no lock was robbed,    *)
(* and a lock is only robbed, whatever else fails, after a process died or *)
(* a lock grew older than LEIO_LOCK_STALE_SECS.  That is less than the     *)
(* comment of that constant says: a holder that lives, and has held its    *)
(* lock for so long, is robbed of it ("overdue").                          *)
RobberyNeedsCause ==
  /\ robbed # {} => "robbery" \in past
  /\ "robbery" \in past => dead # {} \/ "overdue" \in past
  /\ "robbery" \notin past => \A a, b \in AtWork : a = b

(* The playbook has every update that was saved, from whatever processes,  *)
(* unless a lock was robbed or a read failed: an update is made to what is *)
(* on disk (record_query_best_effort, record_session_outcome).             *)
NoUpdateLost == past \cap {"robbery", "unread"} = {} => artifact = saved

(* acquire_lock returns, with the lock or with an error, unless removals   *)
(* of stale locks fail in it for ever: then it spins, because it starts    *)
(* over without looking at its deadline or pausing.                        *)
SpinsOnStaleLock(a) == []<><<StealFails(a)>>_vars

EveryCallEnds ==
  \A a \in Agents :
    \/ pc[a] = "try" ~> (a \in dead \/ pc[a] \in {"idle", "hold"})
    \/ SpinsOnStaleLock(a)
=============================================================================
