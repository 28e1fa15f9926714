------------------------- MODULE SidecarLockProofs -------------------------
(***************************************************************************)
(* Proofs of the safety properties of the advisory lock, for any number of *)
(* processes, calls and nestings, with deaths, failures and old locks.     *)
(***************************************************************************)
EXTENDS SidecarLock, TLAPS

(***************************************************************************)
(* What the invariants need to be inductive: a lock is only stolen by a    *)
(* process that found a cause, and what a process is about to save is what *)
(* is on disk with its own update.                                         *)
(***************************************************************************)
CauseFound ==
  /\ file # NoFile /\ file.old => "overdue" \in past
  /\ \A a \in Agents \ dead : pc[a] = "steal" => dead # {} \/ "overdue" \in past

CopyIsCurrent ==
  past \cap {"robbery", "unread"} = {} =>
    \A a \in AtWork : pc[a] = "save" => mem[a] = artifact

IInv == /\ TypeOK /\ LockInv /\ RobberyNeedsCause /\ NoUpdateLost
        /\ CauseFound /\ CopyIsCurrent

(* A value that is not in the type of lock files is not a lock file.       *)
LEMMA NoFileIsNoLock == NoFile \notin LockFile
BY SidecarAssumption DEF LockFile

(* The initial states satisfy the inductive invariant.                     *)
LEMMA InitInv == Init => IInv
<1> SUFFICES ASSUME Init PROVE IInv
  OBVIOUS
<1>1. TypeOK
  BY SidecarAssumption DEF Init, TypeOK, Updates, NoUpdates, Steps, LockFile
<1>2. AtWork = {}
  BY DEF Init, AtWork, Claiming
<1>3. LockInv
  BY <1>2 DEF Init, LockInv, Holding
<1> QED
  BY <1>1, <1>2, <1>3 DEF Init, IInv, RobberyNeedsCause, NoUpdateLost, CauseFound,
     CopyIsCurrent

(* Every step preserves the type invariant.                                *)
LEMMA TypeStep == IInv /\ [Next]_vars => TypeOK'
<1> SUFFICES ASSUME IInv, [Next]_vars PROVE TypeOK'
  OBVIOUS
<1> USE NoFileIsNoLock, SidecarAssumption DEF IInv, TypeOK, LockFile, Steps, Claiming,
       Holding, Updates, At, Goto, data, history, Remove
<1>1. ASSUME NEW a \in Agents, Lock(a) PROVE TypeOK'
  <2>1. CASE Acquire(a)  BY <2>1 DEF Acquire
  <2>2. CASE Create(a)
    <3>1. file' \in LockFile \cup {NoFile}
      BY <2>2, [by |-> a, written |-> FALSE, old |-> FALSE] \in LockFile DEF Create
    <3>2. pc' \in [Agents -> Steps]
      <4>1. pc' = [pc EXCEPT ![a] = "write_pid"] \/ pc' = [pc EXCEPT ![a] = "inspect"]
        BY <2>2 DEF Create
      <4> QED
        BY <4>1
    <3> QED
      BY <2>2, <3>1, <3>2 DEF Create
  <2>3. CASE WritePid(a)
    <3>1. file' \in LockFile \cup {NoFile}
      BY <2>3 DEF WritePid
    <3>2. pc' \in [Agents -> Steps]
      BY <2>3 DEF WritePid
    <3>3. depth' \in [Agents -> 0..MaxDepth]
      BY <2>3 DEF WritePid
    <3> QED
      BY <2>3, <3>1, <3>2, <3>3 DEF WritePid
  <2>4. CASE WriteFails(a)  BY <2>4 DEF WriteFails
  <2>5. CASE Inspect(a)  BY <2>5 DEF Inspect
  <2>6. CASE Steal(a)  BY <2>6 DEF Steal, Robs
  <2>7. CASE StealFails(a)  BY <2>7 DEF StealFails
  <2>8. CASE Wait(a)  BY <2>8 DEF Wait
  <2>9. CASE GiveUp(a)  BY <2>9 DEF GiveUp
  <2>10. CASE CreateFails(a)  BY <2>10 DEF CreateFails
  <2> QED
    BY <1>1, <2>1, <2>2, <2>3, <2>4, <2>5, <2>6, <2>7, <2>8, <2>9, <2>10 DEF Lock
<1>2. ASSUME NEW a \in Agents, Update(a) PROVE TypeOK'
  <2>1. CASE Reenter(a)  BY <2>1 DEF Reenter
  <2>2. CASE Load(a)  BY <2>2 DEF Load, Loaded
  <2>3. CASE Save(a)  BY <2>3 DEF Save
  <2>4. CASE SaveFails(a)  BY <2>4 DEF SaveFails
  <2>5. CASE Drop(a)
    <3>1. depth[a] > 0
      BY <2>5 DEF Drop, LockInv
    <3>2. depth' \in [Agents -> 0..MaxDepth]
      BY <2>5, <3>1 DEF Drop
    <3>3. file' \in LockFile \cup {NoFile} /\ pc' \in [Agents -> Steps]
      BY <2>5 DEF Drop
    <3>4. robbed' \subseteq Agents /\ past' \subseteq {"overdue", "robbery", "unread"}
      <4>1. CASE Last(a)
        <5>1. Robs(a) => file.by \in Agents
          BY DEF Robs
        <5> QED
          BY <2>5, <4>1, <5>1 DEF Drop
      <4>2. CASE ~Last(a)
        BY <2>5, <4>2 DEF Drop
      <4> QED
        BY <4>1, <4>2
    <3>5. UNCHANGED <<calls, mem, artifact, dead, saved>>
      BY <2>5 DEF Drop
    <3> QED
      BY <3>2, <3>3, <3>4, <3>5
  <2>6. CASE DropFails(a)  BY <2>6 DEF DropFails
  <2>7. CASE LoadFails(a)  BY <2>7 DEF LoadFails, NoUpdates
  <2> QED
    BY <1>2, <2>1, <2>2, <2>3, <2>4, <2>5, <2>6, <2>7 DEF Update
<1>3. ASSUME NEW a \in Agents, Crash(a) PROVE TypeOK'
  BY <1>3 DEF Crash
<1>4. ASSUME Age PROVE TypeOK'
  BY <1>4 DEF Age
<1>5. ASSUME UNCHANGED vars PROVE TypeOK'
  BY <1>5 DEF vars
<1> QED
  BY <1>1, <1>2, <1>3, <1>4, <1>5 DEF Next

-----------------------------------------------------------------------------
(***************************************************************************)
(* The rest of the invariant has two halves: whom the lock belongs to, and *)
(* what that means for the artifact.                                       *)
(***************************************************************************)
Locked == LockInv /\ RobberyNeedsCause /\ CauseFound

Kept == NoUpdateLost /\ CopyIsCurrent

(* The artifact is as safe as before when nobody newly is about to save.   *)
LEMMA NothingToSave ==
  ASSUME IInv, UNCHANGED <<artifact, saved>>, past \subseteq past',
         \A b \in Agents \ dead' : pc'[b] = "save" =>
           b \notin dead /\ pc[b] = "save" /\ mem'[b] = mem[b]
  PROVE  Kept'
BY DEF IInv, Kept, NoUpdateLost, CopyIsCurrent, AtWork, Claiming

(***************************************************************************)
(* A process without the lock moves on, and does not get it; to steal it,  *)
(* it needs a cause.                                                       *)
(***************************************************************************)
LEMMA OutsiderStep ==
  ASSUME IInv, NEW a \in Agents, NEW step \in Steps \ Claiming,
         pc[a] \notin Claiming, Goto(a, step),
         step = "steal" => dead # {} \/ "overdue" \in past,
         UNCHANGED <<file, depth, data, dead, history>>
  PROVE  Locked' /\ Kept'
<1>1. pc'[a] = step /\ \A b \in Agents \ {a} : pc'[b] = pc[b]
  BY DEF Goto, IInv, TypeOK
<1>2. AtWork' = AtWork /\ \A b \in AtWork : pc'[b] = pc[b]
  BY <1>1 DEF AtWork
<1>3. \A b \in Agents : pc'[b] \in Holding <=> pc[b] \in Holding
  BY <1>1 DEF Claiming, Holding
<1>4. UNCHANGED <<file, depth, dead, robbed, past>>
  BY DEF history
<1>5. LockInv'
  BY <1>2, <1>3, <1>4 DEF IInv, LockInv
<1>6. RobberyNeedsCause' /\ CauseFound'
  BY <1>1, <1>2, <1>4 DEF IInv, RobberyNeedsCause, CauseFound
<1>7. Kept'
  BY <1>1, <1>4, NothingToSave DEF data, Claiming
<1>. QED  BY <1>5, <1>6, <1>7 DEF Locked

(***************************************************************************)
(* A process that has a guard does something under it.                     *)
(***************************************************************************)
LEMMA GuardedStep ==
  ASSUME IInv, NEW a \in Agents, NEW step \in Holding,
         At(a, step) \/ (pc[a] \in Holding /\ Goto(a, step)),
         UNCHANGED <<file, dead, robbed>>, past' \in {past, past \cup {"unread"}},
         At(a, step) => pc' = pc, \A b \in Agents : depth'[b] > 0 <=> depth[b] > 0
  PROVE  Locked'
<1>1. /\ pc[a] \in Holding /\ pc'[a] \in Holding
      /\ \A b \in Agents \ {a} : pc'[b] = pc[b]
  BY DEF At, Goto, IInv, TypeOK
<1>2. AtWork' = AtWork /\ \A b \in Agents : pc'[b] = "write_pid" <=> pc[b] = "write_pid"
  BY <1>1 DEF AtWork, Claiming, Holding
<1>3. \A b \in Agents : pc'[b] \in Holding <=> pc[b] \in Holding
  BY <1>1
<1>4. LockInv'
  <2>1. \A b \in Agents : depth'[b] > 0 <=> pc'[b] \in Holding
    BY <1>3 DEF IInv, LockInv
  <2>2. AtWork \subseteq Agents
    BY DEF AtWork
  <2>. QED  BY <1>2, <2>1, <2>2 DEF IInv, LockInv
<1>5. RobberyNeedsCause' /\ CauseFound'
  BY <1>1, <1>2 DEF IInv, RobberyNeedsCause, CauseFound, Holding
<1>. QED  BY <1>4, <1>5 DEF Locked

(***************************************************************************)
(* A process stops to work under the lock: it fails or dies, and leaves    *)
(* the file, or removes it, whosever it is by then.                        *)
(***************************************************************************)
LEMMA LeavingStep ==
  ASSUME IInv, NEW a \in Agents, dead \subseteq dead', dead' \subseteq dead \cup {a},
         \A b \in Agents \ {a} : pc'[b] = pc[b] /\ (depth'[b] > 0 <=> depth[b] > 0),
         depth'[a] > 0 <=> pc'[a] \in Holding,
         a \in dead' \/ pc'[a] \notin Claiming \cup {"steal"},
         \/ UNCHANGED <<file, past>> /\ robbed' = robbed \ {a}
         \/ Remove(a) /\ dead' = dead /\ (a \notin AtWork \ robbed => dead # {} \/ "overdue" \in past)
  PROVE  Locked'
<1>1. AtWork' = AtWork \ {a} /\ \A b \in AtWork \ {a} : pc'[b] = pc[b]
  BY DEF AtWork
<1>2. CASE UNCHANGED <<file, past>> /\ robbed' = robbed \ {a}
  <2>1. LockInv'
    BY <1>1, <1>2 DEF IInv, LockInv
  <2>2. RobberyNeedsCause' /\ CauseFound'
    BY <1>1, <1>2 DEF IInv, RobberyNeedsCause, CauseFound
  <2>. QED  BY <2>1, <2>2 DEF Locked
<1>3. CASE Remove(a) /\ dead' = dead /\ (a \notin AtWork \ robbed => dead # {} \/ "overdue" \in past)
  <2>1. file' = NoFile /\ past \subseteq past'
        /\ (("robbery" \in past' \ past \/ robbed' # robbed \ {a}) =>
              Robs(a) /\ robbed' = (robbed \ {a}) \cup {file.by} /\ "robbery" \in past')
        /\ ("overdue" \in past' => "overdue" \in past)
    BY <1>3 DEF Remove
  <2>2. ASSUME NEW b \in AtWork \ robbed, b # a PROVE Robs(a) /\ file.by = b
    BY <2>2 DEF IInv, LockInv, Robs, AtWork
  <2>3. Robs(a) => file.by \in AtWork \ {a} /\ a \notin AtWork \ robbed
    BY DEF IInv, LockInv, Robs, AtWork, TypeOK, LockFile
  <2>4. LockInv'
    <3>1. robbed' \subseteq AtWork'
      BY <1>1, <2>1, <2>3 DEF IInv, LockInv
    <3>2. AtWork' \ robbed' = {}
      BY <1>1, <1>3, <2>2 DEF Remove
    <3>. QED  BY <1>1, <2>1, <3>1, <3>2 DEF IInv, LockInv
  <2>5. RobberyNeedsCause'
    BY <1>1, <1>3, <2>1, <2>3 DEF IInv, RobberyNeedsCause
  <2>6. CauseFound'
    BY <1>3, <2>1 DEF IInv, CauseFound
  <2>. QED  BY <2>4, <2>5, <2>6 DEF Locked
<1>. QED  BY <1>2, <1>3

(***************************************************************************)
(* The two steps by which a process gets the lock.                         *)
(***************************************************************************)
LEMMA CreateStep ==
  ASSUME IInv, NEW a \in Agents, Create(a) PROVE Locked' /\ Kept'
<1>1. pc[a] = "try" /\ a \notin dead
  BY DEF Create, At
<1>2. CASE file # NoFile
  BY <1>1, <1>2, OutsiderStep DEF Create, Steps, Claiming
<1>3. CASE file = NoFile
  <2>1. /\ file' = [by |-> a, written |-> FALSE, old |-> FALSE]
        /\ pc' = [pc EXCEPT ![a] = "write_pid"]
        /\ UNCHANGED <<depth, dead, robbed, past, mem, artifact, saved>>
    BY <1>3 DEF Create, Goto, data, history
  <2>2. pc'[a] = "write_pid" /\ \A b \in Agents \ {a} : pc'[b] = pc[b]
    BY <2>1 DEF IInv, TypeOK
  <2>3. AtWork \ robbed = {} /\ AtWork' = AtWork \cup {a}
    BY <1>1, <1>3, <2>1, <2>2 DEF IInv, LockInv, AtWork, Claiming
  <2>4. file' # NoFile /\ file'.by = a /\ ~file'.written /\ ~file'.old
    <3>1. [by |-> a, written |-> FALSE, old |-> FALSE] \in LockFile
      BY DEF LockFile
    <3>. QED  BY <2>1, <3>1, NoFileIsNoLock
  <2>5. LockInv'
    <3>1. \A b \in Agents : depth'[b] > 0 <=> pc'[b] \in Holding
      BY <1>1, <2>1, <2>2 DEF IInv, LockInv, Holding
    <3>2. AtWork' \ robbed' \subseteq {a} /\ robbed' \subseteq AtWork'
      BY <2>1, <2>3 DEF IInv, LockInv
    <3>. QED  BY <2>2, <2>4, <3>1, <3>2 DEF LockInv
  <2>6. RobberyNeedsCause' /\ CauseFound'
    BY <2>1, <2>2, <2>3, <2>4 DEF IInv, RobberyNeedsCause, LockInv, CauseFound
  <2>7. Kept'
    BY <2>1, <2>2, NothingToSave
  <2>. QED  BY <2>5, <2>6, <2>7 DEF Locked
<1>. QED  BY <1>2, <1>3

LEMMA WritePidStep ==
  ASSUME IInv, NEW a \in Agents, WritePid(a) PROVE Locked' /\ Kept'
<1>1. /\ pc[a] = "write_pid" /\ a \in AtWork /\ pc' = [pc EXCEPT ![a] = "hold"]
      /\ depth' = [depth EXCEPT ![a] = 1]
      /\ UNCHANGED <<dead, robbed, past, mem, artifact, saved>>
  BY DEF WritePid, At, Goto, AtWork, Claiming, data, history
<1>2. /\ pc'[a] = "hold" /\ \A b \in Agents \ {a} : pc'[b] = pc[b]
      /\ depth'[a] = 1 /\ \A b \in Agents \ {a} : depth'[b] = depth[b]
  BY <1>1 DEF IInv, TypeOK
<1>3. AtWork' = AtWork
  BY <1>1, <1>2 DEF AtWork, Claiming
<1>4. \A b \in Agents : depth'[b] > 0 <=> pc'[b] \in Holding
  BY <1>2 DEF IInv, LockInv, Holding
<1>5. LockInv'
  <2>1. CASE file # NoFile /\ file.by = a
    <3>1. file' # NoFile /\ file'.by = a /\ file'.written /\ file'.old = file.old
      BY <2>1, NoFileIsNoLock DEF WritePid, IInv, TypeOK, LockFile
    <3>. QED  BY <1>1, <1>2, <1>3, <1>4, <2>1, <3>1 DEF IInv, LockInv
  <2>2. CASE ~(file # NoFile /\ file.by = a)
    <3>1. file' = file /\ a \notin AtWork \ robbed
      BY <2>2 DEF WritePid, IInv, LockInv
    <3>. QED  BY <1>1, <1>2, <1>3, <1>4, <3>1 DEF IInv, LockInv
  <2>. QED  BY <2>1, <2>2
<1>6. RobberyNeedsCause' /\ CauseFound'
  <2>1. file' # NoFile /\ file'.old => file # NoFile /\ file.old
    BY NoFileIsNoLock DEF WritePid, IInv, TypeOK, LockFile
  <2>. QED  BY <1>1, <1>2, <1>3, <2>1 DEF IInv, RobberyNeedsCause, CauseFound
<1>7. Kept'
  BY <1>1, <1>2, NothingToSave
<1>. QED  BY <1>5, <1>6, <1>7 DEF Locked

(***************************************************************************)
(* The steps of acquire_lock.                                              *)
(***************************************************************************)
LEMMA LockStep ==
  ASSUME IInv, NEW a \in Agents, Lock(a) PROVE Locked' /\ Kept'
<1>1. CASE Create(a)
  BY <1>1, CreateStep
<1>2. CASE WritePid(a)
  BY <1>2, WritePidStep
<1>3. CASE Inspect(a)
  <2>1. Goto(a, "wait") \/ (Goto(a, "steal") /\ file # NoFile /\ Stale(file))
    BY <1>3 DEF Inspect
  <2>2. file # NoFile /\ Stale(file) => dead # {} \/ "overdue" \in past
    BY DEF Stale, IInv, CauseFound
  <2>. QED  BY <1>3, <2>1, <2>2, OutsiderStep DEF Inspect, At, Steps, Claiming
<1>4. CASE Acquire(a) \/ CreateFails(a) \/ StealFails(a) \/ Wait(a) \/ GiveUp(a)
  BY <1>4, OutsiderStep
  DEF Acquire, CreateFails, StealFails, Wait, GiveUp, At, Steps, Claiming
<1>5. CASE Steal(a)
  <2>1. /\ pc[a] = "steal" /\ a \notin dead /\ Remove(a) /\ pc' = [pc EXCEPT ![a] = "try"]
        /\ UNCHANGED <<depth, dead, mem, artifact, saved>>
    BY <1>5 DEF Steal, At, Goto, data
  <2>2. pc'[a] = "try" /\ \A b \in Agents \ {a} : pc'[b] = pc[b]
    BY <2>1 DEF IInv, TypeOK
  <2>3. Locked'
    BY <2>1, <2>2, LeavingStep DEF IInv, LockInv, CauseFound, Claiming, Holding
  <2>4. Kept'
    BY <2>1, <2>2, NothingToSave DEF Remove
  <2>. QED  BY <2>3, <2>4
<1>6. CASE WriteFails(a)
  <2>1. /\ pc[a] = "write_pid" /\ pc' = [pc EXCEPT ![a] = "idle"] /\ robbed' = robbed \ {a}
        /\ UNCHANGED <<file, depth, dead, past, mem, artifact, saved>>
    BY <1>6 DEF WriteFails, At, Goto, data
  <2>2. pc'[a] = "idle" /\ \A b \in Agents \ {a} : pc'[b] = pc[b]
    BY <2>1 DEF IInv, TypeOK
  <2>3. Locked'
    BY <2>1, <2>2, LeavingStep DEF IInv, LockInv, Claiming, Holding
  <2>4. Kept'
    BY <2>1, <2>2, NothingToSave
  <2>. QED  BY <2>3, <2>4
<1>. QED  BY <1>1, <1>2, <1>3, <1>4, <1>5, <1>6 DEF Lock

(***************************************************************************)
(* The steps under the lock.                                               *)
(***************************************************************************)
LEMMA UpdateStep ==
  ASSUME IInv, NEW a \in Agents, Update(a) PROVE Locked' /\ Kept'
<1>1. CASE Reenter(a)
  <2>1. /\ At(a, "hold") /\ pc' = pc /\ depth' = [depth EXCEPT ![a] = @ + 1]
        /\ UNCHANGED <<file, dead, robbed, past, mem, artifact, saved>>
    BY <1>1 DEF Reenter, data, history
  <2>2. \A b \in Agents : depth'[b] > 0 <=> depth[b] > 0
    BY <2>1 DEF At, IInv, LockInv, TypeOK, Holding
  <2>3. Locked'
    BY <2>1, <2>2, GuardedStep DEF Holding
  <2>4. Kept'
    BY <2>1, NothingToSave
  <2>. QED  BY <2>3, <2>4
<1>2. CASE Load(a) \/ LoadFails(a) \/ Save(a) \/ SaveFails(a)
  <2>1. /\ pc[a] \in Holding /\ \E step \in Holding : ~At(a, step) /\ Goto(a, step)
        /\ UNCHANGED <<file, depth, dead, robbed>> /\ past' \in {past, past \cup {"unread"}}
    BY <1>2 DEF Load, LoadFails, Save, SaveFails, At, Holding, history
  <2>2. Locked'
    BY <2>1, GuardedStep
  <2>3. \A b \in Agents \ {a} : pc'[b] = pc[b]
    BY <2>1 DEF Goto, IInv, TypeOK
  <2>4. CASE SaveFails(a)
    <3>1. pc'[a] = "drop" /\ UNCHANGED <<dead, past, mem, artifact, saved>>
      BY <2>4 DEF SaveFails, Goto, data, history, IInv, TypeOK
    <3>. QED  BY <2>2, <2>3, <3>1, NothingToSave
  <2>5. CASE LoadFails(a)
    <3>1. "unread" \in past'
      BY <2>5 DEF LoadFails
    <3>. QED  BY <2>2, <3>1 DEF Kept, NoUpdateLost, CopyIsCurrent
  <2>6. CASE Load(a)
    <3>1. /\ mem' = [mem EXCEPT ![a] = artifact]
          /\ UNCHANGED <<artifact, saved, dead, past>>
      BY <2>6 DEF Load, Loaded, history
    <3>2. mem'[a] = artifact /\ \A b \in Agents \ {a} : mem'[b] = mem[b]
      BY <3>1 DEF IInv, TypeOK
    <3>. QED
      BY <2>2, <2>3, <3>1, <3>2
      DEF Kept, IInv, NoUpdateLost, CopyIsCurrent, AtWork, Claiming
  <2>7. CASE Save(a)
    <3>1. /\ pc[a] = "save" /\ a \in AtWork /\ pc' = [pc EXCEPT ![a] = "drop"]
          /\ artifact' = [mem[a] EXCEPT ![a] = @ + 1] /\ saved' = [saved EXCEPT ![a] = @ + 1]
          /\ UNCHANGED <<dead, past>>
      BY <2>7 DEF Save, At, Goto, AtWork, Claiming, history
    <3>2. ASSUME past \cap {"robbery", "unread"} = {} PROVE artifact' = saved'
      BY <3>1, <3>2 DEF IInv, NoUpdateLost, CopyIsCurrent
    <3>3. ASSUME "robbery" \notin past PROVE \A b \in AtWork : b = a
      BY <3>1, <3>3 DEF IInv, RobberyNeedsCause
    <3>4. pc'[a] = "drop"
      BY <3>1 DEF IInv, TypeOK
    <3>. QED
      BY <2>2, <2>3, <3>1, <3>2, <3>3, <3>4
      DEF Kept, NoUpdateLost, CopyIsCurrent, AtWork, Claiming
  <2>. QED  BY <1>2, <2>4, <2>5, <2>6, <2>7
<1>3. CASE Drop(a) /\ ~Last(a)
  <2>1. /\ At(a, "drop") /\ depth' = [depth EXCEPT ![a] = @ - 1] /\ depth[a] # 1
        /\ UNCHANGED <<pc, file, dead, robbed, past, mem, artifact, saved>>
    BY <1>3 DEF Drop, Last, data, history
  <2>2. \A b \in Agents : depth'[b] > 0 <=> depth[b] > 0
    BY <2>1 DEF At, IInv, LockInv, TypeOK, Holding
  <2>3. Locked'
    BY <2>1, <2>2, GuardedStep DEF Holding
  <2>4. Kept'
    BY <2>1, NothingToSave
  <2>. QED  BY <2>3, <2>4
<1>4. CASE (Drop(a) /\ Last(a)) \/ DropFails(a)
  <2>1. /\ pc[a] = "drop" /\ a \in AtWork /\ pc' = [pc EXCEPT ![a] = "idle"] /\ depth[a] = 1
        /\ depth' = [depth EXCEPT ![a] = depth[a] - 1] \/ depth' = [depth EXCEPT ![a] = 0]
        /\ UNCHANGED <<dead, mem, artifact, saved>>
    BY <1>4 DEF Drop, DropFails, Last, At, Goto, data, AtWork, Claiming
  <2>2. /\ pc'[a] = "idle" /\ depth'[a] = 0
        /\ \A b \in Agents \ {a} : pc'[b] = pc[b] /\ depth'[b] = depth[b]
    BY <2>1 DEF IInv, TypeOK
  <2>3. Remove(a) \/ (UNCHANGED <<file, past>> /\ robbed' = robbed \ {a})
    BY <1>4 DEF Drop, DropFails
  <2>4. a \in robbed => dead # {} \/ "overdue" \in past
    BY DEF IInv, RobberyNeedsCause
  <2>5. Locked'
    BY <2>1, <2>2, <2>3, <2>4, LeavingStep DEF Claiming, Holding
  <2>6. Kept'
    BY <2>1, <2>2, <2>3, NothingToSave DEF Remove
  <2>. QED  BY <2>5, <2>6
<1>. QED  BY <1>1, <1>2, <1>3, <1>4 DEF Update

(***************************************************************************)
(* A death, and a lock that gets old.                                      *)
(***************************************************************************)
LEMMA CrashStep ==
  ASSUME IInv, NEW a \in Agents, Crash(a) PROVE Locked' /\ Kept'
<1>1. dead' = dead \cup {a} /\ robbed' = robbed \ {a}
      /\ UNCHANGED <<file, pc, depth, past, mem, artifact, saved>>
  BY DEF Crash, data
<1>2. Locked'
  BY <1>1, LeavingStep DEF IInv, LockInv
<1>3. Kept'
  BY <1>1, NothingToSave
<1>. QED  BY <1>2, <1>3

LEMMA AgeStep == ASSUME IInv, Age PROVE Locked' /\ Kept'
<1>1. /\ file # NoFile /\ file.written /\ file' = [file EXCEPT !.old = TRUE]
      /\ past' = past \cup {"overdue"}
      /\ UNCHANGED <<pc, depth, dead, robbed, mem, artifact, saved>>
  BY DEF Age, data
<1>2. file' # NoFile /\ file'.by = file.by /\ file'.written = file.written
  BY <1>1, NoFileIsNoLock DEF IInv, TypeOK, LockFile
<1>3. AtWork' = AtWork
  BY <1>1 DEF AtWork
<1>4. LockInv'
  BY <1>1, <1>2, <1>3 DEF IInv, LockInv
<1>5. RobberyNeedsCause' /\ CauseFound'
  BY <1>1, <1>3 DEF IInv, RobberyNeedsCause, CauseFound
<1>6. Kept'
  BY <1>1, NothingToSave
<1>. QED  BY <1>4, <1>5, <1>6 DEF Locked

LEMMA StutterStep == ASSUME IInv, UNCHANGED vars PROVE Locked' /\ Kept'
BY DEF vars, IInv, Locked, LockInv, RobberyNeedsCause, CauseFound, Kept, NoUpdateLost,
     CopyIsCurrent, AtWork

(* Every step preserves the rest of the inductive invariant.               *)
LEMMA SafetyStep == ASSUME IInv, [Next]_vars PROVE Locked' /\ Kept'
BY LockStep, UpdateStep, CrashStep, AgeStep, StutterStep DEF Next

(* The inductive invariant holds in every reachable state.                 *)
THEOREM InductiveInvariant == Spec => []IInv
<1>1. IInv /\ [Next]_vars => IInv'
  BY TypeStep, SafetyStep DEF IInv, Locked, Kept
<1> QED
  BY InitInv, <1>1, PTL DEF Spec

(* The type invariant, for any number of processes, calls and nestings.    *)
THEOREM TypeCorrect == Spec => []TypeOK
BY InductiveInvariant, PTL DEF IInv

(* The lock belongs to whom its file names: acquire_lock and Drop.         *)
THEOREM LockInvariant == Spec => []TypedLock
BY InductiveInvariant, PTL DEF IInv, TypedLock

(* Whatever fails, two processes only work under the lock at once after a  *)
(* process died or a lock got old: steal_stale_lock.                       *)
THEOREM RobberiesHaveACause == Spec => []RobberyNeedsCause
BY InductiveInvariant, PTL DEF IInv

(* Without a robbery, no update of the playbook is lost.                   *)
THEOREM UpdatesAreKept == Spec => []NoUpdateLost
BY InductiveInvariant, PTL DEF IInv
=============================================================================
