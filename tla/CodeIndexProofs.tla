-------------------------- MODULE CodeIndexProofs --------------------------
(***************************************************************************)
(* What CodeIndex and CodeView guarantee for any number of files,          *)
(* commands, edits and deaths, and at most one watcher of the tree.        *)
(*                                                                         *)
(* Core is inductive: the records on disk and in every process are sound   *)
(* (a record whose stat is a file's has its content, as the content is     *)
(* read after the stat), a build works under the lock and saves the index  *)
(* first, and so nothing is taken for fresh that is not of the index.      *)
(*                                                                         *)
(* Over it, Watching says how far the build has come that makes the index  *)
(* the tree's: either something is queued, or the files that the build has *)
(* behind it are as it recorded them.  Commands says the same of time: a   *)
(* file that a command, or a build that it may come to rely on, has behind *)
(* it was as recorded at some moment since the command was started.        *)
(*                                                                         *)
(* View carries this on to CodeView: the stat that a file is exported      *)
(* under is timely, and what the graph has of it is either of no version   *)
(* between the command's start and the stat, or newer.                     *)
(***************************************************************************)
EXTENDS CodeView, WellFoundedInduction, TLAPS

Rows == [Files -> [stat : Nat, content : Nat]]

Process == [pc : Steps, kind : {"none", "index", "find", "arrow-nodes", "graph", "explain", "watch"},
            walk : SUBSET Files, prev : Rows, held : Rows, stat : Nat,
            answer : [Files -> Nat], begun : [Files -> Nat], began : Nat, amid : BOOLEAN]

Typed ==
  /\ tree \in [Files -> Nat]
  /\ clock \in 1 .. MaxEdits + 1
  /\ index \in Rows \cup {Nobody}
  /\ summary \in [files : SUBSET Files, stamped : BOOLEAN] \cup {Nobody}
  /\ search \in [contents : [Files -> Nat], newer : BOOLEAN] \cup {Nobody}
  /\ lock \in Processes \cup {Nobody}
  /\ proc \in [Processes -> Process]
  /\ queued \in BOOLEAN /\ lapsed \in BOOLEAN /\ woken \in BOOLEAN
  /\ calls \in 0 .. MaxCalls /\ deaths \in 0 .. MaxDeaths

(* Records that can be reused by stat: what has a file's stat is that file. *)
Sound(records) ==
  \A f \in Files :
    /\ records[f].stat <= records[f].content /\ records[f].content <= clock
    /\ records[f].stat = 0 => records[f].content = 0
    /\ tree[f] # 0 => records[f].content <= tree[f]

(* What a process has of records, and what the lock gives it.              *)
BuilderOK(p) ==
  /\ Sound(proc[p].prev) /\ Sound(proc[p].held)
  /\ proc[p].stat <= clock
  /\ proc[p].pc \in Building => lock = p
  /\ proc[p].pc = "read" =>
       /\ proc[p].walk # {} /\ proc[p].stat # 0
       /\ tree[First(proc[p].walk)] # 0 => proc[p].stat <= tree[First(proc[p].walk)]
  /\ proc[p].pc \in {"summary", "search"} => index = proc[p].held

(* The inductive invariant of the files.                                   *)
Core ==
  /\ Typed
  /\ FreshMeansSame
  /\ \A f \in Files : tree[f] <= clock
  /\ index # Nobody => Sound(index)
  /\ search # Nobody => \A f \in Files : search.contents[f] <= clock
  /\ \A p \in Processes : BuilderOK(p)

(* The watcher is done with what it was told.                              *)
Settled ==
  /\ woken /\ ~queued
  /\ \A w \in Watchers : (At(w, "idle") /\ ~lapsed) \/ proc[w].pc \in {"summary", "search", "loaded"}

(* What the build of p has behind it is as it recorded it, and what it has *)
(* before it is there.                                                     *)
PartlyCurrent(p) ==
  /\ proc[p].pc \in {"stat", "read"} =>
       /\ \A f \in Files \ proc[p].walk : proc[p].held[f].stat = tree[f]
       /\ \A f \in proc[p].walk : tree[f] # 0
  /\ proc[p].pc = "read" => proc[p].stat = tree[First(proc[p].walk)]

(* The inductive invariant of the watcher.                                 *)
Watching ==
  /\ \A w \in Watchers :
       /\ proc[w].pc \in {"idle", "debounce", "lock", "loaded"} \cup Building
       /\ proc[w].pc \notin {"idle", "debounce"} => proc[w].kind = "watch"
  /\ Settled => index # Nobody /\ \A f \in Files : index[f].stat = tree[f]
  /\ \A p \in Processes : ~queued /\ (p \in Watchers \/ Settled) => PartlyCurrent(p)

(* OfItsTime, of one version of a file.                                    *)
Timely(p, f, version) ==
  \/ version = proc[p].begun[f]
  \/ version > proc[p].began
  \/ version = 0 /\ tree[f] # proc[p].begun[f]

(* All that an index says of files.                                        *)
AllTimely(p, records) == \A f \in Files : Timely(p, f, records[f].content)

(* What the build of q has behind it would be a timely answer of p.        *)
BuildsTimely(p, q) ==
  /\ proc[q].pc \in {"stat", "read"} =>
       \A f \in Files \ proc[q].walk : Timely(p, f, proc[q].held[f].content)
  /\ proc[q].pc \in {"summary", "search"} => AllTimely(p, proc[q].held)

(* A command that was not started amid a build may rely on what others     *)
(* build; any may rely on what it compared or built.                       *)
CommandOK(p) ==
  ~At(p, "idle") =>
    /\ proc[p].began <= clock
    /\ \A f \in Files : proc[p].begun[f] <= proc[p].began /\ Timely(p, f, tree[f])
    /\ BuildsTimely(p, p)
    /\ At(p, "compare") =>
         /\ \A f \in Files \ proc[p].walk : Timely(p, f, proc[p].held[f].content)
         /\ \A f \in proc[p].walk : proc[p].held[f].content # 0
    /\ At(p, "loaded") => AllTimely(p, proc[p].held)
    /\ ~proc[p].amid =>
         /\ \A q \in Processes : BuildsTimely(p, q)
         /\ At(p, "compare") => index # Nobody /\ (index = proc[p].held \/ AllTimely(p, index))
         /\ At(p, "loaded") => index # Nobody /\ AllTimely(p, index)
    /\ At(p, "answered") /\ proc[p].kind \in {"index", "find"}
         /\ (proc[p].kind = "find" => ~proc[p].amid)
         => \A f \in Files : Timely(p, f, proc[p].answer[f])

(* The inductive invariant of the commands.                                *)
Commands == \A p \in Agents : CommandOK(p)

-----------------------------------------------------------------------------
LEMMA HasFirst ==
  ASSUME NEW S \in SUBSET Files, S # {}
  PROVE  First(S) \in S
<1>. DEFINE R == {ss \in Nat \X Nat : ss[1] < ss[2]}
<1>1. IsWellFoundedOn(R, Nat)
  BY NatLessThanWellFounded DEF OpToRel
<1>2. S \subseteq Nat
  BY CodeIndexAssumption DEF Files
<1>. HIDE DEF R
<1>3. PICK x \in S : \A y \in S : ~(<<y, x>> \in R)
  BY <1>1, <1>2, WFMin
<1>4. \A y \in S : ~(y < x)
  BY <1>2, <1>3 DEF R
<1>5. \A y \in S : x <= y
  BY <1>2, <1>4
<1>. QED  BY <1>5 DEF First

LEMMA NothingRecorded == NoRecords \in Rows /\ \A f \in Files : NoRecords[f].stat = 0 /\ NoRecords[f].content = 0
BY DEF NoRecords, NoRecord, Rows

LEMMA IdleProcess ==
  /\ Idle \in Process /\ Idle.pc = "idle" /\ Idle.kind = "none" /\ Idle.walk = {} /\ Idle.stat = 0
  /\ Idle.prev = NoRecords /\ Idle.held = NoRecords
<1>1. NoContents \in [Files -> Nat]
  BY DEF NoContents
<1>2. "idle" \in Steps
  BY DEF Steps
<1>. QED  BY <1>1, <1>2, NothingRecorded DEF Idle, Process

LEMMA NoRecordsSound == ASSUME Typed PROVE Sound(NoRecords)
BY NothingRecorded DEF Sound, Typed

(***************************************************************************)
(* What the invariant says of the data makes up IndexInv.                  *)
(***************************************************************************)
LEMMA CoreImplies == Core => IndexInv
<1>. SUFFICES ASSUME Core PROVE IndexInv
  OBVIOUS
<1>. USE DEF Core
<1>1. ASSUME NEW r \in Rows, Sound(r) PROVE r \in Records /\ Truthful(r)
  <2>1. Truthful(r)
    BY <1>1 DEF Truthful, Sound, Rows
  <2>2. clock \in Nat
    BY CodeIndexAssumption DEF Typed
  <2>3. \A f \in Files : r[f].stat \in Versions /\ r[f].content \in Versions
    BY <1>1, <2>2 DEF Sound, Rows, Versions
  <2>4. \A f \in Files : r[f] \in [stat : Versions, content : Versions]
    BY <2>3 DEF Rows
  <2>. QED  BY <2>1, <2>4 DEF Rows, Records
<1>2. tree \in [Files -> Versions]
  BY DEF Typed, Versions
<1>3. search \in [contents : [Files -> Versions], newer : BOOLEAN] \cup {Nobody}
  <2>1. ASSUME search # Nobody PROVE search.contents \in [Files -> Versions]
    BY <2>1 DEF Typed, Versions
  <2>. QED  BY <2>1 DEF Typed
<1>4. ASSUME NEW p \in Processes
      PROVE  /\ proc[p].pc \in Steps /\ proc[p].walk \subseteq Files
             /\ proc[p].prev \in Rows /\ proc[p].held \in Rows /\ proc[p].stat \in Versions
             /\ Sound(proc[p].prev) /\ Sound(proc[p].held) /\ (proc[p].pc \in Building => lock = p)
  <2>1. proc[p] \in Process
    BY DEF Typed
  <2>. QED  BY <2>1 DEF Process, BuilderOK, Typed, Versions
<1>5. IndexTypeOK
  BY <1>1, <1>2, <1>3, <1>4 DEF Typed, IndexTypeOK
<1>. QED  BY <1>1, <1>4, <1>5 DEF Typed, IndexInv

LEMMA IndexInitially == IndexInit => Core
<1>. SUFFICES ASSUME IndexInit PROVE Core
  OBVIOUS
<1>1. Typed
  <2>1. 1 \in 1 .. MaxEdits + 1 /\ 0 \in 0 .. MaxCalls /\ 0 \in 0 .. MaxDeaths
    BY CodeIndexAssumption
  <2>2. tree \in [Files -> Nat]
    BY DEF IndexInit
  <2>3. proc \in [Processes -> Process]
    BY IdleProcess DEF IndexInit
  <2>. QED  BY <2>1, <2>2, <2>3 DEF IndexInit, Typed
<1>2. \A p \in Processes : BuilderOK(p)
  BY <1>1, IdleProcess, NoRecordsSound DEF IndexInit, BuilderOK, Building, Typed
<1>. QED  BY <1>1, <1>2 DEF IndexInit, Core, FreshMeansSame, SidecarIsFresh, Typed

(***************************************************************************)
(* An edit: the new version is later than any that was seen.               *)
(***************************************************************************)
LEMMA TouchCore ==
  ASSUME Core, NEW f \in Files, NEW version \in {0, clock + 1}, Touch(f, version)
  PROVE  Core'
<1>. USE DEF Core
<1>1. /\ clock' = clock + 1 /\ tree' = [tree EXCEPT ![f] = version] /\ clock <= MaxEdits
      /\ index' = index /\ summary' = summary /\ search' = search /\ lock' = lock /\ proc' = proc
      /\ queued' \in BOOLEAN /\ woken' \in BOOLEAN /\ lapsed' = lapsed /\ calls' = calls
      /\ deaths' = deaths
  BY DEF Touch, artifacts, counts
<1>2. clock \in Nat /\ clock' \in 1 .. MaxEdits + 1
  BY <1>1, CodeIndexAssumption DEF Typed
<1>3. \A g \in Files : tree'[g] = IF g = f THEN version ELSE tree[g]
  BY <1>1 DEF Typed
<1>4. Typed'
  BY <1>1, <1>2 DEF Typed
<1>5. \A g \in Files : tree'[g] <= clock'
  BY <1>1, <1>2, <1>3 DEF Typed
<1>6. ASSUME NEW r \in Rows, Sound(r) PROVE Sound(r)'
  BY <1>1, <1>2, <1>3, <1>6 DEF Sound, Rows
<1>7. ASSUME NEW p \in Processes PROVE BuilderOK(p)'
  <2>1. proc[p] \in Process /\ BuilderOK(p)
    BY DEF Typed
  <2>2. proc[p].prev \in Rows /\ proc[p].held \in Rows /\ proc[p].walk \in SUBSET Files
        /\ proc[p].stat \in Nat
    BY <2>1 DEF Process
  <2>3. Sound(proc[p].prev)' /\ Sound(proc[p].held)'
    BY <1>1, <1>6, <2>1, <2>2 DEF BuilderOK
  <2>4. proc[p].stat <= clock'
    BY <1>1, <1>2, <2>1, <2>2 DEF BuilderOK
  <2>5. proc[p].pc = "read" =>
           (tree'[First(proc[p].walk)] # 0 => proc[p].stat <= tree'[First(proc[p].walk)])
    BY <1>2, <1>3, <2>1, <2>2, HasFirst DEF BuilderOK
  <2>. QED  BY <1>1, <2>1, <2>3, <2>4, <2>5 DEF BuilderOK
<1>8. index' # Nobody => Sound(index)'
  BY <1>1, <1>6 DEF Typed
<1>9. search' # Nobody => \A g \in Files : search'.contents[g] <= clock'
  BY <1>1, <1>2 DEF Typed
<1>. QED  BY <1>1, <1>4, <1>5, <1>7, <1>8, <1>9 DEF FreshMeansSame, SidecarIsFresh

(***************************************************************************)
(* A step of one process that leaves the files alone.                      *)
(***************************************************************************)
LEMMA ProcessCore ==
  ASSUME Core, NEW p \in Processes, NEW r \in Process,
         proc' = [proc EXCEPT ![p] = r],
         UNCHANGED <<tree, clock, artifacts>>,
         lock' \in Processes \cup {Nobody},
         lock' = lock \/ lock \in {p, Nobody},
         queued' \in BOOLEAN, lapsed' \in BOOLEAN, woken' \in BOOLEAN,
         calls' \in 0 .. MaxCalls, deaths' \in 0 .. MaxDeaths,
         Sound(r.prev), Sound(r.held), r.stat <= clock,
         r.pc \in Building => lock' = p,
         r.pc = "read" => /\ r.walk # {} /\ r.stat # 0
                          /\ tree[First(r.walk)] # 0 => r.stat <= tree[First(r.walk)],
         r.pc \in {"summary", "search"} => index = r.held
  PROVE  Core'
<1>1. /\ tree' = tree /\ clock' = clock /\ index' = index /\ summary' = summary /\ search' = search
      /\ proc'[p] = r /\ \A q \in Processes \ {p} : proc'[q] = proc[q]
  BY DEF artifacts, Core, Typed
<1>2. Typed'
  BY <1>1 DEF Core, Typed
<1>3. \A records : Sound(records) => Sound(records)'
  BY <1>1 DEF Sound
<1>4. ASSUME NEW q \in Processes PROVE BuilderOK(q)'
  <2>1. CASE q = p
    BY <1>1, <1>3, <2>1 DEF BuilderOK
  <2>2. CASE q # p
    <3>1. BuilderOK(q) /\ q # Nobody
      BY CodeIndexAssumption DEF Core
    <3>2. proc[q].pc \in Building => lock' = q
      BY <2>2, <3>1 DEF BuilderOK
    <3>. QED  BY <1>1, <1>3, <2>2, <3>1, <3>2 DEF BuilderOK
  <2>. QED  BY <2>1, <2>2
<1>5. FreshMeansSame'
  BY <1>1 DEF Core, FreshMeansSame, SidecarIsFresh
<1>. QED  BY <1>1, <1>2, <1>3, <1>4, <1>5 DEF Core

LEMMA ProcessTyped ==
  ASSUME Core, NEW p \in Processes
  PROVE  /\ proc[p] \in Process /\ proc[p].walk \in SUBSET Files /\ proc[p].stat \in Nat
         /\ proc[p].prev \in Rows /\ proc[p].held \in Rows
         /\ BuilderOK(p) /\ clock \in Nat /\ p # Nobody
         /\ \A f \in Files : tree[f] \in Nat /\ tree[f] <= clock
BY CodeIndexAssumption DEF Core, Typed, Process

LEMMA CommandCore ==
  ASSUME Core, NEW p \in Agents, NEW kind \in Kinds, Command(p, kind) PROVE Core'
<1>. DEFINE r == [Idle EXCEPT !.pc = IF kind = "index" THEN "lock" ELSE "load",
                    !.kind = kind, !.begun = tree, !.began = clock, !.amid = (lock # Nobody)]
<1>1. /\ proc' = [proc EXCEPT ![p] = r] /\ UNCHANGED <<tree, clock, artifacts, lock, watch, deaths>>
      /\ calls < MaxCalls /\ calls' = calls + 1
  BY DEF Command
<1>2. p \in Processes /\ Typed /\ clock \in Nat
  BY CodeIndexAssumption DEF Core, Typed, Processes
<1>3. calls' \in 0 .. MaxCalls
  BY <1>1, <1>2, CodeIndexAssumption DEF Typed
<1>4. /\ r \in Process /\ r.prev = NoRecords /\ r.held = NoRecords /\ r.stat = 0
      /\ r.pc \in {"lock", "load"}
  <2>1. kind \in {"none", "index", "find", "arrow-nodes", "graph", "explain", "watch"}
    BY CodeIndexAssumption
  <2>2. "lock" \in Steps /\ "load" \in Steps
    BY DEF Steps
  <2>. QED  BY <1>2, <2>1, <2>2, IdleProcess DEF Process, Typed
<1>. HIDE DEF r
<1>5. Sound(r.prev) /\ Sound(r.held) /\ r.stat <= clock /\ r.pc \notin Building
  BY <1>2, <1>4, NoRecordsSound DEF Building
<1>6. /\ lock' = lock /\ lock \in Processes \cup {Nobody} /\ queued' \in BOOLEAN /\ lapsed' \in BOOLEAN
      /\ woken' \in BOOLEAN /\ deaths' \in 0 .. MaxDeaths
  BY <1>1, <1>2 DEF Typed, watch
<1>7. r.pc # "read" /\ r.pc \notin {"summary", "search"} /\ UNCHANGED <<tree, clock, artifacts>>
  BY <1>1, <1>4
<1>. QED  BY <1>1, <1>2, <1>3, <1>4, <1>5, <1>6, <1>7, ProcessCore

(* A step that keeps what a process has of records.                        *)
LEMMA GotoCore ==
  ASSUME Core, NEW p \in Processes, NEW step \in Steps, Goto(p, step),
         UNCHANGED <<tree, clock, artifacts, counts, queued, woken>>,
         lapsed' \in BOOLEAN,
         lock' \in Processes \cup {Nobody}, lock' = lock \/ lock \in {p, Nobody},
         step # "read", step \in Building => lock' = p,
         step \in {"summary", "search"} => index = proc[p].held
  PROVE  Core'
<1>. DEFINE r == [proc[p] EXCEPT !.pc = step]
<1>1. proc' = [proc EXCEPT ![p] = r]
  BY ProcessTyped DEF Goto, Core, Typed
<1>2. /\ r \in Process /\ r.pc = step /\ r.held = proc[p].held /\ r.prev = proc[p].prev
      /\ r.stat = proc[p].stat
  BY ProcessTyped DEF Process
<1>. HIDE DEF r
<1>3. Sound(r.prev) /\ Sound(r.held) /\ r.stat <= clock
  BY <1>2, ProcessTyped DEF BuilderOK
<1>. QED  BY <1>1, <1>2, <1>3, ProcessCore DEF counts, Core, Typed

LEMMA IdleCore ==
  ASSUME Core, NEW p \in Processes, proc' = [proc EXCEPT ![p] = Idle],
         UNCHANGED <<tree, clock, artifacts, calls>>,
         queued' = queued, woken' = woken, lapsed' \in BOOLEAN, deaths' \in 0 .. MaxDeaths,
         lock' \in Processes \cup {Nobody}, lock' = lock \/ lock \in {p, Nobody}
  PROVE  Core'
<1>1. /\ Idle \in Process /\ Idle.pc \notin Building /\ Idle.pc # "read"
      /\ Idle.pc \notin {"summary", "search"}
  BY IdleProcess DEF Building
<1>2. Sound(Idle.prev) /\ Sound(Idle.held) /\ Idle.stat <= clock
  BY IdleProcess, NoRecordsSound, ProcessTyped DEF Core
<1>3. queued' \in BOOLEAN /\ woken' \in BOOLEAN /\ calls' \in 0 .. MaxCalls
  BY DEF Core, Typed
<1>. QED  BY <1>1, <1>2, <1>3, ProcessCore

LEMMA LoadIndexCore ==
  ASSUME Core, NEW p \in Processes, LoadIndex(p) PROVE Core'
<1>1. UNCHANGED <<tree, clock, artifacts, lock, watch, counts>>
  BY DEF LoadIndex
<1>2. lock \in Processes \cup {Nobody} /\ lapsed \in BOOLEAN
  BY DEF Core, Typed
<1>3. CASE Goto(p, Stale(p))
  <2>1. Stale(p) \in Steps /\ Stale(p) # "read" /\ (Stale(p) \in Building => lock = p)
        /\ Stale(p) \notin {"summary", "search"}
    BY DEF Stale, Steps, Building
  <2>. QED  BY <1>1, <1>2, <1>3, <2>1, GotoCore DEF watch
<1>4. ASSUME index # Nobody,
             proc' = [proc EXCEPT ![p].pc = "compare", ![p].held = index, ![p].walk = Present(tree)]
      PROVE  Core'
  <2>. DEFINE r == [proc[p] EXCEPT !.pc = "compare", !.held = index, !.walk = Present(tree)]
  <2>1. proc' = [proc EXCEPT ![p] = r]
    BY <1>4 DEF Core, Typed
  <2>2. index \in Rows /\ Present(tree) \subseteq Files /\ "compare" \in Steps
    BY <1>4 DEF Core, Typed, Present, Steps
  <2>3. /\ r \in Process /\ r.pc = "compare" /\ r.held = index /\ r.prev = proc[p].prev
        /\ r.stat = proc[p].stat
    BY <2>2, ProcessTyped DEF Process
  <2>. HIDE DEF r
  <2>4. Sound(r.prev) /\ Sound(r.held) /\ r.stat <= clock
    BY <1>4, <2>3, ProcessTyped DEF BuilderOK, Core
  <2>5. r.pc \notin Building
    BY <2>3 DEF Building
  <2>. QED  BY <1>1, <1>2, <2>1, <2>3, <2>4, <2>5, ProcessCore DEF counts, watch, Core, Typed
<1>. QED  BY <1>3, <1>4 DEF LoadIndex

LEMMA CompareCore ==
  ASSUME Core, NEW p \in Processes, Compare(p) PROVE Core'
<1>1. UNCHANGED <<tree, clock, artifacts, watch, counts>>
  BY DEF Compare
<1>2. lock \in Processes \cup {Nobody} /\ lapsed \in BOOLEAN
  BY DEF Core, Typed
<1>3. CASE proc[p].walk = {}
  <2>1. Goto(p, "loaded") /\ lock' = (IF lock = p THEN Nobody ELSE lock)
    BY <1>3 DEF Compare
  <2>2. "loaded" \in Steps \ Building
    BY DEF Steps, Building
  <2>. QED  BY <1>1, <1>2, <2>1, <2>2, GotoCore DEF watch, Building
<1>4. ASSUME Reconsider(p), lock' = lock PROVE Core'
  <2>. DEFINE r == [proc[p] EXCEPT !.pc = Stale(p), !.walk = {}, !.held = NoRecords]
  <2>1. Stale(p) \in Steps /\ Stale(p) # "read" /\ (Stale(p) \in Building => lock = p)
        /\ Stale(p) \notin {"summary", "search"}
    BY DEF Stale, Steps, Building
  <2>2. proc' = [proc EXCEPT ![p] = r]
    BY <1>4 DEF Reconsider, Core, Typed
  <2>3. /\ r \in Process /\ r.pc = Stale(p) /\ r.held = NoRecords /\ r.prev = proc[p].prev
        /\ r.stat = proc[p].stat
    BY <2>1, NothingRecorded, ProcessTyped DEF Process
  <2>. HIDE DEF r
  <2>4. Sound(r.prev) /\ Sound(r.held) /\ r.stat <= clock
    BY <2>3, NoRecordsSound, ProcessTyped DEF Core, BuilderOK
  <2>. QED  BY <1>1, <1>2, <1>4, <2>1, <2>2, <2>3, <2>4, ProcessCore DEF counts, watch, Core, Typed
<1>5. ASSUME NEW f, proc' = [proc EXCEPT ![p].walk = @ \ {f}], lock' = lock, At(p, "compare")
      PROVE  Core'
  <2>. DEFINE r == [proc[p] EXCEPT !.walk = @ \ {f}]
  <2>1. proc' = [proc EXCEPT ![p] = r]
    BY <1>5 DEF Core, Typed
  <2>3. /\ r \in Process /\ r.pc = "compare" /\ r.held = proc[p].held /\ r.prev = proc[p].prev
        /\ r.stat = proc[p].stat
    BY <1>5, ProcessTyped DEF Process, At
  <2>. HIDE DEF r
  <2>4. Sound(r.prev) /\ Sound(r.held) /\ r.stat <= clock
    BY <2>3, ProcessTyped DEF BuilderOK
  <2>5. r.pc \notin Building
    BY <2>3 DEF Building
  <2>. QED  BY <1>1, <1>2, <1>5, <2>1, <2>3, <2>4, <2>5, ProcessCore DEF counts, watch, Core, Typed
<1>. QED  BY <1>3, <1>4, <1>5 DEF Compare

LEMMA TakeLockCore ==
  ASSUME Core, NEW p \in Processes, TakeLock(p) PROVE Core'
<1>1. /\ UNCHANGED <<tree, clock, artifacts, watch, counts>> /\ lock = Nobody /\ lock' = p
      /\ \E step \in {"discover", "load"} : Goto(p, step)
  BY DEF TakeLock
<1>2. \A step \in {"discover", "load"} : step \in Steps /\ step \notin {"read", "summary", "search"}
  BY DEF Steps
<1>. QED  BY <1>1, <1>2, GotoCore DEF watch, Core, Typed

LEMMA GiveUpCore ==
  ASSUME Core, NEW p \in Processes, GiveUp(p) PROVE Core'
BY IdleCore DEF GiveUp, counts, Core, Typed

(***************************************************************************)
(* A build.                                                                *)
(***************************************************************************)
LEMMA DiscoverCore ==
  ASSUME Core, NEW p \in Processes, Discover(p) PROVE Core'
<1>. DEFINE prev == IF index = Nobody THEN NoRecords ELSE index
            r == [proc[p] EXCEPT !.pc = "stat", !.walk = Present(tree), !.held = NoRecords, !.prev = prev]
<1>1. UNCHANGED <<tree, clock, artifacts, lock, watch, counts>> /\ proc[p].pc = "discover"
  BY DEF Discover, At
<1>2. proc' = [proc EXCEPT ![p] = r]
  BY DEF Discover, Core, Typed
<1>3. prev \in Rows /\ Sound(prev) /\ Sound(NoRecords)
  BY NothingRecorded, NoRecordsSound DEF Core, Typed
<1>. HIDE DEF prev
<1>4. /\ r \in Process /\ r.pc = "stat" /\ r.held = NoRecords /\ r.prev = prev /\ r.stat = proc[p].stat
  <2>1. Present(tree) \subseteq Files /\ "stat" \in Steps
    BY DEF Present, Steps
  <2>. QED  BY <1>3, <2>1, NothingRecorded, ProcessTyped DEF Process
<1>. HIDE DEF r
<1>5. lock = p /\ r.stat <= clock
  BY <1>1, <1>4, ProcessTyped DEF BuilderOK, Building
<1>. QED  BY <1>1, <1>2, <1>3, <1>4, <1>5, ProcessCore DEF counts, watch, Core, Typed

LEMMA FailCore ==
  ASSUME Core, NEW p \in Processes, Fail(p), proc[p].pc \in Building,
         UNCHANGED <<tree, clock, artifacts, watch, counts>>
  PROVE  Core'
<1>1. lock = p
  BY ProcessTyped DEF BuilderOK
<1>. QED  BY <1>1, IdleCore DEF Fail, counts, watch, Core, Typed

LEMMA FailBuildCore ==
  ASSUME Core, NEW p \in Processes, FailBuild(p)
  PROVE  Core'
<1>1. lock = p
  BY ProcessTyped DEF FailBuild, BuilderOK, Building
<1>2. lapsed' \in BOOLEAN
  BY DEF FailBuild, Core, Typed
<1>. QED  BY <1>1, <1>2, IdleCore DEF FailBuild, Fail, counts, Core, Typed

LEMMA RecordCore ==
  ASSUME Core, NEW p \in Processes, NEW f \in Files, NEW record \in [stat : Nat, content : Nat],
         Record(p, f, record), proc[p].pc \in Building,
         record.stat <= record.content, record.content <= clock,
         record.stat = 0 => record.content = 0,
         tree[f] # 0 => record.content <= tree[f],
         UNCHANGED <<tree, clock, artifacts, lock, watch, counts>>
  PROVE  Core'
<1>. DEFINE r == [proc[p] EXCEPT !.pc = "stat", !.walk = @ \ {f}, !.stat = 0,
                                 !.held = [@ EXCEPT ![f] = record]]
<1>1. proc' = [proc EXCEPT ![p] = r]
  <2>1. proc \in [Processes -> Process]
    BY DEF Core, Typed
  <2>. QED  BY <2>1, Zenon DEF Record
<1>2. /\ [proc[p].held EXCEPT ![f] = record] \in Rows
      /\ \A g \in Files : [proc[p].held EXCEPT ![f] = record][g] = IF g = f THEN record ELSE proc[p].held[g]
  BY ProcessTyped DEF Rows
<1>3. /\ r \in Process /\ r.pc = "stat" /\ r.held = [proc[p].held EXCEPT ![f] = record]
      /\ r.prev = proc[p].prev /\ r.stat = 0
  <2>1. "stat" \in Steps
    BY DEF Steps
  <2>. QED  BY <1>2, <2>1, ProcessTyped DEF Process
<1>. HIDE DEF r
<1>4. Sound(r.prev) /\ Sound(proc[p].held) /\ lock = p
  BY <1>3, ProcessTyped DEF BuilderOK
<1>5. Sound(r.held)
  BY <1>2, <1>3, <1>4 DEF Sound
<1>6. 0 <= clock
  BY ProcessTyped
<1>. QED  BY <1>1, <1>3, <1>4, <1>5, <1>6, ProcessCore DEF counts, watch, Core, Typed

LEMMA StatCore ==
  ASSUME Core, NEW p \in Processes, Stat(p) PROVE Core'
<1>. DEFINE f == First(proc[p].walk)
<1>1. /\ UNCHANGED <<tree, clock, artifacts, watch, counts>>
      /\ proc[p].pc = "stat" /\ proc[p].pc \in Building /\ proc[p].walk # {}
  BY DEF Stat, At, Building
<1>2. f \in Files /\ f \in proc[p].walk
  BY <1>1, HasFirst, ProcessTyped
<1>3. CASE tree[f] = 0
  BY <1>1, <1>3, FailCore DEF Stat
<1>4. ASSUME tree[f] # 0, Reusable(p, f), Record(p, f, proc[p].prev[f]), lock' = lock
      PROVE  Core'
  <2>1. Sound(proc[p].prev) /\ proc[p].prev[f] \in [stat : Nat, content : Nat]
    BY <1>2, ProcessTyped DEF BuilderOK, Rows
  <2>. QED  BY <1>1, <1>2, <1>4, <2>1, RecordCore DEF Sound
<1>5. ASSUME tree[f] # 0, proc' = [proc EXCEPT ![p].pc = "read", ![p].stat = tree[f]], lock' = lock
      PROVE  Core'
  <2>. DEFINE r == [proc[p] EXCEPT !.pc = "read", !.stat = tree[f]]
  <2>1. proc' = [proc EXCEPT ![p] = r]
    BY <1>5 DEF Core, Typed
  <2>2. tree[f] \in Nat /\ tree[f] <= clock /\ "read" \in Steps
    BY <1>2, ProcessTyped DEF Steps
  <2>3. /\ r \in Process /\ r.pc = "read" /\ r.held = proc[p].held /\ r.prev = proc[p].prev
        /\ r.stat = tree[f] /\ r.walk = proc[p].walk
    BY <2>2, ProcessTyped DEF Process
  <2>. HIDE DEF r
  <2>4. Sound(r.prev) /\ Sound(r.held) /\ lock = p
    BY <1>1, <2>3, ProcessTyped DEF BuilderOK
  <2>5. r.pc = "read" /\ r.walk # {} /\ r.stat # 0 /\ r.stat <= clock /\ r.stat <= tree[First(r.walk)]
    BY <1>1, <1>5, <2>2, <2>3, ProcessTyped
  <2>. QED  BY <1>1, <1>5, <2>1, <2>3, <2>4, <2>5, ProcessCore DEF counts, watch, Core, Typed
<1>. QED  BY <1>3, <1>4, <1>5 DEF Stat

LEMMA ReadCore ==
  ASSUME Core, NEW p \in Processes, Read(p) PROVE Core'
<1>. DEFINE f == First(proc[p].walk)
<1>1. /\ UNCHANGED <<tree, clock, artifacts, watch, counts>>
      /\ proc[p].pc = "read" /\ proc[p].pc \in Building
  BY DEF Read, At, Building
<1>2. /\ proc[p].walk # {} /\ proc[p].stat # 0 /\ (tree[f] # 0 => proc[p].stat <= tree[f])
  BY <1>1, ProcessTyped DEF BuilderOK
<1>3. f \in Files
  BY <1>2, HasFirst, ProcessTyped
<1>4. CASE tree[f] = 0
  BY <1>1, <1>4, FailCore DEF Read
<1>5. ASSUME tree[f] # 0, Record(p, f, StatThenRead(p, f)), lock' = lock PROVE Core'
  <2>1. /\ StatThenRead(p, f) \in [stat : Nat, content : Nat]
        /\ StatThenRead(p, f).stat = proc[p].stat /\ StatThenRead(p, f).content = tree[f]
    BY <1>3, ProcessTyped DEF StatThenRead
  <2>2. tree[f] \in Nat /\ tree[f] <= clock
    BY <1>3, ProcessTyped
  <2>. QED  BY <1>1, <1>2, <1>3, <1>5, <2>1, <2>2, RecordCore
<1>. QED  BY <1>4, <1>5 DEF Read

(***************************************************************************)
(* The three files are replaced.                                           *)
(***************************************************************************)
LEMMA SaveIndexCore ==
  ASSUME Core, NEW p \in Processes, SaveIndex(p) PROVE Core'
<1>. DEFINE r == [proc[p] EXCEPT !.pc = "summary", !.prev = NoRecords]
<1>1. /\ tree' = tree /\ clock' = clock /\ lock' = lock /\ UNCHANGED <<watch, counts>>
      /\ index' = proc[p].held
      /\ summary' = IF summary = Nobody THEN Nobody ELSE [summary EXCEPT !.stamped = FALSE]
      /\ search' = IF search = Nobody THEN Nobody ELSE [search EXCEPT !.newer = FALSE]
      /\ proc[p].pc = "stat"
  BY DEF SaveIndex, At
<1>2. proc' = [proc EXCEPT ![p] = r]
  BY DEF SaveIndex, Core, Typed
<1>3. /\ r \in Process /\ r.pc = "summary" /\ r.held = proc[p].held /\ r.prev = NoRecords
      /\ r.stat = proc[p].stat
  <2>1. "summary" \in Steps
    BY DEF Steps
  <2>. QED  BY <2>1, NothingRecorded, ProcessTyped DEF Process
<1>. HIDE DEF r
<1>4. Typed /\ BuilderOK(p) /\ lock = p /\ Sound(proc[p].held) /\ proc[p].held \in Rows
      /\ proc[p].held # Nobody /\ Sound(NoRecords)
  <2>1. Typed /\ BuilderOK(p) /\ proc[p].held \in Rows
    BY ProcessTyped DEF Core
  <2>2. proc[p].held # Nobody
    BY <2>1, CodeIndexAssumption DEF Rows
  <2>. QED  BY <1>1, <2>1, <2>2, NoRecordsSound DEF BuilderOK, Building
<1>5. /\ summary' \in [files : SUBSET Files, stamped : BOOLEAN] \cup {Nobody}
      /\ search' \in [contents : [Files -> Nat], newer : BOOLEAN] \cup {Nobody}
      /\ summary' # Nobody => ~summary'.stamped
      /\ search' # Nobody => ~search'.newer
      /\ search' # Nobody => search # Nobody /\ search'.contents = search.contents
  BY <1>1, <1>4 DEF Typed
<1>6. Typed'
  BY <1>1, <1>2, <1>3, <1>4, <1>5 DEF Typed, watch, counts
<1>7. \A records : Sound(records) => Sound(records)'
  BY <1>1 DEF Sound
<1>8. ASSUME NEW q \in Processes PROVE BuilderOK(q)'
  <2>1. CASE q = p
    <3>1. proc'[p] = r
      BY <1>2, <1>4 DEF Typed
    <3>2. BuilderOK(p)
      BY <1>4
    <3>. QED  BY <1>1, <1>3, <1>4, <1>7, <2>1, <3>1, <3>2 DEF BuilderOK
  <2>2. CASE q # p
    <3>1. proc'[q] = proc[q] /\ BuilderOK(q) /\ proc[q].pc \notin Building
      BY <1>2, <1>4, <2>2 DEF Core, BuilderOK
    <3>. QED  BY <1>1, <1>7, <3>1 DEF BuilderOK, Building
  <2>. QED  BY <2>1, <2>2
<1>9. FreshMeansSame'
  BY <1>5 DEF FreshMeansSame, SidecarIsFresh
<1>10. search' # Nobody => \A f \in Files : search'.contents[f] <= clock'
  BY <1>1, <1>5 DEF Core
<1>11. Sound(index)'
  <2>1. Sound(proc[p].held)
    BY <1>4
  <2>. QED  BY <1>1, <2>1 DEF Sound
<1>. QED  BY <1>1, <1>6, <1>8, <1>9, <1>10, <1>11 DEF Core

(* A step of the process that has the lock, and has saved the index.       *)
LEMMA SavedCore ==
  ASSUME Core, NEW p \in Processes, proc[p].pc \in {"summary", "search"},
         NEW step \in {"search", "loaded"}, Goto(p, step),
         tree' = tree, clock' = clock, index' = index, UNCHANGED <<watch, counts>>,
         lock' \in {p, Nobody}, step = "search" => lock' = p,
         summary' \in [files : SUBSET Files, stamped : BOOLEAN] \cup {Nobody},
         search' \in [contents : [Files -> Nat], newer : BOOLEAN] \cup {Nobody},
         FreshMeansSame',
         search' # Nobody => \A f \in Files : search'.contents[f] <= clock
  PROVE  Core'
<1>. DEFINE r == [proc[p] EXCEPT !.pc = step]
<1>1. Typed /\ BuilderOK(p) /\ lock = p /\ index = proc[p].held
  BY DEF Core, BuilderOK, Building
<1>2. proc' = [proc EXCEPT ![p] = r]
  BY <1>1 DEF Goto, Typed
<1>3. /\ r \in Process /\ r.pc = step /\ r.held = proc[p].held /\ r.prev = proc[p].prev
      /\ r.stat = proc[p].stat
  <2>1. step \in Steps
    BY DEF Steps
  <2>. QED  BY <2>1, ProcessTyped DEF Process
<1>. HIDE DEF r
<1>4. Typed'
  BY <1>1, <1>2, <1>3 DEF Typed, watch, counts
<1>5. \A records : Sound(records) => Sound(records)'
  BY DEF Sound
<1>6. ASSUME NEW q \in Processes PROVE BuilderOK(q)'
  <2>1. CASE q = p
    <3>1. proc'[p] = r /\ BuilderOK(p)
      BY <1>1, <1>2 DEF Typed
    <3>2. step \in Building => lock' = p
      BY DEF Building
    <3>. QED  BY <1>1, <1>3, <1>5, <2>1, <3>1, <3>2 DEF BuilderOK
  <2>2. CASE q # p
    <3>1. proc'[q] = proc[q] /\ BuilderOK(q) /\ proc[q].pc \notin Building
      BY <1>1, <1>2, <2>2 DEF Core, BuilderOK, Typed
    <3>. QED  BY <1>5, <3>1 DEF BuilderOK, Building
  <2>. QED  BY <2>1, <2>2
<1>7. index' # Nobody => Sound(index)'
  <2>1. index # Nobody => Sound(index)
    BY DEF Core
  <2>. QED  BY <2>1 DEF Sound
<1>. QED  BY <1>4, <1>6, <1>7 DEF Core

LEMMA SaveSummaryCore ==
  ASSUME Core, NEW p \in Processes, SaveSummary(p) PROVE Core'
<1>1. /\ tree' = tree /\ clock' = clock /\ lock' = lock /\ UNCHANGED <<watch, counts>>
      /\ index' = index /\ search' = search /\ Goto(p, "search") /\ proc[p].pc = "summary"
      /\ summary' = [files |-> Present(Contents(proc[p].held)), stamped |-> TRUE]
  BY DEF SaveSummary, At
<1>2. Typed /\ lock = p /\ index = proc[p].held
  BY <1>1 DEF Core, BuilderOK, Building
<1>3. Present(Contents(proc[p].held)) \subseteq Files
  BY DEF Present
<1>4. summary' \in [files : SUBSET Files, stamped : BOOLEAN]
      /\ summary'.files = Present(Contents(index))
  BY <1>1, <1>2, <1>3
<1>5. FreshMeansSame'
  BY <1>1, <1>4 DEF Core, FreshMeansSame, SidecarIsFresh
<1>. QED  BY <1>1, <1>2, <1>4, <1>5, SavedCore DEF Core, Typed

LEMMA ContentsTyped ==
  ASSUME NEW r \in Rows
  PROVE  Contents(r) \in [Files -> Nat] /\ \A f \in Files : Contents(r)[f] = r[f].content
BY DEF Rows, Contents

LEMMA SaveSearchCore ==
  ASSUME Core, NEW p \in Processes, SaveSearch(p) PROVE Core'
<1>1. /\ tree' = tree /\ clock' = clock /\ lock' = Nobody /\ UNCHANGED <<watch, counts>>
      /\ index' = index /\ summary' = summary /\ Goto(p, "loaded") /\ proc[p].pc = "search"
      /\ search' = [contents |-> Contents(proc[p].held), newer |-> TRUE]
  BY DEF SaveSearch, At
<1>2. Typed /\ lock = p /\ index = proc[p].held /\ proc[p].held \in Rows /\ Sound(proc[p].held)
  BY <1>1, ProcessTyped DEF Core, BuilderOK, Building
<1>3. search' \in [contents : [Files -> Nat], newer : BOOLEAN] /\ search'.contents = Contents(index)
  BY <1>1, <1>2, ContentsTyped
<1>4. \A f \in Files : search'.contents[f] <= clock
  BY <1>2, <1>3, ContentsTyped DEF Sound
<1>5. FreshMeansSame'
  BY <1>1, <1>3 DEF Core, FreshMeansSame, SidecarIsFresh
<1>. QED  BY <1>1, <1>2, <1>3, <1>4, <1>5, SavedCore DEF Core, Typed

LEMMA SkipSearchCore ==
  ASSUME Core, NEW p \in Processes, SkipSearch(p) PROVE Core'
<1>1. /\ tree' = tree /\ clock' = clock /\ lock' = Nobody /\ UNCHANGED <<watch, counts>>
      /\ index' = index /\ summary' = summary /\ search' = search
      /\ Goto(p, "loaded") /\ proc[p].pc = "search"
  BY DEF SkipSearch, At, artifacts
<1>2. FreshMeansSame'
  BY <1>1 DEF Core, FreshMeansSame, SidecarIsFresh
<1>. QED  BY <1>1, <1>2, SavedCore DEF Core, Typed

(***************************************************************************)
(* Answers, ends and the watcher's own steps.                              *)
(***************************************************************************)
LEMMA AnswerCore ==
  ASSUME Core, NEW p \in Processes, NEW contents \in [Files -> Nat], Answer(p, contents),
         UNCHANGED <<tree, clock, artifacts, lock, watch, counts>>
  PROVE  Core'
<1>. DEFINE r == [proc[p] EXCEPT !.pc = "answered", !.held = NoRecords, !.answer = contents]
<1>1. proc' = [proc EXCEPT ![p] = r]
  BY DEF Answer, Core, Typed
<1>2. /\ r \in Process /\ r.pc = "answered" /\ r.held = NoRecords /\ r.prev = proc[p].prev
      /\ r.stat = proc[p].stat
  <2>1. "answered" \in Steps
    BY DEF Steps
  <2>. QED  BY <2>1, NothingRecorded, ProcessTyped DEF Process
<1>. HIDE DEF r
<1>3. Sound(r.prev) /\ Sound(r.held) /\ r.stat <= clock /\ r.pc \notin Building
  BY <1>2, NoRecordsSound, ProcessTyped DEF Core, BuilderOK, Building
<1>. QED  BY <1>1, <1>2, <1>3, ProcessCore DEF counts, watch, Core, Typed

LEMMA FindCore ==
  ASSUME Core, NEW p \in Processes, Find(p) \/ Report(p) PROVE Core'
<1>1. Contents(proc[p].held) \in [Files -> Nat]
  BY ProcessTyped, ContentsTyped
<1>2. SidecarIsFresh => search.contents \in [Files -> Nat]
  BY DEF SidecarIsFresh, Core, Typed
<1>. QED  BY <1>1, <1>2, AnswerCore DEF Find, Report

LEMMA FindNodeCore ==
  ASSUME Core, NEW p \in Processes, FindNode(p) PROVE Core'
<1>1. PICK rows \in ArrowNodes :
        proc' = [proc EXCEPT ![p].pc = "answered", ![p].kind = "arrow-nodes",
                             ![p].held = NoRecords, ![p].answer = rows]
  BY DEF FindNode
<1>. DEFINE r == [proc[p] EXCEPT !.pc = "answered", !.kind = "arrow-nodes", !.held = NoRecords,
                                 !.answer = rows]
<1>2. proc' = [proc EXCEPT ![p] = r]
  BY <1>1 DEF Core, Typed
<1>3. /\ r \in Process /\ r.pc = "answered" /\ r.held = NoRecords /\ r.prev = proc[p].prev
      /\ r.stat = proc[p].stat
  <2>1. "answered" \in Steps /\ rows \in [Files -> Nat]
    BY CodeIndexAssumption DEF Steps
  <2>. QED  BY <2>1, NothingRecorded, ProcessTyped DEF Process
<1>. HIDE DEF r
<1>4. Sound(r.prev) /\ Sound(r.held) /\ r.stat <= clock /\ r.pc \notin Building
  BY <1>3, NoRecordsSound, ProcessTyped DEF Core, BuilderOK, Building
<1>5. UNCHANGED <<tree, clock, artifacts, lock, watch, counts>>
  BY DEF FindNode
<1>. QED  BY <1>2, <1>3, <1>4, <1>5, ProcessCore DEF counts, watch, Core, Typed

LEMMA ReturnCore ==
  ASSUME Core, NEW p \in Processes, Return(p) \/ Reindexed(p) PROVE Core'
BY IdleCore DEF Return, Reindexed, watch, counts, Core, Typed

LEMMA DieCore ==
  ASSUME Core, NEW p \in Processes, Die(p) PROVE Core'
<1>1. deaths' \in 0 .. MaxDeaths
  BY CodeIndexAssumption DEF Die, Core, Typed
<1>. QED  BY <1>1, IdleCore DEF Die, watch, Core, Typed

LEMMA WakeCore ==
  ASSUME Core, NEW w \in Processes, Wake(w) PROVE Core'
<1>1. /\ Goto(w, "debounce") /\ queued' = FALSE /\ UNCHANGED <<tree, clock, artifacts, lock, counts>>
      /\ lapsed' = lapsed /\ woken' = woken
  BY DEF Wake
<1>. DEFINE r == [proc[w] EXCEPT !.pc = "debounce"]
<1>2. proc' = [proc EXCEPT ![w] = r]
  BY <1>1 DEF Goto, Core, Typed
<1>3. /\ r \in Process /\ r.pc = "debounce" /\ r.held = proc[w].held /\ r.prev = proc[w].prev
      /\ r.stat = proc[w].stat
  <2>1. "debounce" \in Steps
    BY DEF Steps
  <2>. QED  BY <2>1, ProcessTyped DEF Process
<1>. HIDE DEF r
<1>4. Sound(r.prev) /\ Sound(r.held) /\ r.stat <= clock /\ r.pc \notin Building
  BY <1>3, ProcessTyped DEF Core, BuilderOK, Building
<1>. QED  BY <1>1, <1>2, <1>3, <1>4, ProcessCore DEF counts, Core, Typed

LEMMA ReindexCore ==
  ASSUME Core, NEW w \in Processes, Reindex(w) PROVE Core'
<1>1. UNCHANGED <<tree, clock, artifacts, lock, watch, counts>>
  BY DEF Reindex
<1>. DEFINE r == [proc[w] EXCEPT !.pc = "lock", !.kind = "watch"]
<1>2. proc' = [proc EXCEPT ![w] = r]
  BY DEF Reindex, Core, Typed
<1>3. /\ r \in Process /\ r.pc = "lock" /\ r.held = proc[w].held /\ r.prev = proc[w].prev
      /\ r.stat = proc[w].stat
  <2>1. "lock" \in Steps
    BY DEF Steps
  <2>. QED  BY <2>1, ProcessTyped DEF Process
<1>. HIDE DEF r
<1>4. Sound(r.prev) /\ Sound(r.held) /\ r.stat <= clock /\ r.pc \notin Building
  BY <1>3, ProcessTyped DEF Core, BuilderOK, Building
<1>. QED  BY <1>1, <1>2, <1>3, <1>4, ProcessCore DEF watch, counts, Core, Typed

(* What the channel has is of no concern to the files.                     *)
LEMMA QuietCore ==
  ASSUME Core, UNCHANGED <<tree, clock, artifacts, lock, proc, calls, deaths>>,
         queued' \in BOOLEAN, lapsed' \in BOOLEAN, woken' \in BOOLEAN
  PROVE  Core'
<1>1. /\ tree' = tree /\ clock' = clock /\ index' = index /\ summary' = summary /\ search' = search
      /\ lock' = lock /\ proc' = proc
  BY DEF artifacts
<1>2. Typed'
  BY <1>1 DEF Core, Typed
<1>3. \A records : Sound(records) => Sound(records)'
  BY <1>1 DEF Sound
<1>4. \A p \in Processes : BuilderOK(p)'
  BY <1>1, <1>3 DEF Core, BuilderOK
<1>5. FreshMeansSame'
  BY <1>1 DEF Core, FreshMeansSame, SidecarIsFresh
<1>. QED  BY <1>1, <1>2, <1>3, <1>4, <1>5 DEF Core

LEMMA DrainCore ==
  ASSUME Core, NEW w \in Processes, Drain(w) PROVE Core'
<1>1. /\ UNCHANGED <<tree, clock, artifacts, lock, proc, calls, deaths>> /\ queued' = FALSE
      /\ lapsed' = lapsed /\ woken' = woken
  BY DEF Drain, counts
<1>. QED  BY <1>1, QuietCore DEF Core, Typed

LEMMA CoreStep == Core /\ [IndexNext]_indexVars => Core'
<1>. SUFFICES ASSUME Core, [IndexNext]_indexVars PROVE Core'
  OBVIOUS
<1>1. ASSUME NEW p \in Processes, Load(p) \/ GiveUp(p) \/ Build(p) PROVE Core'
  BY <1>1, LoadIndexCore, CompareCore, TakeLockCore, GiveUpCore, DiscoverCore, StatCore, ReadCore,
     SaveIndexCore, SaveSummaryCore, SaveSearchCore, SkipSearchCore, FailBuildCore
  DEF Load, Build
<1>2. ASSUME NEW p \in Agents, Index(p) \/ Die(p) PROVE Core'
  BY <1>1, <1>2, CommandCore, FindCore, FindNodeCore, ReturnCore, DieCore DEF Index, Processes
<1>3. ASSUME NEW w \in Watchers, Watch(w) PROVE Core'
  BY <1>3, WakeCore, DrainCore, ReindexCore, ReturnCore DEF Watch, Processes
<1>4. ASSUME NEW f \in Files, Edit(f) \/ Remove(f) PROVE Core'
  BY <1>4, TouchCore DEF Edit, Remove
<1>5. CASE UNCHANGED indexVars
  <2>1. UNCHANGED <<tree, clock, artifacts, lock, proc, calls, deaths, queued, lapsed, woken>>
    BY <1>5 DEF indexVars, watch, counts
  <2>. QED  BY <2>1, QuietCore DEF Core, Typed
<1>. QED  BY <1>1, <1>2, <1>3, <1>4, <1>5 DEF IndexNext, Others, Processes

(* The data of the index is right at every step of every process.          *)
THEOREM Soundness == IndexSpec => []Core
<1>. QED  BY IndexInitially, CoreStep, PTL DEF IndexSpec

(* IndexInv: however files are edited and builds die, an index can be      *)
(* reused by stat alone, and what passes for fresh beside it is of it.     *)
THEOREM IndexIsReusable == IndexSpec => []IndexInv
<1>. QED  BY Soundness, CoreImplies, PTL

-----------------------------------------------------------------------------
(***************************************************************************)
(* What the steps do to the process that takes them.                       *)
(***************************************************************************)
(* No other process is changed.                                            *)
Sole(p) == \A q \in Processes \ {p} : proc'[q] = proc[q]

(* The process goes on with the command it runs.                           *)
Proceeds(p) ==
  /\ Sole(p)
  /\ proc'[p].kind = proc[p].kind /\ proc'[p].begun = proc[p].begun
  /\ proc'[p].began = proc[p].began /\ proc'[p].amid = proc[p].amid

LEMMA GotoEffect ==
  ASSUME Core, NEW p \in Processes, NEW step, Goto(p, step)
  PROVE  /\ Proceeds(p) /\ proc'[p].pc = step
         /\ proc'[p].walk = proc[p].walk /\ proc'[p].held = proc[p].held
         /\ proc'[p].stat = proc[p].stat
<1>1. proc'[p] = [proc[p] EXCEPT !.pc = step] /\ Sole(p)
  BY DEF Goto, Core, Typed, Sole
<1>. QED  BY <1>1, ProcessTyped DEF Proceeds, Process

LEMMA ReconsiderEffect ==
  ASSUME Core, NEW p \in Processes, Reconsider(p)
  PROVE  Proceeds(p) /\ proc'[p].pc = Stale(p)
<1>1. proc'[p] = [proc[p] EXCEPT !.pc = Stale(p), !.walk = {}, !.held = NoRecords] /\ Sole(p)
  BY DEF Reconsider, Core, Typed, Sole
<1>. QED  BY <1>1, ProcessTyped DEF Proceeds, Process

LEMMA IdleEffect ==
  ASSUME Core, NEW p \in Processes, proc' = [proc EXCEPT ![p] = Idle]
  PROVE  Sole(p) /\ proc'[p].pc = "idle"
BY IdleProcess DEF Core, Typed, Sole

LEMMA CompareEffect ==
  ASSUME Core, NEW p \in Processes, NEW f, proc' = [proc EXCEPT ![p].walk = @ \ {f}]
  PROVE  /\ Proceeds(p) /\ proc'[p].pc = proc[p].pc
         /\ proc'[p].walk = proc[p].walk \ {f} /\ proc'[p].held = proc[p].held
<1>1. proc'[p] = [proc[p] EXCEPT !.walk = @ \ {f}] /\ Sole(p)
  BY DEF Core, Typed, Sole
<1>. QED  BY <1>1, ProcessTyped DEF Proceeds, Process

LEMMA LoadEffect ==
  ASSUME Core, NEW p \in Processes, index # Nobody,
         proc' = [proc EXCEPT ![p].pc = "compare", ![p].held = index, ![p].walk = Present(tree)]
  PROVE  /\ Proceeds(p) /\ proc'[p].pc = "compare"
         /\ proc'[p].walk = Present(tree) /\ proc'[p].held = index
<1>. DEFINE r == [proc[p] EXCEPT !.pc = "compare", !.held = index, !.walk = Present(tree)]
<1>1. /\ r.kind = proc[p].kind /\ r.begun = proc[p].begun /\ r.began = proc[p].began
      /\ r.amid = proc[p].amid /\ r.pc = "compare" /\ r.walk = Present(tree) /\ r.held = index
  BY ProcessTyped DEF Process
<1>2. proc'[p] = r /\ Sole(p)
  BY DEF Core, Typed, Sole
<1>. QED  BY <1>1, <1>2 DEF Proceeds

LEMMA DiscoverEffect ==
  ASSUME Core, NEW p \in Processes, Discover(p)
  PROVE  /\ Proceeds(p) /\ proc'[p].pc = "stat"
         /\ proc'[p].walk = Present(tree) /\ proc'[p].held = NoRecords
<1>1. /\ proc'[p] = [proc[p] EXCEPT !.pc = "stat", !.walk = Present(tree), !.held = NoRecords,
                                    !.prev = IF index = Nobody THEN NoRecords ELSE index]
      /\ Sole(p)
  BY DEF Discover, Core, Typed, Sole
<1>. QED  BY <1>1, ProcessTyped DEF Proceeds, Process

LEMMA ReadEffect ==
  ASSUME Core, NEW p \in Processes, NEW stat,
         proc' = [proc EXCEPT ![p].pc = "read", ![p].stat = stat]
  PROVE  /\ Proceeds(p) /\ proc'[p].pc = "read" /\ proc'[p].stat = stat
         /\ proc'[p].walk = proc[p].walk /\ proc'[p].held = proc[p].held
<1>. DEFINE r == [proc[p] EXCEPT !.pc = "read", !.stat = stat]
<1>1. /\ r.kind = proc[p].kind /\ r.begun = proc[p].begun /\ r.began = proc[p].began
      /\ r.amid = proc[p].amid /\ r.pc = "read" /\ r.stat = stat /\ r.walk = proc[p].walk /\ r.held = proc[p].held
  BY ProcessTyped DEF Process
<1>2. proc'[p] = r /\ Sole(p)
  BY DEF Core, Typed, Sole
<1>. QED  BY <1>1, <1>2 DEF Proceeds

LEMMA RecordEffect ==
  ASSUME Core, NEW p \in Processes, NEW f \in Files, NEW record, Record(p, f, record)
  PROVE  /\ Proceeds(p) /\ proc'[p].pc = "stat" /\ proc'[p].walk = proc[p].walk \ {f}
         /\ \A g \in Files : proc'[p].held[g] = IF g = f THEN record ELSE proc[p].held[g]
<1>1. /\ proc'[p] = [proc[p] EXCEPT !.pc = "stat", !.walk = @ \ {f}, !.stat = 0,
                                    !.held = [@ EXCEPT ![f] = record]]
      /\ Sole(p)
  BY DEF Record, Core, Typed, Sole
<1>2. proc'[p].held = [proc[p].held EXCEPT ![f] = record]
  BY <1>1, ProcessTyped DEF Process
<1>3. \A g \in Files : proc'[p].held[g] = IF g = f THEN record ELSE proc[p].held[g]
  BY <1>2, ProcessTyped DEF Rows
<1>. QED  BY <1>1, <1>3, ProcessTyped DEF Proceeds, Process

LEMMA SaveIndexEffect ==
  ASSUME Core, NEW p \in Processes, SaveIndex(p)
  PROVE  /\ Proceeds(p) /\ proc'[p].pc = "summary" /\ proc'[p].held = proc[p].held
         /\ index' = proc[p].held /\ index' # Nobody
<1>1. /\ proc'[p] = [proc[p] EXCEPT !.pc = "summary", !.prev = NoRecords]
      /\ Sole(p) /\ index' = proc[p].held
  BY DEF SaveIndex, Core, Typed, Sole
<1>2. proc[p].held # Nobody
  BY ProcessTyped, CodeIndexAssumption DEF Rows
<1>. QED  BY <1>1, <1>2, ProcessTyped DEF Proceeds, Process

LEMMA FindNodeEffect ==
  ASSUME Core, NEW p \in Processes, FindNode(p)
  PROVE  /\ Sole(p) /\ ~At(p, "idle")
         /\ proc'[p].pc = "answered" /\ proc'[p].kind = "arrow-nodes"
         /\ proc'[p].begun = proc[p].begun /\ proc'[p].began = proc[p].began
         /\ proc'[p].amid = proc[p].amid
<1>1. PICK rows \in ArrowNodes :
        proc' = [proc EXCEPT ![p].pc = "answered", ![p].kind = "arrow-nodes",
                             ![p].held = NoRecords, ![p].answer = rows]
  BY DEF FindNode
<1>. DEFINE r == [proc[p] EXCEPT !.pc = "answered", !.kind = "arrow-nodes", !.held = NoRecords,
                                 !.answer = rows]
<1>2. /\ r.pc = "answered" /\ r.kind = "arrow-nodes" /\ r.begun = proc[p].begun
      /\ r.began = proc[p].began /\ r.amid = proc[p].amid
  BY ProcessTyped DEF Process
<1>3. proc'[p] = r /\ Sole(p)
  BY <1>1 DEF Core, Typed, Sole
<1>. HIDE DEF r
<1>. QED  BY <1>2, <1>3 DEF FindNode, At

LEMMA AnswerEffect ==
  ASSUME Core, NEW p \in Processes, NEW contents, Answer(p, contents)
  PROVE  Proceeds(p) /\ proc'[p].pc = "answered" /\ proc'[p].answer = contents
<1>1. /\ proc'[p] = [proc[p] EXCEPT !.pc = "answered", !.held = NoRecords, !.answer = contents]
      /\ Sole(p)
  BY DEF Answer, Core, Typed, Sole
<1>. QED  BY <1>1, ProcessTyped DEF Proceeds, Process

-----------------------------------------------------------------------------
(***************************************************************************)
(* The watcher.                                                            *)
(***************************************************************************)
LEMMA WatcherAlone ==
  ASSUME NEW p \in Processes
  PROVE  /\ p \in Agents => p \notin Watchers
         /\ p \in Watchers => \A w \in Watchers : w = p
         /\ p \in Agents \/ p \in Watchers
BY CodeIndexAssumption DEF Processes

(* A step that leaves the files and the channel alone.                     *)
LEMMA ProcessWatching ==
  ASSUME Core, Watching, NEW p \in Processes, Sole(p),
         tree' = tree, index' = index, queued' = queued, woken' = woken,
         p \in Agents => lapsed' = lapsed,
         p \in Watchers =>
           /\ proc'[p].pc \in {"idle", "debounce", "lock", "loaded"} \cup Building
           /\ proc'[p].pc \notin {"idle", "debounce"} => proc'[p].kind = "watch"
           /\ \/ proc'[p].pc \notin {"idle", "summary", "search", "loaded"}
              \/ proc[p].pc \in {"summary", "search", "loaded"}
              \/ proc'[p].pc = "idle" /\ (lapsed' \/ queued),
         ~queued /\ (p \in Watchers \/ Settled) => PartlyCurrent(p)'
  PROVE  Watching'
<1>1. Settled' => Settled
  <2>1. CASE p \in Agents
    BY <2>1, WatcherAlone DEF Settled, Sole, At, Processes
  <2>2. CASE p \in Watchers
    BY <2>2, WatcherAlone DEF Settled, At
  <2>. QED  BY <2>1, <2>2, WatcherAlone
<1>2. ASSUME NEW q \in Processes \ {p}, PartlyCurrent(q) PROVE PartlyCurrent(q)'
  BY <1>2 DEF Sole, PartlyCurrent
<1>3. ASSUME NEW q \in Processes, ~queued', q \in Watchers \/ Settled' PROVE PartlyCurrent(q)'
  BY <1>1, <1>2, <1>3 DEF Watching
<1>4. Settled' => index' # Nobody /\ \A f \in Files : index'[f].stat = tree'[f]
  BY <1>1 DEF Watching
<1>5. ASSUME NEW w \in Watchers
      PROVE  /\ proc'[w].pc \in {"idle", "debounce", "lock", "loaded"} \cup Building
             /\ proc'[w].pc \notin {"idle", "debounce"} => proc'[w].kind = "watch"
  BY DEF Watching, Sole, Processes
<1>. QED  BY <1>3, <1>4, <1>5 DEF Watching

(* An agent's step that does not look at a file for a build.               *)
LEMMA AgentWatching ==
  ASSUME Core, Watching, NEW p \in Agents, Sole(p),
         tree' = tree, index' = index, queued' = queued, woken' = woken, lapsed' = lapsed,
         proc'[p].pc \notin {"stat", "read"}
  PROVE  Watching'
<1>1. p \in Processes /\ p \notin Watchers
  BY WatcherAlone DEF Processes
<1>. QED  BY <1>1, ProcessWatching DEF PartlyCurrent

LEMMA TouchWatching ==
  ASSUME Core, Watching, NEW f \in Files, NEW version, Touch(f, version) PROVE Watching'
<1>1. proc' = proc /\ queued' = (Watchers # {}) /\ woken' = (Watchers # {})
  BY DEF Touch
<1>2. ~Settled' /\ (Watchers # {} => queued')
  BY <1>1 DEF Settled
<1>. QED  BY <1>1, <1>2 DEF Watching

LEMMA AgentStepsWatching ==
  ASSUME Core, Watching, NEW p \in Agents,
         \/ \E kind \in Kinds : Command(p, kind)
         \/ Find(p) \/ FindNode(p) \/ Report(p) \/ Return(p) \/ Die(p)
  PROVE  Watching'
<1>1. p \in Processes
  BY DEF Processes
<1>2. ASSUME NEW kind \in Kinds, Command(p, kind) PROVE Watching'
  <2>1. /\ tree' = tree /\ index' = index /\ queued' = queued /\ woken' = woken /\ lapsed' = lapsed
        /\ Sole(p) /\ proc'[p] = [Idle EXCEPT !.pc = IF kind = "index" THEN "lock" ELSE "load",
                    !.kind = kind, !.begun = tree, !.began = clock, !.amid = (lock # Nobody)]
    BY <1>1, <1>2 DEF Command, Sole, artifacts, watch, Core, Typed
  <2>2. proc'[p].pc \in {"lock", "load"}
    BY <2>1, IdleProcess DEF Process
  <2>. QED  BY <2>1, <2>2, AgentWatching
<1>3. ASSUME Find(p) \/ Report(p) PROVE Watching'
  <2>1. /\ tree' = tree /\ index' = index /\ queued' = queued /\ woken' = woken /\ lapsed' = lapsed
        /\ \E contents : Answer(p, contents)
    BY <1>3 DEF Find, Report, artifacts, watch
  <2>. QED  BY <1>1, <2>1, AnswerEffect, AgentWatching DEF Proceeds
<1>5. ASSUME FindNode(p) PROVE Watching'
  <2>1. tree' = tree /\ index' = index /\ queued' = queued /\ woken' = woken /\ lapsed' = lapsed
    BY <1>5 DEF FindNode, artifacts, watch
  <2>. QED  BY <1>1, <1>5, <2>1, FindNodeEffect, AgentWatching
<1>4. ASSUME Return(p) \/ Die(p) PROVE Watching'
  <2>1. /\ tree' = tree /\ index' = index /\ queued' = queued /\ woken' = woken /\ lapsed' = lapsed
        /\ proc' = [proc EXCEPT ![p] = Idle]
    BY <1>4 DEF Return, Die, artifacts, watch
  <2>. QED  BY <1>1, <2>1, IdleEffect, AgentWatching
<1>. QED  BY <1>2, <1>3, <1>4, <1>5

LEMMA LoadWatching ==
  ASSUME Core, Watching, NEW p \in Processes, LoadIndex(p) \/ Compare(p) PROVE Watching'
<1>1. p \in Agents
  BY WatcherAlone DEF LoadIndex, Compare, At, Watching, Building
<1>2. tree' = tree /\ index' = index /\ queued' = queued /\ woken' = woken /\ lapsed' = lapsed
  BY DEF LoadIndex, Compare, artifacts, watch
<1>3. ASSUME NEW step \in {"discover", "lock", "loaded"}, Goto(p, step) PROVE Watching'
  BY <1>1, <1>2, <1>3, GotoEffect, AgentWatching DEF Proceeds
<1>4. ASSUME LoadIndex(p) PROVE Watching'
  BY <1>1, <1>2, <1>3, <1>4, LoadEffect, AgentWatching DEF LoadIndex, Stale, Proceeds
<1>5. ASSUME Compare(p) PROVE Watching'
  <2>1. ASSUME Reconsider(p) PROVE Watching'
    BY <1>1, <1>2, <2>1, ReconsiderEffect, AgentWatching DEF Stale, Proceeds
  <2>. QED  BY <1>1, <1>2, <1>3, <1>5, <2>1, CompareEffect, AgentWatching DEF Compare, Proceeds, At
<1>. QED  BY <1>4, <1>5

LEMMA LockWatching ==
  ASSUME Core, Watching, NEW p \in Processes, TakeLock(p) \/ GiveUp(p) PROVE Watching'
<1>1. /\ tree' = tree /\ index' = index /\ queued' = queued /\ woken' = woken
      /\ proc[p].pc = "lock"
  BY DEF TakeLock, GiveUp, artifacts, watch, At
<1>2. ASSUME TakeLock(p) PROVE Watching'
  <2>. DEFINE step == IF proc[p].kind \in {"index", "watch"} THEN "discover" ELSE "load"
  <2>1. lapsed' = lapsed /\ Goto(p, step)
    BY <1>2 DEF TakeLock, watch
  <2>2. /\ Sole(p) /\ proc'[p].kind = proc[p].kind /\ proc'[p].pc = step
        /\ p \in Watchers => proc[p].kind = "watch"
    BY <1>1, <2>1, GotoEffect DEF Proceeds, Watching
  <2>3. step \in {"discover", "load"} /\ (p \in Watchers => step = "discover")
    BY <2>2
  <2>. HIDE DEF step
  <2>4. PartlyCurrent(p)'
    BY <2>2, <2>3 DEF PartlyCurrent
  <2>. QED  BY <1>1, <2>1, <2>2, <2>3, <2>4, ProcessWatching DEF Building
<1>3. ASSUME GiveUp(p) PROVE Watching'
  <2>1. lapsed' = (lapsed \/ p \in Watchers) /\ proc' = [proc EXCEPT ![p] = Idle]
    BY <1>3 DEF GiveUp
  <2>2. Sole(p) /\ proc'[p].pc = "idle" /\ lapsed \in BOOLEAN
    BY <2>1, IdleEffect DEF Core, Typed
  <2>3. PartlyCurrent(p)'
    BY <2>2 DEF PartlyCurrent
  <2>4. (p \in Agents => lapsed' = lapsed) /\ (p \in Watchers => lapsed')
    BY <2>1, <2>2, WatcherAlone
  <2>. QED  BY <1>1, <2>2, <2>3, <2>4, ProcessWatching
<1>. QED  BY <1>2, <1>3

(* A build's step that leaves the watcher's word as it is.                 *)
LEMMA BuildWatching ==
  ASSUME Core, Watching, NEW p \in Processes, proc[p].pc \in Building, Proceeds(p),
         tree' = tree, index' = index, UNCHANGED watch,
         proc'[p].pc \in Building \cup {"loaded"},
         proc'[p].pc \in {"summary", "search", "loaded"} => proc[p].pc \in {"summary", "search"},
         ~queued /\ (p \in Watchers \/ Settled) => PartlyCurrent(p)'
  PROVE  Watching'
<1>1. /\ queued' = queued /\ woken' = woken /\ lapsed' = lapsed /\ Sole(p)
      /\ proc'[p].kind = proc[p].kind
      /\ p \in Watchers => proc[p].kind = "watch"
  BY DEF watch, Proceeds, Watching, Building
<1>2. proc'[p].pc # "idle"
  BY DEF Building
<1>. QED  BY <1>1, <1>2, ProcessWatching

(* A build that fails leaves the watcher with nothing that would wake it.  *)
LEMMA FailBuildWatching ==
  ASSUME Core, Watching, NEW p \in Processes, FailBuild(p) PROVE Watching'
<1>1. /\ tree' = tree /\ index' = index /\ queued' = queued /\ woken' = woken
      /\ lapsed' = (lapsed \/ p \in Watchers) /\ proc' = [proc EXCEPT ![p] = Idle]
  BY DEF FailBuild, Fail, artifacts
<1>2. Sole(p) /\ proc'[p].pc = "idle" /\ lapsed \in BOOLEAN
  BY <1>1, IdleEffect DEF Core, Typed
<1>3. PartlyCurrent(p)'
  BY <1>2 DEF PartlyCurrent
<1>4. (p \in Agents => lapsed' = lapsed) /\ (p \in Watchers => lapsed')
  BY <1>1, <1>2, WatcherAlone
<1>. QED  BY <1>1, <1>2, <1>3, <1>4, ProcessWatching

(* No build that must keep up finds that one of its files is gone.         *)
LEMMA FailWatching ==
  ASSUME Core, Watching, NEW p \in Processes, proc[p].pc \in {"stat", "read"}, Fail(p),
         NEW f \in proc[p].walk, tree[f] = 0,
         tree' = tree, index' = index, UNCHANGED watch
  PROVE  Watching'
<1>1. queued' = queued /\ woken' = woken /\ lapsed' = lapsed /\ Sole(p) /\ proc'[p].pc = "idle"
  BY IdleEffect DEF watch, Fail
<1>2. PartlyCurrent(p)'
  BY <1>1 DEF PartlyCurrent
<1>3. p \in Watchers => queued
  BY DEF Watching, PartlyCurrent, Core, Typed
<1>. QED  BY <1>1, <1>2, <1>3, ProcessWatching

LEMMA RecordWatching ==
  ASSUME Core, Watching, NEW p \in Processes, proc[p].pc \in {"stat", "read"},
         NEW f \in Files, NEW record, Record(p, f, record),
         ~queued /\ (p \in Watchers \/ Settled) => record.stat = tree[f],
         tree' = tree, index' = index, UNCHANGED watch
  PROVE  Watching'
<1>1. /\ Proceeds(p) /\ proc'[p].pc = "stat" /\ proc'[p].walk = proc[p].walk \ {f}
      /\ \A g \in Files : proc'[p].held[g] = IF g = f THEN record ELSE proc[p].held[g]
  BY RecordEffect
<1>2. ASSUME ~queued, p \in Watchers \/ Settled PROVE PartlyCurrent(p)'
  <2>1. PartlyCurrent(p) /\ record.stat = tree[f]
    BY <1>2 DEF Watching
  <2>. QED  BY <1>1, <2>1 DEF PartlyCurrent
<1>. QED  BY <1>1, <1>2, BuildWatching DEF Building

LEMMA DiscoverWatching ==
  ASSUME Core, Watching, NEW p \in Processes, Discover(p) PROVE Watching'
<1>1. tree' = tree /\ index' = index /\ UNCHANGED watch /\ proc[p].pc = "discover"
  BY DEF Discover, artifacts, At
<1>2. /\ Proceeds(p) /\ proc'[p].pc = "stat" /\ proc'[p].walk = Present(tree)
      /\ proc'[p].held = NoRecords
  BY DiscoverEffect
<1>3. PartlyCurrent(p)'
  BY <1>1, <1>2, NothingRecorded DEF PartlyCurrent, Present
<1>. QED  BY <1>1, <1>2, <1>3, BuildWatching DEF Building

LEMMA StatWatching ==
  ASSUME Core, Watching, NEW p \in Processes, Stat(p) PROVE Watching'
<1>. DEFINE f == First(proc[p].walk)
<1>1. /\ tree' = tree /\ index' = index /\ UNCHANGED watch /\ proc[p].pc = "stat"
      /\ proc[p].walk # {}
  BY DEF Stat, artifacts, At
<1>2. f \in Files /\ f \in proc[p].walk
  BY <1>1, HasFirst, ProcessTyped
<1>3. CASE tree[f] = 0
  BY <1>1, <1>2, <1>3, FailWatching DEF Stat
<1>4. ASSUME Reusable(p, f), Record(p, f, proc[p].prev[f]) PROVE Watching'
  BY <1>1, <1>2, <1>4, RecordWatching DEF Reusable
<1>5. ASSUME proc' = [proc EXCEPT ![p].pc = "read", ![p].stat = tree[f]] PROVE Watching'
  <2>1. /\ Proceeds(p) /\ proc'[p].pc = "read" /\ proc'[p].stat = tree[f]
        /\ proc'[p].walk = proc[p].walk /\ proc'[p].held = proc[p].held
    BY <1>5, ReadEffect
  <2>2. ASSUME ~queued, p \in Watchers \/ Settled PROVE PartlyCurrent(p)'
    <3>1. PartlyCurrent(p)
      BY <2>2 DEF Watching
    <3>. QED  BY <1>1, <2>1, <3>1 DEF PartlyCurrent
  <2>. QED  BY <1>1, <2>1, <2>2, BuildWatching DEF Building
<1>. QED  BY <1>3, <1>4, <1>5 DEF Stat

LEMMA ReadWatching ==
  ASSUME Core, Watching, NEW p \in Processes, Read(p) PROVE Watching'
<1>. DEFINE f == First(proc[p].walk)
<1>1. tree' = tree /\ index' = index /\ UNCHANGED watch /\ proc[p].pc = "read"
  BY DEF Read, artifacts, At
<1>2. f \in Files /\ f \in proc[p].walk
  BY <1>1, HasFirst, ProcessTyped DEF BuilderOK
<1>3. CASE tree[f] = 0
  BY <1>1, <1>2, <1>3, FailWatching DEF Read
<1>4. ASSUME Record(p, f, StatThenRead(p, f)) PROVE Watching'
  <2>1. ~queued /\ (p \in Watchers \/ Settled) => proc[p].stat = tree[f]
    BY <1>1 DEF Watching, PartlyCurrent
  <2>2. StatThenRead(p, f).stat = proc[p].stat
    BY DEF StatThenRead
  <2>. QED  BY <1>1, <1>2, <1>4, <2>1, <2>2, RecordWatching
<1>. QED  BY <1>3, <1>4 DEF Read

(* The index that is saved is the tree's, if the build had to keep up.     *)
LEMMA SaveIndexWatching ==
  ASSUME Core, Watching, NEW p \in Processes, SaveIndex(p) PROVE Watching'
<1>1. /\ tree' = tree /\ queued' = queued /\ woken' = woken /\ lapsed' = lapsed
      /\ proc[p].pc = "stat" /\ proc[p].walk = {}
  BY DEF SaveIndex, watch, At
<1>2. /\ Sole(p) /\ proc'[p].kind = proc[p].kind /\ proc'[p].pc = "summary"
      /\ index' = proc[p].held /\ index' # Nobody
  BY SaveIndexEffect DEF Proceeds
<1>3. ASSUME NEW q \in Processes PROVE PartlyCurrent(q)'
  <2>1. CASE q = p
    BY <1>2, <2>1 DEF PartlyCurrent
  <2>2. CASE q # p
    <3>1. BuilderOK(p) /\ BuilderOK(q)
      BY DEF Core
    <3>2. proc'[q] = proc[q] /\ proc[q].pc \notin Building
      BY <1>1, <1>2, <2>2, <3>1 DEF Sole, BuilderOK, Building
    <3>. QED  BY <3>2 DEF PartlyCurrent, Building
  <2>. QED  BY <2>1, <2>2
<1>4. ASSUME Settled' PROVE \A f \in Files : index'[f].stat = tree'[f]
  <2>1. ~queued /\ (p \in Watchers \/ Settled)
    BY <1>1, <1>2, <1>4, WatcherAlone DEF Settled, Sole, At, Processes
  <2>2. PartlyCurrent(p)
    BY <2>1 DEF Watching
  <2>. QED  BY <1>1, <1>2, <2>2 DEF PartlyCurrent
<1>5. ASSUME NEW w \in Watchers
      PROVE  /\ proc'[w].pc \in {"idle", "debounce", "lock", "loaded"} \cup Building
             /\ proc'[w].pc \notin {"idle", "debounce"} => proc'[w].kind = "watch"
  BY <1>1, <1>2 DEF Watching, Sole, Processes, Building
<1>. QED  BY <1>2, <1>3, <1>4, <1>5 DEF Watching

LEMMA SavedWatching ==
  ASSUME Core, Watching, NEW p \in Processes, SaveSummary(p) \/ SaveSearch(p) \/ SkipSearch(p)
  PROVE  Watching'
<1>1. /\ tree' = tree /\ index' = index /\ UNCHANGED watch /\ proc[p].pc \in {"summary", "search"}
      /\ \E step \in {"search", "loaded"} : Goto(p, step)
  BY DEF SaveSummary, SaveSearch, SkipSearch, artifacts, At
<1>2. Proceeds(p) /\ proc'[p].pc \in {"search", "loaded"}
  BY <1>1, GotoEffect
<1>3. PartlyCurrent(p)'
  BY <1>2 DEF PartlyCurrent
<1>. QED  BY <1>1, <1>2, <1>3, BuildWatching DEF Building

(***************************************************************************)
(* The channel is emptied before the walk starts, never after it.          *)
(***************************************************************************)
LEMMA AwakeWatching ==
  ASSUME Core, Watching, NEW w \in Watchers, Wake(w) \/ Drain(w) PROVE Watching'
<1>1. w \in Processes /\ \A v \in Watchers : v = w
  BY WatcherAlone DEF Processes
<1>2. proc'[w].pc = "debounce" /\ index' = index /\ tree' = tree /\ Sole(w)
  <2>1. CASE Wake(w)
    BY <1>1, <2>1, GotoEffect DEF Wake, artifacts, Proceeds
  <2>2. CASE Drain(w)
    BY <2>2 DEF Drain, artifacts, At, Sole
  <2>. QED  BY <2>1, <2>2
<1>3. ~Settled'
  BY <1>2 DEF Settled, At
<1>4. \A q \in Watchers : PartlyCurrent(q)'
  BY <1>1, <1>2 DEF PartlyCurrent
<1>. QED  BY <1>1, <1>2, <1>3, <1>4 DEF Watching

LEMMA ReindexWatching ==
  ASSUME Core, Watching, NEW w \in Watchers, Reindex(w) \/ Reindexed(w) PROVE Watching'
<1>1. w \in Processes /\ w \notin Agents /\ Typed
  BY WatcherAlone DEF Processes, Core
<1>2. tree' = tree /\ index' = index /\ queued' = queued /\ woken' = woken
  BY DEF Reindex, Reindexed, artifacts, watch
<1>3. ASSUME Reindex(w) PROVE Watching'
  <2>1. proc'[w] = [proc[w] EXCEPT !.pc = "lock", !.kind = "watch"] /\ Sole(w)
    BY <1>1, <1>3 DEF Reindex, Sole, Typed
  <2>2. proc'[w].pc = "lock" /\ proc'[w].kind = "watch"
    BY <1>1, <2>1, ProcessTyped DEF Process
  <2>3. PartlyCurrent(w)'
    BY <2>2 DEF PartlyCurrent
  <2>. QED  BY <1>1, <1>2, <2>1, <2>2, <2>3, ProcessWatching
<1>4. ASSUME Reindexed(w) PROVE Watching'
  <2>1. proc[w].pc = "loaded" /\ proc' = [proc EXCEPT ![w] = Idle]
    BY <1>4 DEF Reindexed, At
  <2>2. Sole(w) /\ proc'[w].pc = "idle"
    BY <1>1, <2>1, IdleEffect
  <2>3. PartlyCurrent(w)'
    BY <2>2 DEF PartlyCurrent
  <2>. QED  BY <1>1, <1>2, <2>1, <2>2, <2>3, ProcessWatching
<1>. QED  BY <1>3, <1>4

LEMMA WatchingStep == Core /\ Watching /\ [IndexNext]_indexVars => Watching'
<1>. SUFFICES ASSUME Core, Watching, [IndexNext]_indexVars PROVE Watching'
  OBVIOUS
<1>1. ASSUME NEW p \in Processes, Load(p) \/ GiveUp(p) \/ Build(p) PROVE Watching'
  BY <1>1, LoadWatching, LockWatching, DiscoverWatching, StatWatching, ReadWatching,
     SaveIndexWatching, SavedWatching, FailBuildWatching DEF Load, Build
<1>2. ASSUME NEW p \in Agents, Index(p) \/ Die(p) PROVE Watching'
  BY <1>1, <1>2, AgentStepsWatching DEF Index, Processes
<1>3. ASSUME NEW w \in Watchers, Watch(w) PROVE Watching'
  BY <1>3, AwakeWatching, ReindexWatching DEF Watch
<1>4. ASSUME NEW f \in Files, Edit(f) \/ Remove(f) PROVE Watching'
  BY <1>4, TouchWatching DEF Edit, Remove
<1>5. CASE UNCHANGED indexVars
  BY <1>5 DEF indexVars, watch, artifacts, Watching, Settled, PartlyCurrent, At
<1>. QED  BY <1>1, <1>2, <1>3, <1>4, <1>5 DEF IndexNext, Others, Processes

(* WatcherCatchesUp: whatever is edited while the watcher waits, debounces *)
(* or reindexes, it does not rest before the index is the tree's, or its   *)
(* last reindex got no lock or failed otherwise than by a vanished file.   *)
THEOREM WatcherForgetsNothing == IndexSpec => []WatcherCatchesUp
<1>1. IndexInit => Watching
  BY IdleProcess DEF IndexInit, Watching, Settled, PartlyCurrent, Processes
<1>2. Watching => WatcherCatchesUp
  <2>1. ASSUME Watching, NEW w \in Watchers, At(w, "idle"), woken, ~queued, ~lapsed PROVE Settled
    BY <2>1, WatcherAlone DEF Settled, Processes
  <2>. QED  BY <2>1 DEF WatcherCatchesUp, Watching
<1>. QED  BY <1>1, <1>2, WatchingStep, Soundness, PTL DEF IndexSpec

-----------------------------------------------------------------------------
(***************************************************************************)
(* Answers.                                                                *)
(***************************************************************************)

(* What was timely stays so when a file is edited.                         *)
LEMMA TimelyKept ==
  ASSUME Core, NEW p \in Processes, NEW f \in Files, NEW version \in {0, clock + 1},
         Touch(f, version), proc[p].began <= clock,
         \A g \in Files : proc[p].begun[g] <= proc[p].began
  PROVE  /\ \A g \in Files, v \in Nat : Timely(p, g, v) => Timely(p, g, v)'
         /\ \A g \in Files : Timely(p, g, tree[g]) => Timely(p, g, tree[g])'
         /\ proc[p].began <= clock'
<1>1. /\ proc' = proc /\ clock' = clock + 1 /\ clock \in Nat
      /\ \A g \in Files : tree'[g] = IF g = f THEN version ELSE tree[g]
  BY CodeIndexAssumption DEF Touch, Core, Typed
<1>2. proc[p].began \in Nat /\ \A g \in Files : proc[p].begun[g] \in Nat /\ tree[g] \in Nat
  BY ProcessTyped DEF Process
<1>. QED  BY <1>1, <1>2 DEF Timely

LEMMA TouchCommands ==
  ASSUME Core, Commands, NEW f \in Files, NEW version \in {0, clock + 1}, Touch(f, version)
  PROVE  Commands'
<1>1. proc' = proc /\ index' = index /\ lock' = lock
  BY DEF Touch, artifacts
<1>2. SUFFICES ASSUME NEW p \in Agents, ~At(p, "idle") PROVE CommandOK(p)'
  BY <1>1 DEF Commands, CommandOK, At
<1>3. CommandOK(p) /\ p \in Processes
  BY DEF Commands, Processes
<1>4. /\ \A g \in Files, v \in Nat : Timely(p, g, v) => Timely(p, g, v)'
      /\ \A g \in Files : Timely(p, g, tree[g]) => Timely(p, g, tree[g])'
      /\ proc[p].began <= clock'
  BY <1>2, <1>3, TimelyKept DEF CommandOK
<1>5. ASSUME NEW records \in Rows, AllTimely(p, records) PROVE AllTimely(p, records)'
  BY <1>4, <1>5 DEF AllTimely, Rows
<1>6. ASSUME NEW q \in Processes, BuildsTimely(p, q) PROVE BuildsTimely(p, q)'
  <2>1. proc[q].held \in Rows
    BY ProcessTyped
  <2>2. \A g \in Files : Timely(p, g, proc[q].held[g].content) => Timely(p, g, proc[q].held[g].content)'
    BY <1>1, <1>4, <2>1 DEF Rows
  <2>. QED  BY <1>1, <1>6, <2>2 DEF BuildsTimely, AllTimely
<1>7. \A g \in Files : Timely(p, g, proc[p].held[g].content) => Timely(p, g, proc[p].held[g].content)'
  <2>1. proc[p].held \in Rows
    BY <1>3, ProcessTyped
  <2>. QED  BY <1>1, <1>4, <2>1 DEF Rows
<1>8. \A g \in Files : Timely(p, g, proc[p].answer[g]) => Timely(p, g, proc[p].answer[g])'
  <2>1. \A g \in Files : proc[p].answer[g] \in Nat
    BY <1>3, ProcessTyped DEF Process
  <2>. QED  BY <1>1, <1>4, <2>1
<1>9. index # Nobody /\ AllTimely(p, index) => AllTimely(p, index)'
  <2>1. index # Nobody => index \in Rows
    BY DEF Core, Typed
  <2>. QED  BY <1>1, <1>5, <2>1
<1>. QED  BY <1>1, <1>2, <1>3, <1>4, <1>6, <1>7, <1>8, <1>9 DEF CommandOK, At, AllTimely

(***************************************************************************)
(* A step of one process, for the command of another: it may replace the   *)
(* index by one that it built since, if the command was not started amid.  *)
(***************************************************************************)
LEMMA OtherCommand ==
  ASSUME Core, NEW q \in Processes, NEW p \in Agents, p # q, CommandOK(p), Sole(q),
         tree' = tree, clock' = clock,
         \/ index' = index
         \/ /\ index' = proc[q].held /\ proc[q].pc = "stat" /\ proc[q].walk = {}
            /\ index' # Nobody,
         ~At(p, "idle") /\ ~proc[p].amid => BuildsTimely(p, q)'
  PROVE  CommandOK(p)'
<1>1. p \in Processes /\ proc'[p] = proc[p]
  BY DEF Sole, Processes
<1>2. SUFFICES ASSUME ~At(p, "idle") PROVE CommandOK(p)'
  BY <1>1 DEF CommandOK, At
<1>3. \A f, v : Timely(p, f, v)' <=> Timely(p, f, v)
  BY <1>1 DEF Timely
<1>4. BuildsTimely(p, p) => BuildsTimely(p, p)'
  BY <1>1 DEF BuildsTimely, AllTimely, Timely
<1>5. ASSUME ~proc[p].amid, NEW r \in Processes PROVE BuildsTimely(p, r)'
  <2>1. CASE r = q
    BY <1>2, <1>5, <2>1
  <2>2. CASE r # q
    <3>1. proc'[r] = proc[r] /\ BuildsTimely(p, r)
      BY <1>2, <1>5, <2>2 DEF Sole, CommandOK
    <3>. QED  BY <1>1, <3>1 DEF BuildsTimely, AllTimely, Timely
  <2>. QED  BY <2>1, <2>2
<1>6. ASSUME ~proc[p].amid, index' # index PROVE index' # Nobody /\ AllTimely(p, index)'
  <2>1. BuildsTimely(p, q)
    BY <1>2, <1>6 DEF CommandOK
  <2>. QED  BY <1>1, <1>6, <2>1 DEF BuildsTimely, AllTimely, Timely
<1>7. index' = index /\ AllTimely(p, index) => AllTimely(p, index)'
  BY <1>1 DEF AllTimely, Timely
<1>8. AllTimely(p, proc[p].held) => AllTimely(p, proc[p].held)'
  BY <1>1 DEF AllTimely, Timely
<1>9. /\ proc[p].began <= clock
      /\ \A f \in Files : proc[p].begun[f] <= proc[p].began /\ Timely(p, f, tree[f])
      /\ BuildsTimely(p, p)
      /\ At(p, "compare") =>
           /\ \A f \in Files \ proc[p].walk : Timely(p, f, proc[p].held[f].content)
           /\ \A f \in proc[p].walk : proc[p].held[f].content # 0
      /\ At(p, "answered") /\ proc[p].kind \in {"index", "find"}
           /\ (proc[p].kind = "find" => ~proc[p].amid)
         => \A f \in Files : Timely(p, f, proc[p].answer[f])
  BY <1>2 DEF CommandOK
<1>10. /\ clock' = clock
       /\ \A f \in Files : proc'[p].begun[f] <= proc'[p].began /\ Timely(p, f, tree[f])'
       /\ At(p, "compare") =>
            /\ \A f \in Files \ proc[p].walk : Timely(p, f, proc[p].held[f].content)'
            /\ \A f \in proc[p].walk : proc[p].held[f].content # 0
       /\ At(p, "answered") /\ proc[p].kind \in {"index", "find"}
            /\ (proc[p].kind = "find" => ~proc[p].amid)
          => \A f \in Files : Timely(p, f, proc[p].answer[f])'
  BY <1>1, <1>9 DEF Timely
<1>11. ASSUME ~proc[p].amid
       PROVE  /\ At(p, "compare") => index' # Nobody /\ (index' = proc'[p].held \/ AllTimely(p, index)')
              /\ At(p, "loaded") => index' # Nobody /\ AllTimely(p, index)'
  BY <1>1, <1>2, <1>6, <1>7, <1>11 DEF CommandOK
<1>12. At(p, "loaded") => AllTimely(p, proc[p].held)'
  BY <1>2, <1>8 DEF CommandOK
<1>. QED  BY <1>1, <1>4, <1>5, <1>9, <1>10, <1>11, <1>12 DEF CommandOK, At

(* A step of a process that goes on with its command.                      *)
LEMMA ProceedCommands ==
  ASSUME Core, Commands, NEW q \in Processes, ~At(q, "idle"), Proceeds(q),
         tree' = tree, clock' = clock,
         \/ index' = index
         \/ /\ index' = proc[q].held /\ proc[q].pc = "stat" /\ proc[q].walk = {}
            /\ index' # Nobody /\ proc'[q].pc = "summary",
         \A p \in Agents : ~At(p, "idle") /\ (p = q \/ ~proc[p].amid) => BuildsTimely(p, q)',
         q \in Agents =>
           /\ proc'[q].pc = "compare" =>
                /\ \A f \in Files \ proc'[q].walk : Timely(q, f, proc[q].held[f].content)'
                /\ \A f \in proc'[q].walk : proc'[q].held[f].content # 0
                /\ ~proc[q].amid => index # Nobody /\ (index = proc'[q].held \/ AllTimely(q, index))
           /\ proc'[q].pc = "loaded" =>
                /\ \A f \in Files : Timely(q, f, proc[q].held[f].content)'
                /\ ~proc[q].amid => index # Nobody /\ AllTimely(q, index)
           /\ proc'[q].pc = "answered" /\ proc[q].kind \in {"index", "find"}
                /\ (proc[q].kind = "find" => ~proc[q].amid)
              => \A f \in Files : Timely(q, f, proc[q].answer[f])'
  PROVE  Commands'
<1>1. SUFFICES ASSUME NEW p \in Agents PROVE CommandOK(p)'
  BY DEF Commands
<1>2. p \in Processes /\ CommandOK(p) /\ Sole(q)
  BY DEF Commands, Processes, Proceeds
<1>3. CASE p # q
  BY <1>2, <1>3, OtherCommand
<1>4. CASE p = q
  <2>1. /\ proc'[p].kind = proc[p].kind /\ proc'[p].begun = proc[p].begun
        /\ proc'[p].began = proc[p].began /\ proc'[p].amid = proc[p].amid
    BY <1>4 DEF Proceeds
  <2>2. /\ proc[p].began <= clock
        /\ \A f \in Files : proc[p].begun[f] <= proc[p].began /\ Timely(p, f, tree[f])
    BY <1>2, <1>4 DEF CommandOK
  <2>3. /\ proc'[p].began <= clock'
        /\ \A f \in Files : proc'[p].begun[f] <= proc'[p].began /\ Timely(p, f, tree[f])'
    BY <2>1, <2>2 DEF Timely
  <2>4. BuildsTimely(p, p)'
    BY <1>4
  <2>5. ASSUME ~proc[p].amid, NEW r \in Processes PROVE BuildsTimely(p, r)'
    <3>1. CASE r = q
      BY <1>4, <2>4, <3>1
    <3>2. CASE r # q
      <4>1. proc'[r] = proc[r] /\ BuildsTimely(p, r)
        BY <1>2, <1>4, <2>5, <3>2 DEF Sole, CommandOK
      <4>. QED  BY <2>1, <4>1 DEF BuildsTimely, AllTimely, Timely
    <3>. QED  BY <3>1, <3>2
  <2>6. AllTimely(p, index) => \A f \in Files : Timely(p, f, index[f].content)
    BY DEF AllTimely
  <2>7. index' = index /\ AllTimely(p, index) => AllTimely(p, index)'
    BY <2>1 DEF AllTimely, Timely
  <2>8. proc'[p].pc \in {"compare", "loaded"} => index' = index
    BY <1>4
  <2>9. proc'[p].pc = "compare" =>
          /\ \A f \in Files \ proc'[p].walk : Timely(p, f, proc[p].held[f].content)'
          /\ \A f \in proc'[p].walk : proc'[p].held[f].content # 0
          /\ ~proc'[p].amid => index' # Nobody /\ (index' = proc'[p].held \/ AllTimely(p, index)')
    BY <1>4, <2>1, <2>7, <2>8
  <2>10. proc'[p].pc = "loaded" =>
           /\ AllTimely(p, proc[p].held)'
           /\ ~proc'[p].amid => index' # Nobody /\ AllTimely(p, index)'
    <3>1. proc'[p].pc = "loaded" => AllTimely(p, proc[p].held)'
      BY <1>4 DEF AllTimely
    <3>. QED  BY <1>4, <2>1, <2>7, <2>8, <3>1
  <2>11. proc'[p].pc = "answered" /\ proc'[p].kind \in {"index", "find"}
           /\ (proc'[p].kind = "find" => ~proc'[p].amid)
         => \A f \in Files : Timely(p, f, proc[p].answer[f])'
    BY <1>4, <2>1
  <2>. QED  BY <2>1, <2>3, <2>4, <2>5, <2>9, <2>10, <2>11 DEF CommandOK, At
<1>. QED  BY <1>3, <1>4

(* A step of a process that neither builds nor has an answer after it.     *)
LEMMA QuietCommands ==
  ASSUME Core, Commands, NEW q \in Processes, Sole(q),
         tree' = tree, clock' = clock, index' = index,
         \/ proc'[q].pc = "idle"
         \/ ~At(q, "idle") /\ Proceeds(q) /\ proc'[q].pc \in {"lock", "load", "discover"}
         \/ q \in Watchers /\ proc'[q].pc \in {"debounce", "lock"}
  PROVE  Commands'
<1>1. ASSUME NEW p \in Agents PROVE BuildsTimely(p, q)'
  BY DEF BuildsTimely
<1>2. CASE ~At(q, "idle") /\ Proceeds(q) /\ proc'[q].pc \in {"lock", "load", "discover"}
  BY <1>1, <1>2, ProceedCommands
<1>3. CASE proc'[q].pc = "idle" \/ q \in Watchers
  <2>1. SUFFICES ASSUME NEW p \in Agents PROVE CommandOK(p)'
    BY DEF Commands
  <2>2. CommandOK(p)
    BY DEF Commands
  <2>3. CASE p # q
    BY <1>1, <2>2, <2>3, OtherCommand
  <2>4. CASE p = q
    BY <1>3, <2>4, WatcherAlone DEF CommandOK, At
  <2>. QED  BY <2>3, <2>4
<1>. QED  BY <1>2, <1>3

(* A command starts: it was not started amid if no build is under way.     *)
LEMMA CommandCommands ==
  ASSUME Core, Commands, NEW q \in Agents, NEW kind \in Kinds, Command(q, kind) PROVE Commands'
<1>1. /\ tree' = tree /\ clock' = clock /\ index' = index /\ q \in Processes /\ Typed
  BY DEF Command, artifacts, Processes, Core
<1>2. /\ proc'[q] = [Idle EXCEPT !.pc = IF kind = "index" THEN "lock" ELSE "load",
                    !.kind = kind, !.begun = tree, !.began = clock, !.amid = (lock # Nobody)]
      /\ Sole(q)
  BY <1>1 DEF Command, Typed, Sole
<1>3. /\ proc'[q].pc \in {"lock", "load"} /\ proc'[q].begun = tree /\ proc'[q].began = clock
      /\ proc'[q].amid = (lock # Nobody)
  BY <1>2, IdleProcess DEF Process
<1>4. SUFFICES ASSUME NEW p \in Agents PROVE CommandOK(p)'
  BY DEF Commands
<1>5. BuildsTimely(p, q)'
  BY <1>3 DEF BuildsTimely
<1>6. CASE p # q
  BY <1>1, <1>2, <1>5, <1>6, OtherCommand DEF Commands
<1>7. CASE p = q
  <2>1. ASSUME ~proc'[q].amid, NEW r \in Processes PROVE BuildsTimely(q, r)'
    <3>1. CASE r = q
      BY <1>5, <1>7, <3>1
    <3>2. CASE r # q
      <4>1. proc'[r] = proc[r] /\ BuilderOK(r) /\ lock = Nobody /\ r # Nobody
        BY <1>2, <1>3, <2>1, <3>2, CodeIndexAssumption DEF Sole, Core
      <4>2. proc'[r].pc \notin Building
        BY <4>1 DEF BuilderOK
      <4>. QED  BY <4>2 DEF BuildsTimely, Building
    <3>. QED  BY <3>1, <3>2
  <2>2. /\ proc'[q].began <= clock'
        /\ \A f \in Files : proc'[q].begun[f] <= proc'[q].began /\ Timely(q, f, tree[f])'
    BY <1>1, <1>3, ProcessTyped DEF Timely
  <2>. QED  BY <1>3, <1>5, <1>7, <2>1, <2>2 DEF CommandOK, At
<1>. QED  BY <1>6, <1>7

LEMMA LoadCommands ==
  ASSUME Core, Commands, NEW q \in Processes, LoadIndex(q) PROVE Commands'
<1>1. tree' = tree /\ clock' = clock /\ index' = index /\ ~At(q, "idle")
  BY DEF LoadIndex, artifacts, At
<1>2. ASSUME Goto(q, Stale(q)) PROVE Commands'
  BY <1>1, <1>2, GotoEffect, QuietCommands DEF Stale, Proceeds
<1>3. ASSUME index # Nobody, Present(tree) = Present(Contents(index)),
             proc' = [proc EXCEPT ![q].pc = "compare", ![q].held = index, ![q].walk = Present(tree)]
      PROVE  Commands'
  <2>1. /\ Proceeds(q) /\ proc'[q].pc = "compare"
        /\ proc'[q].walk = Present(tree) /\ proc'[q].held = index
    BY <1>3, LoadEffect
  <2>2. index \in Rows
    BY <1>3 DEF Core, Typed
  <2>3. \A f \in Files : f \in Present(tree) <=> index[f].content # 0
    BY <1>3, <2>2, ContentsTyped DEF Present
  <2>4. ASSUME q \in Agents, NEW f \in Files \ Present(tree)
        PROVE  Timely(q, f, proc[q].held[f].content)'
    <3>1. index[f].content = 0 /\ tree[f] = 0
      BY <2>3, <2>4 DEF Present
    <3>2. Timely(q, f, tree[f])
      BY <1>1, <2>4 DEF Commands, CommandOK
    <3>. QED  BY <1>1, <2>1, <3>1, <3>2 DEF Timely, Proceeds
  <2>5. \A f \in Present(tree) : index[f].content # 0
    BY <2>3 DEF Present
  <2>6. ASSUME NEW p \in Agents PROVE BuildsTimely(p, q)'
    BY <2>1 DEF BuildsTimely
  <2>. QED  BY <1>1, <1>3, <2>1, <2>4, <2>5, <2>6, ProceedCommands
<1>. QED  BY <1>2, <1>3 DEF LoadIndex

LEMMA CompareCommands ==
  ASSUME Core, Commands, NEW q \in Processes, Compare(q) PROVE Commands'
<1>1. tree' = tree /\ clock' = clock /\ index' = index /\ At(q, "compare") /\ ~At(q, "idle")
  BY DEF Compare, artifacts, At
<1>2. q \in Agents => CommandOK(q)
  BY DEF Commands
<1>3. ASSUME proc[q].walk = {}, Goto(q, "loaded") PROVE Commands'
  <2>1. Proceeds(q) /\ proc'[q].pc = "loaded" /\ proc'[q].held = proc[q].held
    BY <1>3, GotoEffect
  <2>2. ASSUME NEW p \in Agents PROVE BuildsTimely(p, q)'
    BY <2>1 DEF BuildsTimely
  <2>3. q \in Agents => \A f \in Files : Timely(q, f, proc[q].held[f].content)
    BY <1>1, <1>2, <1>3 DEF CommandOK
  <2>4. q \in Agents => \A f \in Files : Timely(q, f, proc[q].held[f].content)'
    BY <1>1, <2>1, <2>3 DEF Timely, Proceeds
  <2>5. q \in Agents /\ ~proc[q].amid => index # Nobody /\ AllTimely(q, index)
    BY <1>1, <1>2, <2>3 DEF CommandOK, AllTimely
  <2>. QED  BY <1>1, <2>1, <2>2, <2>4, <2>5, ProceedCommands
<1>4. ASSUME Reconsider(q) PROVE Commands'
  BY <1>1, <1>4, ReconsiderEffect, QuietCommands DEF Stale, Proceeds
<1>5. ASSUME NEW f \in proc[q].walk, Unchanged(q, f), proc' = [proc EXCEPT ![q].walk = @ \ {f}]
      PROVE  Commands'
  <2>1. /\ Proceeds(q) /\ proc'[q].pc = "compare"
        /\ proc'[q].walk = proc[q].walk \ {f} /\ proc'[q].held = proc[q].held
    BY <1>1, <1>5, CompareEffect DEF At
  <2>2. ASSUME NEW p \in Agents PROVE BuildsTimely(p, q)'
    BY <2>1 DEF BuildsTimely
  <2>3. f \in Files /\ tree[f] = proc[q].held[f].stat /\ proc[q].held \in Rows /\ Sound(proc[q].held)
    BY <1>5, ProcessTyped DEF Unchanged, BuilderOK
  <2>4. q \in Agents => proc[q].held[f].content = tree[f]
    <3>1. q \in Agents => proc[q].held[f].content # 0
      BY <1>1, <1>2, <1>5 DEF CommandOK
    <3>2. proc[q].held[f].content \in Nat /\ tree[f] \in Nat
      BY <2>3 DEF Rows
    <3>. QED  BY <2>3, <3>1, <3>2 DEF Sound
  <2>5. q \in Agents => \A g \in Files \ proc'[q].walk : Timely(q, g, proc[q].held[g].content)
    BY <1>1, <1>2, <2>1, <2>3, <2>4 DEF CommandOK
  <2>6. q \in Agents => \A g \in Files \ proc'[q].walk : Timely(q, g, proc[q].held[g].content)'
    BY <1>1, <2>1, <2>5 DEF Timely, Proceeds
  <2>7. q \in Agents => /\ \A g \in proc'[q].walk : proc'[q].held[g].content # 0
                        /\ ~proc[q].amid => index # Nobody /\ (index = proc'[q].held \/ AllTimely(q, index))
    BY <1>1, <1>2, <2>1 DEF CommandOK
  <2>. QED  BY <1>1, <2>1, <2>2, <2>6, <2>7, ProceedCommands
<1>. QED
  <2>1. proc[q].walk # {} => First(proc[q].walk) \in proc[q].walk
    BY HasFirst, ProcessTyped
  <2>. QED  BY <1>3, <1>4, <1>5, <2>1 DEF Compare

LEMMA LockCommands ==
  ASSUME Core, Commands, NEW q \in Processes, TakeLock(q) \/ GiveUp(q) PROVE Commands'
<1>1. tree' = tree /\ clock' = clock /\ index' = index /\ ~At(q, "idle")
  BY DEF TakeLock, GiveUp, artifacts, At
<1>2. CASE TakeLock(q)
  <2>1. \E step \in {"discover", "load"} : Goto(q, step)
    BY <1>2 DEF TakeLock
  <2>. QED  BY <1>1, <2>1, GotoEffect, QuietCommands DEF Proceeds
<1>3. CASE GiveUp(q)
  BY <1>1, <1>3, IdleEffect, QuietCommands DEF GiveUp
<1>. QED  BY <1>2, <1>3

(***************************************************************************)
(* A build: what it looked at since a command was started is timely.       *)
(***************************************************************************)
LEMMA BuildCommands ==
  ASSUME Core, Commands, NEW q \in Processes, proc[q].pc \in Building, Proceeds(q),
         tree' = tree, clock' = clock,
         \/ index' = index
         \/ /\ index' = proc[q].held /\ proc[q].pc = "stat" /\ proc[q].walk = {}
            /\ index' # Nobody /\ proc'[q].pc = "summary",
         proc'[q].pc \in Building,
         \A p \in Agents : ~At(p, "idle") /\ BuildsTimely(p, q) => BuildsTimely(p, q)'
  PROVE  Commands'
<1>1. ~At(q, "idle") /\ proc'[q].pc \notin {"compare", "loaded", "answered"}
  BY DEF Building, At
<1>2. \A p \in Agents : ~At(p, "idle") /\ (p = q \/ ~proc[p].amid) => BuildsTimely(p, q)
  BY DEF Commands, CommandOK
<1>. QED  BY <1>1, <1>2, ProceedCommands

LEMMA FailCommands ==
  ASSUME Core, Commands, NEW q \in Processes, proc' = [proc EXCEPT ![q] = Idle],
         tree' = tree, clock' = clock, index' = index
  PROVE  Commands'
BY IdleEffect, QuietCommands

LEMMA RecordCommands ==
  ASSUME Core, Commands, NEW q \in Processes, proc[q].pc \in {"stat", "read"},
         NEW f \in Files, NEW record, Record(q, f, record), record.content = tree[f],
         tree' = tree, clock' = clock, index' = index
  PROVE  Commands'
<1>1. /\ Proceeds(q) /\ proc'[q].pc = "stat" /\ proc'[q].walk = proc[q].walk \ {f}
      /\ \A g \in Files : proc'[q].held[g] = IF g = f THEN record ELSE proc[q].held[g]
  BY RecordEffect
<1>2. ASSUME NEW p \in Agents, ~At(p, "idle"), BuildsTimely(p, q) PROVE BuildsTimely(p, q)'
  <2>1. \A g \in Files \ proc'[q].walk : Timely(p, g, proc'[q].held[g].content)
    <3>1. Timely(p, f, tree[f])
      BY <1>2 DEF Commands, CommandOK
    <3>. QED  BY <1>1, <1>2, <3>1 DEF BuildsTimely
  <2>2. proc'[p].begun = proc[p].begun /\ proc'[p].began = proc[p].began
    BY <1>1, <1>2 DEF Proceeds, Sole, Processes
  <2>. QED  BY <1>1, <2>1, <2>2 DEF BuildsTimely, Timely
<1>. QED  BY <1>1, <1>2, BuildCommands DEF Building

LEMMA DiscoverCommands ==
  ASSUME Core, Commands, NEW q \in Processes, Discover(q) PROVE Commands'
<1>1. tree' = tree /\ clock' = clock /\ index' = index /\ proc[q].pc = "discover"
  BY DEF Discover, artifacts, At
<1>2. /\ Proceeds(q) /\ proc'[q].pc = "stat" /\ proc'[q].walk = Present(tree)
      /\ proc'[q].held = NoRecords
  BY DiscoverEffect
<1>3. ASSUME NEW p \in Agents, ~At(p, "idle") PROVE BuildsTimely(p, q)'
  <2>1. proc'[p].begun = proc[p].begun /\ proc'[p].began = proc[p].began
    BY <1>2, <1>3 DEF Proceeds, Sole, Processes
  <2>2. \A f \in Files \ Present(tree) : tree[f] = 0 /\ Timely(p, f, tree[f])
    BY <1>3 DEF Commands, CommandOK, Present
  <2>. QED  BY <1>1, <1>2, <2>1, <2>2, NothingRecorded DEF BuildsTimely, Timely
<1>. QED  BY <1>1, <1>2, <1>3, BuildCommands DEF Building

LEMMA StatCommands ==
  ASSUME Core, Commands, NEW q \in Processes, Stat(q) PROVE Commands'
<1>. DEFINE f == First(proc[q].walk)
<1>1. /\ tree' = tree /\ clock' = clock /\ index' = index /\ proc[q].pc = "stat"
      /\ proc[q].walk # {}
  BY DEF Stat, artifacts, At
<1>2. f \in Files /\ f \in proc[q].walk
  BY <1>1, HasFirst, ProcessTyped
<1>3. CASE tree[f] = 0
  BY <1>1, <1>3, FailCommands DEF Stat, Fail
<1>4. ASSUME tree[f] # 0, Reusable(q, f), Record(q, f, proc[q].prev[f]) PROVE Commands'
  <2>1. Sound(proc[q].prev) /\ proc[q].prev \in Rows /\ tree[f] \in Nat
    BY <1>2, ProcessTyped DEF BuilderOK
  <2>2. proc[q].prev[f].content = tree[f]
    <3>1. proc[q].prev[f].stat = tree[f]
      BY <1>4 DEF Reusable
    <3>2. proc[q].prev[f].stat <= proc[q].prev[f].content /\ proc[q].prev[f].content <= tree[f]
      BY <1>2, <1>4, <2>1 DEF Sound
    <3>3. proc[q].prev[f].content \in Nat
      BY <1>2, <2>1 DEF Rows
    <3>. QED  BY <2>1, <3>1, <3>2, <3>3
  <2>. QED  BY <1>1, <1>2, <1>4, <2>2, RecordCommands
<1>5. ASSUME proc' = [proc EXCEPT ![q].pc = "read", ![q].stat = tree[f]] PROVE Commands'
  <2>1. /\ Proceeds(q) /\ proc'[q].pc = "read"
        /\ proc'[q].walk = proc[q].walk /\ proc'[q].held = proc[q].held
    BY <1>5, ReadEffect
  <2>2. ASSUME NEW p \in Agents, BuildsTimely(p, q) PROVE BuildsTimely(p, q)'
    <3>1. proc'[p].begun = proc[p].begun /\ proc'[p].began = proc[p].began
      BY <2>1, <2>2 DEF Proceeds, Sole, Processes
    <3>. QED  BY <1>1, <2>1, <2>2, <3>1 DEF BuildsTimely, Timely
  <2>. QED  BY <1>1, <2>1, <2>2, BuildCommands DEF Building
<1>. QED  BY <1>3, <1>4, <1>5 DEF Stat

LEMMA ReadCommands ==
  ASSUME Core, Commands, NEW q \in Processes, Read(q) PROVE Commands'
<1>. DEFINE f == First(proc[q].walk)
<1>1. tree' = tree /\ clock' = clock /\ index' = index /\ proc[q].pc = "read"
  BY DEF Read, artifacts, At
<1>2. f \in Files
  BY <1>1, HasFirst, ProcessTyped DEF BuilderOK
<1>3. CASE tree[f] = 0
  BY <1>1, <1>3, FailCommands DEF Read, Fail
<1>4. ASSUME Record(q, f, StatThenRead(q, f)) PROVE Commands'
  <2>1. StatThenRead(q, f).content = tree[f]
    BY DEF StatThenRead
  <2>. QED  BY <1>1, <1>2, <1>4, <2>1, RecordCommands
<1>. QED  BY <1>3, <1>4 DEF Read

LEMMA SaveIndexCommands ==
  ASSUME Core, Commands, NEW q \in Processes, SaveIndex(q) PROVE Commands'
<1>1. tree' = tree /\ clock' = clock /\ proc[q].pc = "stat" /\ proc[q].walk = {}
  BY DEF SaveIndex, At
<1>2. /\ Proceeds(q) /\ proc'[q].pc = "summary" /\ proc'[q].held = proc[q].held
      /\ index' = proc[q].held /\ index' # Nobody
  BY SaveIndexEffect
<1>3. ASSUME NEW p \in Agents, BuildsTimely(p, q) PROVE BuildsTimely(p, q)'
  <2>1. proc'[p].begun = proc[p].begun /\ proc'[p].began = proc[p].began
    BY <1>2, <1>3 DEF Proceeds, Sole, Processes
  <2>. QED  BY <1>1, <1>2, <1>3, <2>1 DEF BuildsTimely, AllTimely, Timely
<1>. QED  BY <1>1, <1>2, <1>3, BuildCommands DEF Building

LEMMA SaveSummaryCommands ==
  ASSUME Core, Commands, NEW q \in Processes, SaveSummary(q) PROVE Commands'
<1>1. /\ tree' = tree /\ clock' = clock /\ index' = index /\ proc[q].pc = "summary"
      /\ Goto(q, "search")
  BY DEF SaveSummary, At
<1>2. Proceeds(q) /\ proc'[q].pc = "search" /\ proc'[q].held = proc[q].held
  BY <1>1, GotoEffect
<1>3. ASSUME NEW p \in Agents, BuildsTimely(p, q) PROVE BuildsTimely(p, q)'
  <2>1. proc'[p].begun = proc[p].begun /\ proc'[p].began = proc[p].began
    BY <1>2, <1>3 DEF Proceeds, Sole, Processes
  <2>. QED  BY <1>1, <1>2, <1>3, <2>1 DEF BuildsTimely, AllTimely, Timely
<1>. QED  BY <1>1, <1>2, <1>3, BuildCommands DEF Building

LEMMA BuiltCommands ==
  ASSUME Core, Commands, NEW q \in Processes, SaveSearch(q) \/ SkipSearch(q) PROVE Commands'
<1>1. /\ tree' = tree /\ clock' = clock /\ index' = index /\ proc[q].pc = "search"
      /\ Goto(q, "loaded") /\ ~At(q, "idle")
  BY DEF SaveSearch, SkipSearch, artifacts, At
<1>2. Proceeds(q) /\ proc'[q].pc = "loaded" /\ proc'[q].held = proc[q].held
  BY <1>1, GotoEffect
<1>3. ASSUME NEW p \in Agents PROVE BuildsTimely(p, q)'
  BY <1>2 DEF BuildsTimely
<1>4. q \in Agents => AllTimely(q, proc[q].held)
  BY <1>1 DEF Commands, CommandOK, BuildsTimely
<1>5. q \in Agents => \A f \in Files : Timely(q, f, proc[q].held[f].content)'
  BY <1>1, <1>2, <1>4 DEF AllTimely, Timely, Proceeds
<1>6. index = proc[q].held /\ index # Nobody
  BY <1>1, ProcessTyped, CodeIndexAssumption DEF BuilderOK, Rows
<1>. QED  BY <1>1, <1>2, <1>3, <1>4, <1>5, <1>6, ProceedCommands

(***************************************************************************)
(* The answer: a sidecar that is fresh has what the index has, which was   *)
(* saved by a build that the command did not find under way.               *)
(***************************************************************************)
LEMMA AnswerCommands ==
  ASSUME Core, Commands, NEW q \in Agents, Find(q) \/ Report(q) PROVE Commands'
<1>. DEFINE sidecar == proc[q].kind = "find" /\ SidecarIsFresh
            contents == IF sidecar THEN search.contents ELSE Contents(proc[q].held)
<1>1. /\ tree' = tree /\ clock' = clock /\ index' = index /\ proc[q].pc = "loaded"
      /\ ~At(q, "idle") /\ q \in Processes /\ Answer(q, contents)
  BY DEF Find, Report, artifacts, At, Processes
<1>2. Proceeds(q) /\ proc'[q].pc = "answered" /\ proc'[q].answer = contents
  BY <1>1, AnswerEffect
<1>3. /\ AllTimely(q, proc[q].held)
      /\ ~proc[q].amid => index # Nobody /\ AllTimely(q, index)
  BY <1>1 DEF Commands, CommandOK, At
<1>4. CASE ~sidecar
  <2>1. \A f \in Files : Timely(q, f, proc'[q].answer[f])
    <3>1. proc[q].held \in Rows /\ contents = Contents(proc[q].held)
      BY <1>1, <1>4, ProcessTyped
    <3>2. \A f \in Files : proc'[q].answer[f] = proc[q].held[f].content
      BY <1>2, <3>1, ContentsTyped
    <3>. QED  BY <1>3, <3>2 DEF AllTimely
  <2>2. \A f \in Files : Timely(q, f, proc[q].answer[f])'
    BY <1>1, <1>2, <2>1 DEF Timely, Proceeds
  <2>. QED  BY <1>1, <1>2, <2>2, ProceedCommands DEF BuildsTimely
<1>5. CASE sidecar
  <2>1. ASSUME ~proc[q].amid PROVE \A f \in Files : Timely(q, f, proc'[q].answer[f])
    <3>1. index # Nobody /\ index \in Rows /\ search.contents = Contents(index)
      BY <1>3, <1>5, <2>1 DEF Core, FreshMeansSame, Typed
    <3>2. \A f \in Files : proc'[q].answer[f] = index[f].content
      BY <1>2, <1>5, <3>1, ContentsTyped
    <3>. QED  BY <1>3, <2>1, <3>2 DEF AllTimely
  <2>2. ~proc[q].amid => \A f \in Files : Timely(q, f, proc[q].answer[f])'
    BY <1>1, <1>2, <2>1 DEF Timely, Proceeds
  <2>. QED  BY <1>1, <1>2, <1>5, <2>2, ProceedCommands DEF BuildsTimely
<1>. QED  BY <1>4, <1>5

(* What export arrow-nodes wrote is of no time that is known.              *)
LEMMA FindNodeCommands ==
  ASSUME Core, Commands, NEW q \in Agents, FindNode(q) PROVE Commands'
<1>1. /\ tree' = tree /\ clock' = clock /\ index' = index /\ q \in Processes
  BY DEF FindNode, artifacts, Processes
<1>2. /\ Sole(q) /\ ~At(q, "idle")
      /\ proc'[q].pc = "answered" /\ proc'[q].kind = "arrow-nodes"
      /\ proc'[q].begun = proc[q].begun /\ proc'[q].began = proc[q].began
      /\ proc'[q].amid = proc[q].amid
  BY <1>1, FindNodeEffect
<1>3. SUFFICES ASSUME NEW p \in Agents PROVE CommandOK(p)'
  BY DEF Commands
<1>4. BuildsTimely(p, q)'
  BY <1>2 DEF BuildsTimely
<1>5. CASE p # q
  BY <1>1, <1>2, <1>4, <1>5, OtherCommand DEF Commands
<1>6. CASE p = q
  <2>1. /\ proc[q].began <= clock
        /\ \A f \in Files : proc[q].begun[f] <= proc[q].began /\ Timely(q, f, tree[f])
        /\ ~proc[q].amid => \A r \in Processes : BuildsTimely(q, r)
    BY <1>2 DEF Commands, CommandOK
  <2>2. /\ proc'[q].began <= clock'
        /\ \A f \in Files : proc'[q].begun[f] <= proc'[q].began /\ Timely(q, f, tree[f])'
    BY <1>1, <1>2, <2>1 DEF Timely
  <2>3. ASSUME ~proc[q].amid, NEW r \in Processes PROVE BuildsTimely(q, r)'
    <3>1. CASE r = q
      BY <1>4, <1>6, <3>1
    <3>2. CASE r # q
      <4>1. proc'[r] = proc[r] /\ BuildsTimely(q, r)
        BY <1>2, <2>1, <2>3, <3>2 DEF Sole
      <4>. QED  BY <1>1, <1>2, <4>1 DEF BuildsTimely, AllTimely, Timely
    <3>. QED  BY <3>1, <3>2
  <2>. QED  BY <1>2, <1>4, <1>6, <2>2, <2>3 DEF CommandOK, At
<1>. QED  BY <1>5, <1>6

LEMMA EndCommands ==
  ASSUME Core, Commands, NEW q \in Processes, Return(q) \/ Die(q) \/ Reindexed(q) \/ FailBuild(q)
  PROVE  Commands'
BY FailCommands DEF Return, Die, Reindexed, FailBuild, Fail, artifacts

LEMMA WatchCommands ==
  ASSUME Core, Commands, NEW w \in Watchers, Wake(w) \/ Drain(w) \/ Reindex(w) PROVE Commands'
<1>1. tree' = tree /\ clock' = clock /\ index' = index /\ w \in Processes /\ Typed
  BY DEF Wake, Drain, Reindex, artifacts, Processes, Core
<1>2. Sole(w) /\ proc'[w].pc \in {"debounce", "lock"}
  <2>1. CASE Wake(w)
    BY <1>1, <2>1, GotoEffect DEF Wake, Proceeds
  <2>2. CASE Drain(w)
    BY <2>2 DEF Drain, At, Sole
  <2>3. CASE Reindex(w)
    <3>1. proc'[w] = [proc[w] EXCEPT !.pc = "lock", !.kind = "watch"] /\ Sole(w)
      BY <1>1, <2>3 DEF Reindex, Sole, Typed
    <3>. QED  BY <1>1, <3>1, ProcessTyped DEF Process
  <2>. QED  BY <2>1, <2>2, <2>3
<1>. QED  BY <1>1, <1>2, QuietCommands

LEMMA CommandsStep == Core /\ Commands /\ [IndexNext]_indexVars => Commands'
<1>. SUFFICES ASSUME Core, Commands, [IndexNext]_indexVars PROVE Commands'
  OBVIOUS
<1>1. ASSUME NEW p \in Processes, Load(p) \/ GiveUp(p) \/ Build(p) PROVE Commands'
  BY <1>1, LoadCommands, CompareCommands, LockCommands, DiscoverCommands, StatCommands,
     ReadCommands, SaveIndexCommands, SaveSummaryCommands, BuiltCommands, EndCommands
  DEF Load, Build
<1>2. ASSUME NEW p \in Agents, Index(p) \/ Die(p) PROVE Commands'
  BY <1>1, <1>2, CommandCommands, AnswerCommands, FindNodeCommands, EndCommands DEF Index, Processes
<1>3. ASSUME NEW w \in Watchers, Watch(w) PROVE Commands'
  BY <1>3, WatchCommands, EndCommands DEF Watch, Processes
<1>4. ASSUME NEW f \in Files, Edit(f) \/ Remove(f) PROVE Commands'
  BY <1>4, TouchCommands DEF Edit, Remove
<1>5. CASE UNCHANGED indexVars
  <2>1. /\ tree' = tree /\ clock' = clock /\ index' = index /\ proc' = proc
    BY <1>5 DEF indexVars, artifacts
  <2>. QED  BY <2>1 DEF Commands, CommandOK, BuildsTimely, AllTimely, Timely, At
<1>. QED  BY <1>1, <1>2, <1>3, <1>4, <1>5 DEF IndexNext, Others, Processes

(* AnswersAreOfTheirTime: whatever is edited, built and killed meanwhile,  *)
(* index and find say of a file what was so when they were started or      *)
(* came to be so while they ran; find, if no build was under way then, and *)
(* if its answer is not of the exported nodes.                             *)
THEOREM AnswersAreTimely == IndexSpec => []AnswersAreOfTheirTime
<1>1. IndexInit => Commands
  BY IdleProcess DEF IndexInit, Commands, CommandOK, At, Processes
<1>2. Commands => AnswersAreOfTheirTime
  BY DEF Commands, CommandOK, AnswersAreOfTheirTime, OfItsTime, Timely, At
<1>. QED  BY <1>1, <1>2, CommandsStep, Soundness, PTL DEF IndexSpec

-----------------------------------------------------------------------------
(***************************************************************************)
(* The code graph.  Busy(p): p exports the graph, or loads what was        *)
(* exported.                                                               *)
(***************************************************************************)
Busy(p) == proc[p].pc \in Exporting \cup {"load_cache"}

(* The files beside the index and what processes parsed, as data.          *)
GraphCore ==
  /\ cache \in [Files -> Nat] \cup {Missing, Torn}
  /\ manifest \in [Files -> Nat] \cup {Missing, Torn}
  /\ parsed \in Rows /\ Sound(parsed)
  /\ graph \in [Processes -> [parsed : Rows, again : BOOLEAN]]
  /\ \A p \in Processes : Sound(graph[p].parsed)
  /\ cache \notin {Missing, Torn} =>
       \A f \in Files : cache[f] <= clock /\ (tree[f] # 0 => cache[f] <= tree[f])
  /\ manifest \notin {Missing, Torn} => \A f \in Files : manifest[f] <= clock
  /\ orderly \in BOOLEAN
  /\ \A p \in Agents : Busy(p) => proc[p].kind \in {"graph", "explain"}

(* The stat by which a command knows a file was the file's, too, since it  *)
(* was started.                                                            *)
StatsTimely(p) ==
  /\ proc[p].pc \in {"stat", "read", "compare"} =>
       \A f \in Files \ proc[p].walk : Timely(p, f, proc[p].held[f].stat)
  /\ At(p, "read") => Timely(p, First(proc[p].walk), proc[p].stat)
  /\ proc[p].pc \in {"summary", "search", "loaded"} \/ Busy(p) =>
       \A f \in Files : Timely(p, f, proc[p].held[f].stat)

(* A file had no other version between the one that the command began with *)
(* and those that came since.                                              *)
Era(p, f, version) ==
  \/ proc[p].begun[f] = 0
  \/ version <= proc[p].begun[f]
  \/ version > proc[p].began

Eras(p) ==
  \A f \in Files :
    /\ Era(p, f, parsed[f].content)
    /\ cache \notin {Missing, Torn} => Era(p, f, cache[f])
    /\ \A q \in Processes : Era(p, f, graph[q].parsed[f].content)

(* What the graph has of a file that was exported under a stat: nothing    *)
(* older, or nothing, of a file that has not this stat any more.           *)
Exported(f, stat, version) ==
  IF stat = 0 THEN version = 0
              ELSE version >= stat \/ (version = 0 /\ tree[f] # stat)

FilesMatch ==
  \/ cache = Missing /\ manifest = Missing
  \/ /\ cache \in [Files -> Nat] /\ manifest \in [Files -> Nat]
     /\ \A f \in Files : Exported(f, manifest[f], cache[f])

(* What an export has behind it.                                           *)
ExportOK(p) ==
  /\ proc[p].pc \in Exporting \ {"parse"} =>
       \A f \in Files : Exported(f, proc[p].held[f].stat, graph[p].parsed[f].content)
  /\ proc[p].pc \in {"save_parsed", "open_manifest", "fill_manifest"} =>
       cache = Contents(graph[p].parsed)
  /\ At(p, "load_cache") =>
       cache \in [Files -> Nat] /\ \A f \in Files : Timely(p, f, cache[f])
  /\ At(p, "answered") /\ proc[p].kind \in {"graph", "explain"} =>
       \A f \in Files : Timely(p, f, proc[p].answer[f])

(* The inductive invariant of the graph, as long as exports are orderly.   *)
Viewing ==
  orderly =>
    /\ \A p, q \in Agents : Busy(p) /\ Busy(q) => p = q
    /\ (\A p \in Agents : proc[p].pc \notin Exporting) => FilesMatch
    /\ \A p \in Agents : ExportOK(p)

(* What holds however exports meet.                                        *)
Graphs == \A p \in Agents : StatsTimely(p) /\ (~At(p, "idle") => Eras(p))

-----------------------------------------------------------------------------
(***************************************************************************)
(* The commands' own steps, for the graph.                                 *)
(***************************************************************************)
(* The process runs the command that it ran before.                        *)
SameCommand(p) ==
  /\ ~At(p, "idle")
  /\ proc'[p].begun = proc[p].begun /\ proc'[p].began = proc[p].began

LEMMA IndexEffect ==
  ASSUME Core, NEW p \in Agents, Index(p)
  PROVE  /\ tree' = tree /\ clock' = clock /\ Sole(p) /\ ~Busy(p) /\ ~Busy(p)'
         /\ proc'[p].pc = "answered" => proc'[p].kind \in {"index", "find", "arrow-nodes"}
         /\ \/ proc'[p].pc = "idle"
            \/ proc'[p].begun = tree /\ proc'[p].began = clock
            \/ SameCommand(p)
<1>. USE DEF SameCommand
<1>. DEFINE Effect(steps) ==
       /\ Sole(p) /\ proc'[p].pc \in steps
       /\ \/ proc'[p].pc = "idle"
          \/ proc'[p].begun = tree /\ proc'[p].began = clock
          \/ SameCommand(p)
<1>. DEFINE Quiet == {"idle", "lock", "load", "compare", "discover", "stat", "read", "summary", "search", "loaded"}
<1>1. p \in Processes /\ tree' = tree /\ clock' = clock
  BY DEF Processes, Index, Command, Find, FindNode, Report, Return, Load, LoadIndex, Compare, TakeLock, GiveUp,
     Build, Discover, Stat, Read, SaveIndex, SaveSummary, SaveSearch, SkipSearch, FailBuild
<1>2. ~Busy(p)
  BY DEF Index, Command, Find, FindNode, Report, Return, Load, LoadIndex, Compare, TakeLock, GiveUp,
     Build, Discover, Stat, Read, SaveIndex, SaveSummary, SaveSearch, SkipSearch, FailBuild, At, Busy, Exporting
<1>3. ASSUME NEW kind \in Kinds, Command(p, kind) PROVE Effect({"lock", "load"})
  <2>1. /\ proc'[p] = [Idle EXCEPT !.pc = IF kind = "index" THEN "lock" ELSE "load",
                    !.kind = kind, !.begun = tree, !.began = clock, !.amid = (lock # Nobody)]
        /\ Sole(p)
    BY <1>1, <1>3 DEF Command, Core, Typed, Sole
  <2>. QED  BY <2>1, IdleProcess DEF Process
<1>4. ASSUME Find(p) \/ Report(p) \/ FindNode(p)
      PROVE  Effect({"answered"}) /\ proc'[p].kind \in {"index", "find", "arrow-nodes"}
  <2>2. CASE FindNode(p)
    BY <1>1, <2>2, FindNodeEffect
  <2>3. CASE Find(p) \/ Report(p)
    <3>1. At(p, "loaded") /\ proc[p].kind \in {"index", "find"} /\ \E contents : Answer(p, contents)
      BY <2>3 DEF Find, Report
    <3>. QED  BY <1>1, <3>1, AnswerEffect DEF At, Proceeds
  <2>. QED  BY <1>4, <2>2, <2>3
<1>5. ASSUME proc' = [proc EXCEPT ![p] = Idle] PROVE Effect({"idle"})
  BY <1>1, <1>5, IdleEffect
<1>6. ASSUME ~At(p, "idle"), NEW step, Goto(p, step) PROVE Effect({step})
  BY <1>1, <1>6, GotoEffect DEF Proceeds
<1>7. ASSUME LoadIndex(p) PROVE Effect(Quiet)
  <2>1. ~At(p, "idle")
    BY <1>7 DEF LoadIndex, At
  <2>2. CASE Goto(p, Stale(p))
    BY <1>6, <2>1, <2>2 DEF Stale
  <2>3. CASE /\ index # Nobody
             /\ proc' = [proc EXCEPT ![p].pc = "compare", ![p].held = index, ![p].walk = Present(tree)]
    BY <1>1, <2>1, <2>3, LoadEffect DEF Proceeds
  <2>. QED  BY <1>7, <2>2, <2>3 DEF LoadIndex
<1>8. ASSUME Compare(p) PROVE Effect(Quiet)
  <2>1. ~At(p, "idle") /\ proc[p].pc = "compare"
    BY <1>8 DEF Compare, At
  <2>2. CASE Goto(p, "loaded")
    BY <1>6, <2>1, <2>2
  <2>3. ASSUME NEW f, proc' = [proc EXCEPT ![p].walk = @ \ {f}] PROVE Effect(Quiet)
    BY <1>1, <2>1, <2>3, CompareEffect DEF Proceeds
  <2>4. CASE Reconsider(p)
    BY <1>1, <2>1, <2>4, ReconsiderEffect DEF Stale, Proceeds
  <2>. QED  BY <1>8, <2>2, <2>3, <2>4 DEF Compare
<1>9. ASSUME TakeLock(p) \/ SaveSummary(p) \/ SaveSearch(p) \/ SkipSearch(p) PROVE Effect(Quiet)
  <2>1. ~At(p, "idle") /\ \E step \in {"discover", "load", "search", "loaded"} : Goto(p, step)
    BY <1>9 DEF TakeLock, SaveSummary, SaveSearch, SkipSearch, At
  <2>. QED  BY <1>6, <2>1
<1>10. ASSUME Discover(p) \/ SaveIndex(p) PROVE Effect(Quiet)
  <2>1. ~At(p, "idle")
    BY <1>10 DEF Discover, SaveIndex, At
  <2>. QED  BY <1>1, <1>10, <2>1, DiscoverEffect, SaveIndexEffect DEF Proceeds
<1>11. ASSUME Stat(p) \/ Read(p) PROVE Effect(Quiet)
  <2>. DEFINE f == First(proc[p].walk)
  <2>1. ~At(p, "idle") /\ f \in Files
    BY <1>1, <1>11, HasFirst, ProcessTyped DEF Stat, Read, At, BuilderOK
  <2>2. ASSUME NEW record, Record(p, f, record) PROVE Effect(Quiet)
    BY <1>1, <2>1, <2>2, RecordEffect DEF Proceeds
  <2>3. ASSUME NEW stat, proc' = [proc EXCEPT ![p].pc = "read", ![p].stat = stat] PROVE Effect(Quiet)
    BY <1>1, <2>1, <2>3, ReadEffect DEF Proceeds
  <2>. HIDE DEF Effect
  <2>4. ASSUME proc' = [proc EXCEPT ![p] = Idle] PROVE Effect(Quiet)
    BY <1>5, <2>4 DEF Effect
  <2>. QED  BY <1>11, <2>2, <2>3, <2>4 DEF Stat, Read, Fail
<1>12. ASSUME Return(p) \/ GiveUp(p) \/ FailBuild(p) PROVE Effect(Quiet)
  BY <1>5, <1>12 DEF Return, GiveUp, FailBuild, Fail
<1>13. Effect(Quiet) \/ (Effect({"answered"}) /\ proc'[p].kind \in {"index", "find", "arrow-nodes"})
  <2>1. ASSUME NEW kind \in Kinds, Command(p, kind) PROVE Effect(Quiet)
    BY <1>3, <2>1
  <2>. HIDE DEF Effect
  <2>. QED  BY <1>4, <1>7, <1>8, <1>9, <1>10, <1>11, <1>12, <2>1 DEF Index, Load, Build
<1>14. proc'[p].pc \in Quiet => ~Busy(p)' /\ proc'[p].pc # "answered"
  BY DEF Busy, Exporting
<1>15. proc'[p].pc = "answered" => ~Busy(p)'
  BY DEF Busy, Exporting
<1>. HIDE DEF Quiet
<1>. QED  BY <1>1, <1>2, <1>13, <1>14, <1>15

(* A step of a command that goes on, for the stats it knows files by.      *)
LEMMA StatsProceed ==
  ASSUME NEW p \in Agents, Proceeds(p), tree' = tree,
         proc'[p].pc \in {"stat", "read", "compare"} =>
           \A f \in Files \ proc'[p].walk : Timely(p, f, proc'[p].held[f].stat),
         proc'[p].pc = "read" => Timely(p, First(proc'[p].walk), proc'[p].stat),
         proc'[p].pc \in {"summary", "search", "loaded"} \/ Busy(p)' =>
           \A f \in Files : Timely(p, f, proc'[p].held[f].stat)
  PROVE  StatsTimely(p)'
<1>1. proc'[p].begun = proc[p].begun /\ proc'[p].began = proc[p].began
  BY DEF Proceeds
<1>. QED  BY <1>1 DEF StatsTimely, Timely, At

LEMMA StatsElsewhere ==
  ASSUME NEW p \in Agents, proc'[p].pc \in {"idle", "lock", "load", "discover", "answered"}
  PROVE  StatsTimely(p)'
BY DEF StatsTimely, At, Busy, Exporting

LEMMA LoadStats ==
  ASSUME Core, Commands, NEW p \in Agents, StatsTimely(p), LoadIndex(p) \/ Compare(p)
  PROVE  StatsTimely(p)'
<1>1. /\ p \in Processes /\ tree' = tree /\ ~At(p, "idle")
      /\ \A f \in Files : Timely(p, f, tree[f])
  BY DEF Processes, LoadIndex, Compare, At, Commands, CommandOK
<1>2. ASSUME Goto(p, Stale(p)) PROVE StatsTimely(p)'
  BY <1>1, <1>2, GotoEffect, StatsElsewhere DEF Stale
<1>6. ASSUME Reconsider(p) PROVE StatsTimely(p)'
  BY <1>1, <1>6, ReconsiderEffect, StatsElsewhere DEF Stale
<1>3. ASSUME index # Nobody, Present(tree) = Present(Contents(index)),
             proc' = [proc EXCEPT ![p].pc = "compare", ![p].held = index, ![p].walk = Present(tree)]
      PROVE  StatsTimely(p)'
  <2>1. /\ Proceeds(p) /\ proc'[p].pc = "compare"
        /\ proc'[p].walk = Present(tree) /\ proc'[p].held = index
    BY <1>1, <1>3, LoadEffect
  <2>2. index \in Rows /\ Sound(index)
    BY <1>3 DEF Core, Typed
  <2>3. ASSUME NEW f \in Files \ Present(tree) PROVE index[f].stat = tree[f]
    <3>1. index[f].content = 0 /\ tree[f] = 0
      BY <1>3, <2>2, <2>3, ContentsTyped DEF Present
    <3>2. index[f].stat <= index[f].content /\ index[f].stat \in Nat
      BY <2>2 DEF Sound, Rows
    <3>. QED  BY <3>1, <3>2
  <2>4. ~Busy(p)'
    BY <2>1 DEF Busy, Exporting
  <2>. QED  BY <1>1, <2>1, <2>3, <2>4, StatsProceed
<1>4. ASSUME At(p, "compare"), proc[p].walk = {}, Goto(p, "loaded") PROVE StatsTimely(p)'
  <2>1. Proceeds(p) /\ proc'[p].pc = "loaded" /\ proc'[p].held = proc[p].held
    BY <1>1, <1>4, GotoEffect
  <2>2. \A f \in Files : Timely(p, f, proc[p].held[f].stat)
    BY <1>4 DEF StatsTimely, At
  <2>. QED  BY <1>1, <2>1, <2>2, StatsProceed
<1>5. ASSUME At(p, "compare"), NEW f \in proc[p].walk, Unchanged(p, f),
             proc' = [proc EXCEPT ![p].walk = @ \ {f}]
      PROVE  StatsTimely(p)'
  <2>1. /\ Proceeds(p) /\ proc'[p].pc = "compare"
        /\ proc'[p].walk = proc[p].walk \ {f} /\ proc'[p].held = proc[p].held
    BY <1>1, <1>5, CompareEffect DEF At
  <2>2. f \in Files /\ tree[f] = proc[p].held[f].stat
    BY <1>1, <1>5, ProcessTyped DEF Unchanged
  <2>3. \A g \in Files \ proc[p].walk : Timely(p, g, proc[p].held[g].stat)
    BY <1>5 DEF StatsTimely, At
  <2>4. ~Busy(p)'
    BY <2>1 DEF Busy, Exporting
  <2>. QED  BY <1>1, <2>1, <2>2, <2>3, <2>4, StatsProceed
<1>. QED
  <2>1. proc[p].walk # {} => First(proc[p].walk) \in proc[p].walk
    BY <1>1, HasFirst, ProcessTyped
  <2>. QED  BY <1>2, <1>3, <1>4, <1>5, <1>6, <2>1 DEF LoadIndex, Compare

LEMMA BuildStats ==
  ASSUME Core, Commands, NEW p \in Agents, StatsTimely(p), Build(p)
  PROVE  StatsTimely(p)'
<1>. DEFINE f == First(proc[p].walk)
<1>1. /\ p \in Processes /\ tree' = tree /\ ~At(p, "idle")
      /\ \A g \in Files : Timely(p, g, tree[g])
  BY DEF Processes, Build, Discover, Stat, Read, SaveIndex, SaveSummary, SaveSearch, SkipSearch,
     FailBuild, At, Commands, CommandOK
<1>2. CASE Discover(p)
  <2>1. /\ Proceeds(p) /\ proc'[p].pc = "stat"
        /\ proc'[p].walk = Present(tree) /\ proc'[p].held = NoRecords
    BY <1>1, <1>2, DiscoverEffect
  <2>2. \A g \in Files \ Present(tree) : NoRecords[g].stat = tree[g]
    BY NothingRecorded DEF Present
  <2>3. ~Busy(p)'
    BY <2>1 DEF Busy, Exporting
  <2>. QED  BY <1>1, <2>1, <2>2, <2>3, StatsProceed
<1>3. ASSUME At(p, "stat") \/ At(p, "read"), f \in Files, NEW record, Record(p, f, record),
             Timely(p, f, record.stat)
      PROVE  StatsTimely(p)'
  <2>1. /\ Proceeds(p) /\ proc'[p].pc = "stat" /\ proc'[p].walk = proc[p].walk \ {f}
        /\ \A g \in Files : proc'[p].held[g] = IF g = f THEN record ELSE proc[p].held[g]
    BY <1>1, <1>3, RecordEffect
  <2>2. \A g \in Files \ proc[p].walk : Timely(p, g, proc[p].held[g].stat)
    BY <1>3 DEF StatsTimely, At
  <2>3. ~Busy(p)'
    BY <2>1 DEF Busy, Exporting
  <2>. QED  BY <1>1, <1>3, <2>1, <2>2, <2>3, StatsProceed
<1>9. CASE FailBuild(p)
  BY <1>1, <1>9, IdleEffect, StatsElsewhere DEF FailBuild, Fail
<1>4. ASSUME Fail(p) PROVE StatsTimely(p)'
  BY <1>1, <1>4, IdleEffect, StatsElsewhere DEF Fail
<1>5. CASE Stat(p)
  <2>1. At(p, "stat") /\ f \in Files
    BY <1>1, <1>5, HasFirst, ProcessTyped DEF Stat
  <2>2. ASSUME Reusable(p, f), Record(p, f, proc[p].prev[f]) PROVE StatsTimely(p)'
    BY <1>1, <1>3, <2>1, <2>2 DEF Reusable
  <2>3. ASSUME proc' = [proc EXCEPT ![p].pc = "read", ![p].stat = tree[f]] PROVE StatsTimely(p)'
    <3>1. /\ Proceeds(p) /\ proc'[p].pc = "read" /\ proc'[p].stat = tree[f]
          /\ proc'[p].walk = proc[p].walk /\ proc'[p].held = proc[p].held
      BY <1>1, <2>3, ReadEffect
    <3>2. \A g \in Files \ proc[p].walk : Timely(p, g, proc[p].held[g].stat)
      BY <2>1 DEF StatsTimely, At
    <3>3. ~Busy(p)'
      BY <3>1 DEF Busy, Exporting
    <3>. QED  BY <1>1, <2>1, <3>1, <3>2, <3>3, StatsProceed
  <2>. QED  BY <1>4, <1>5, <2>2, <2>3 DEF Stat
<1>6. CASE Read(p)
  <2>1. At(p, "read") /\ f \in Files
    BY <1>1, <1>6, HasFirst, ProcessTyped DEF Read, At, BuilderOK
  <2>2. ASSUME Record(p, f, StatThenRead(p, f)) PROVE StatsTimely(p)'
    <3>1. Timely(p, f, StatThenRead(p, f).stat)
      BY <2>1 DEF StatsTimely, StatThenRead
    <3>. QED  BY <1>3, <2>1, <2>2, <3>1
  <2>. QED  BY <1>4, <1>6, <2>2 DEF Read
<1>7. CASE SaveIndex(p)
  <2>1. /\ Proceeds(p) /\ proc'[p].pc = "summary" /\ proc'[p].held = proc[p].held
    BY <1>1, <1>7, SaveIndexEffect
  <2>2. \A g \in Files : Timely(p, g, proc[p].held[g].stat)
    BY <1>7 DEF SaveIndex, StatsTimely, At
  <2>. QED  BY <1>1, <2>1, <2>2, StatsProceed
<1>8. CASE SaveSummary(p) \/ SaveSearch(p) \/ SkipSearch(p)
  <2>1. /\ proc[p].pc \in {"summary", "search"} /\ \E step \in {"search", "loaded"} : Goto(p, step)
    BY <1>8 DEF SaveSummary, SaveSearch, SkipSearch, At
  <2>2. Proceeds(p) /\ proc'[p].pc \in {"search", "loaded"} /\ proc'[p].held = proc[p].held
    BY <1>1, <2>1, GotoEffect
  <2>3. \A g \in Files : Timely(p, g, proc[p].held[g].stat)
    BY <2>1 DEF StatsTimely
  <2>. QED  BY <1>1, <2>2, <2>3, StatsProceed
<1>. QED  BY <1>2, <1>5, <1>6, <1>7, <1>8, <1>9 DEF Build

LEMMA IndexStats ==
  ASSUME Core, Commands, NEW p \in Agents, StatsTimely(p), Index(p)
  PROVE  StatsTimely(p)'
<1>1. p \in Processes
  BY DEF Processes
<1>2. ASSUME NEW kind \in Kinds, Command(p, kind) PROVE StatsTimely(p)'
  <2>1. proc'[p] = [Idle EXCEPT !.pc = IF kind = "index" THEN "lock" ELSE "load",
                    !.kind = kind, !.begun = tree, !.began = clock, !.amid = (lock # Nobody)]
    BY <1>1, <1>2 DEF Command, Core, Typed
  <2>2. proc'[p].pc \in {"lock", "load"}
    BY <2>1, IdleProcess DEF Process
  <2>. QED  BY <2>2, StatsElsewhere
<1>3. CASE Find(p) \/ Report(p)
  <2>1. \E contents : Answer(p, contents)
    BY <1>3 DEF Find, Report
  <2>. QED  BY <1>1, <2>1, AnswerEffect, StatsElsewhere
<1>6. CASE FindNode(p)
  BY <1>1, <1>6, FindNodeEffect, StatsElsewhere
<1>4. CASE Return(p) \/ GiveUp(p)
  BY <1>1, <1>4, IdleEffect, StatsElsewhere DEF Return, GiveUp
<1>5. CASE TakeLock(p)
  <2>1. \E step \in {"discover", "load"} : Goto(p, step)
    BY <1>5 DEF TakeLock
  <2>. QED  BY <1>1, <2>1, GotoEffect, StatsElsewhere
<1>. QED  BY <1>2, <1>3, <1>4, <1>5, <1>6, LoadStats, BuildStats DEF Index, Load

-----------------------------------------------------------------------------
(***************************************************************************)
(* What the graph knows of a file: nothing, the file, or what the parsed   *)
(* files, the cache and the processes have.                                *)
(***************************************************************************)
Known(f) == {0, tree[f], parsed[f].content}
            \cup {graph[r].parsed[f].content : r \in Processes}
            \cup {v \in Nat : cache \notin {Missing, Torn} /\ v = cache[f]}

(* A step after which nothing else is known.                               *)
NothingNew ==
  /\ \A f \in Files : /\ parsed'[f].content \in Known(f)
                      /\ \A r \in Processes : graph'[r].parsed[f].content \in Known(f)
  /\ cache' \notin {Missing, Torn} => \A f \in Files : cache'[f] \in Known(f)

LEMMA NothingNewWithoutExport ==
  ASSUME GraphCore, UNCHANGED graphVars
  PROVE  NothingNew
<1>1. parsed' = parsed /\ cache' = cache /\ graph' = graph
  BY DEF graphVars, files
<1>2. cache \notin {Missing, Torn} => \A f \in Files : cache[f] \in Nat
  BY DEF GraphCore
<1>. QED  BY <1>1, <1>2 DEF NothingNew, Known

LEMMA KnownIsOld ==
  ASSUME Core, GraphCore, NEW f \in Files, NEW v \in Known(f)
  PROVE  v \in Nat /\ v <= clock /\ (tree[f] # 0 => v <= tree[f])
<1>1. ASSUME NEW records \in Rows, Sound(records)
      PROVE  /\ records[f].content \in Nat /\ records[f].content <= clock
             /\ tree[f] # 0 => records[f].content <= tree[f]
  BY <1>1 DEF Sound, Rows
<1>2. clock \in Nat /\ tree[f] \in Nat /\ tree[f] <= clock
  BY CodeIndexAssumption DEF Core, Typed
<1>3. parsed \in Rows /\ Sound(parsed)
  BY DEF GraphCore
<1>4. \A r \in Processes : graph[r].parsed \in Rows /\ Sound(graph[r].parsed)
  BY DEF GraphCore
<1>5. cache \notin {Missing, Torn} => cache[f] <= clock /\ (tree[f] # 0 => cache[f] <= tree[f])
  BY DEF GraphCore
<1>. QED  BY <1>1, <1>2, <1>3, <1>4, <1>5 DEF Known

LEMMA KnownEra ==
  ASSUME Core, Commands, GraphCore, NEW p \in Agents, ~At(p, "idle"), Eras(p),
         NEW f \in Files, NEW v \in Known(f)
  PROVE  Era(p, f, v)
<1>1. /\ p \in Processes /\ proc[p].begun[f] \in Nat /\ proc[p].began \in Nat
  BY ProcessTyped DEF Processes, Process
<1>2. Era(p, f, 0)
  BY <1>1 DEF Era
<1>3. Era(p, f, tree[f])
  <2>1. Timely(p, f, tree[f])
    BY DEF Commands, CommandOK
  <2>. QED  BY <1>1, <2>1 DEF Timely, Era
<1>. QED  BY <1>2, <1>3 DEF Known, Eras

(* A step of one process that leaves the tree alone.                       *)
LEMMA GraphsStep ==
  ASSUME Core, Commands, GraphCore, Graphs, NEW p \in Processes, Sole(p),
         tree' = tree, NothingNew,
         p \in Agents =>
           /\ StatsTimely(p)'
           /\ \/ proc'[p].pc = "idle"
              \/ proc'[p].begun = tree /\ proc'[p].began = clock
              \/ SameCommand(p)
  PROVE  Graphs'
<1>1. SUFFICES ASSUME NEW q \in Agents PROVE StatsTimely(q)' /\ (~At(q, "idle")' => Eras(q)')
  BY DEF Graphs
<1>2. q \in Processes /\ StatsTimely(q) /\ (~At(q, "idle") => Eras(q))
  BY DEF Processes, Graphs
<1>3. StatsTimely(q)'
  <2>1. CASE q # p
    <3>1. proc'[q] = proc[q]
      BY <1>2, <2>1 DEF Sole
    <3>. QED  BY <1>2, <3>1 DEF StatsTimely, Timely, At, Busy
  <2>. QED  BY <2>1
<1>4. ASSUME proc'[q].pc # "idle",
             \A f \in Files : \A v \in Known(f) : Era(q, f, v)'
      PROVE  Eras(q)'
  BY <1>4 DEF NothingNew, Eras
<1>5. CASE ~At(q, "idle") /\ proc'[q].begun = proc[q].begun /\ proc'[q].began = proc[q].began
  <2>1. \A f \in Files : \A v \in Known(f) : Era(q, f, v)
    BY <1>2, <1>5, KnownEra
  <2>2. \A f \in Files : \A v \in Known(f) : Era(q, f, v)'
    BY <1>5, <2>1 DEF Era
  <2>. QED  BY <1>3, <1>4, <2>2 DEF At
<1>6. CASE proc'[q].begun = tree /\ proc'[q].began = clock
  <2>1. \A f \in Files : \A v \in Known(f) : Era(q, f, v)'
    BY <1>6, KnownIsOld DEF Era
  <2>. QED  BY <1>3, <1>4, <2>1 DEF At
<1>7. CASE q # p
  <2>1. proc'[q] = proc[q]
    BY <1>2, <1>7 DEF Sole
  <2>2. CASE At(q, "idle")
    BY <1>3, <2>1, <2>2 DEF At
  <2>3. CASE ~At(q, "idle")
    BY <1>5, <2>1, <2>3
  <2>. QED  BY <2>2, <2>3
<1>8. CASE q = p
  BY <1>3, <1>5, <1>6, <1>8 DEF SameCommand, At
<1>. QED  BY <1>7, <1>8

(***************************************************************************)
(* What was exported under a stat is timely, if the stat is.               *)
(***************************************************************************)
LEMMA MatchTimely ==
  ASSUME Core, Commands, NEW p \in Agents, ~At(p, "idle"), NEW f \in Files,
         NEW version \in Nat, Era(p, f, version),
         Timely(p, f, proc[p].held[f].stat), Exported(f, proc[p].held[f].stat, version)
  PROVE  Timely(p, f, version)
<1>. DEFINE stat == proc[p].held[f].stat
<1>1. /\ p \in Processes /\ proc[p].begun[f] \in Nat /\ proc[p].began \in Nat /\ tree[f] \in Nat
      /\ proc[p].held \in Rows /\ Sound(proc[p].held)
  BY ProcessTyped DEF Processes, Process, BuilderOK
<1>2. stat \in Nat /\ (tree[f] # 0 => stat <= tree[f])
  BY <1>1 DEF Sound, Rows
<1>3. proc[p].begun[f] <= proc[p].began
  BY DEF Commands, CommandOK
<1>. HIDE DEF stat
<1>4. Timely(p, f, stat) /\ Exported(f, stat, version)
  BY DEF stat
<1>5. CASE stat = 0
  BY <1>4, <1>5 DEF Exported
<1>6. CASE stat # 0 /\ version >= stat
  BY <1>1, <1>2, <1>3, <1>4, <1>6 DEF Timely, Era
<1>7. CASE stat # 0 /\ version = 0 /\ tree[f] # stat
  BY <1>1, <1>2, <1>3, <1>4, <1>7 DEF Timely
<1>. QED  BY <1>4, <1>5, <1>6, <1>7 DEF Exported

-----------------------------------------------------------------------------
(***************************************************************************)
(* A step of one process, for the files and for the exports.               *)
(***************************************************************************)
LEMMA GraphCoreStep ==
  ASSUME Core, GraphCore, NEW p \in Processes, Sole(p), tree' = tree, clock' = clock, NothingNew,
         cache' \in [Files -> Nat] \cup {Missing, Torn},
         manifest' \in [Files -> Nat] \cup {Missing, Torn},
         manifest' \notin {Missing, Torn} => \A f \in Files : manifest'[f] <= clock,
         parsed' \in Rows, Sound(parsed'),
         graph' \in [Processes -> [parsed : Rows, again : BOOLEAN]], Sound(graph'[p].parsed),
         \A q \in Processes \ {p} : graph'[q] = graph[q],
         orderly' \in BOOLEAN,
         p \in Agents => (Busy(p)' => proc'[p].kind \in {"graph", "explain"})
  PROVE  GraphCore'
<1>1. \A records : Sound(records) <=> (\A f \in Files :
         /\ records[f].stat <= records[f].content /\ records[f].content <= clock'
         /\ records[f].stat = 0 => records[f].content = 0
         /\ tree'[f] # 0 => records[f].content <= tree'[f])
  BY DEF Sound
<1>2. Sound(parsed)'
  BY <1>1 DEF Sound
<1>3. ASSUME NEW q \in Processes PROVE Sound(graph[q].parsed)'
  <2>1. Sound(graph'[q].parsed)
    BY DEF GraphCore
  <2>. QED  BY <1>1, <2>1 DEF Sound
<1>4. cache' \notin {Missing, Torn} =>
        \A f \in Files : cache'[f] <= clock' /\ (tree'[f] # 0 => cache'[f] <= tree'[f])
  BY KnownIsOld DEF NothingNew
<1>5. ASSUME NEW q \in Agents, Busy(q)' PROVE proc'[q].kind \in {"graph", "explain"}
  <2>1. CASE q # p
    <3>1. proc'[q] = proc[q]
      BY <2>1 DEF Sole, Processes
    <3>. QED  BY <1>5, <3>1 DEF GraphCore, Busy
  <2>. QED  BY <1>5, <2>1
<1>. QED  BY <1>2, <1>3, <1>4, <1>5 DEF GraphCore

LEMMA ViewStep ==
  ASSUME Viewing, NEW p \in Processes, Sole(p), tree' = tree,
         \A q \in Processes \ {p} : graph'[q] = graph[q],
         orderly' => orderly,
         (cache' = cache /\ manifest' = manifest) \/ (p \in Agents /\ Busy(p)),
         p \in Agents /\ orderly' =>
           /\ Busy(p)' /\ ~Busy(p) => \A q \in Agents \ {p} : ~Busy(q)
           /\ proc'[p].pc \notin Exporting =>
                \/ cache' = cache /\ manifest' = manifest /\ proc[p].pc \notin Exporting
                \/ FilesMatch'
           /\ ExportOK(p)'
  PROVE  Viewing'
<1>. SUFFICES ASSUME orderly'
              PROVE  /\ \A q, r \in Agents : Busy(q)' /\ Busy(r)' => q = r
                     /\ (\A q \in Agents : proc'[q].pc \notin Exporting) => FilesMatch'
                     /\ \A q \in Agents : ExportOK(q)'
  BY DEF Viewing
<1>1. /\ \A q, r \in Agents : Busy(q) /\ Busy(r) => q = r
      /\ (\A q \in Agents : proc[q].pc \notin Exporting) => FilesMatch
      /\ \A q \in Agents : ExportOK(q)
  BY DEF Viewing
<1>2. \A q \in Agents \ {p} : q \in Processes /\ proc'[q] = proc[q] /\ graph'[q] = graph[q]
  BY DEF Sole, Processes
<1>3. \A q \in Agents \ {p} : Busy(q)' <=> Busy(q)
  BY <1>2 DEF Busy
<1>4. \A q, r \in Agents : Busy(q)' /\ Busy(r)' => q = r
  BY <1>1, <1>3
<1>5. FilesMatch /\ cache' = cache /\ manifest' = manifest => FilesMatch'
  BY DEF FilesMatch, Exported
<1>6. ASSUME \A q \in Agents : proc'[q].pc \notin Exporting PROVE FilesMatch'
  <2>1. CASE p \notin Agents
    BY <1>1, <1>2, <1>5, <1>6, <2>1
  <2>2. CASE p \in Agents
    BY <1>1, <1>2, <1>5, <1>6, <2>2
  <2>. QED  BY <2>1, <2>2
<1>7. ASSUME NEW q \in Agents, q # p PROVE ExportOK(q)'
  <2>1. proc'[q] = proc[q] /\ graph'[q] = graph[q] /\ ExportOK(q)
    BY <1>1, <1>2, <1>7
  <2>2. \A f, v : Timely(q, f, v)' <=> Timely(q, f, v)
    BY <2>1 DEF Timely
  <2>3. \A f, s, v : Exported(f, s, v)' <=> Exported(f, s, v)
    BY DEF Exported
  <2>4. CASE cache' = cache
    BY <2>1, <2>2, <2>3, <2>4 DEF ExportOK, At, Timely, Exported
  <2>5. CASE ~Busy(q)
    BY <2>1, <2>2, <2>5 DEF ExportOK, At, Busy, Exporting, Timely
  <2>. QED  BY <1>1, <1>7, <2>4, <2>5
<1>. QED  BY <1>4, <1>6, <1>7

(* All that holds of the graph.                                            *)
View == GraphCore /\ Graphs /\ Viewing

LEMMA GraphData ==
  ASSUME GraphCore, NEW p \in Processes
  PROVE  /\ cache \in [Files -> Nat] \cup {Missing, Torn}
         /\ manifest \in [Files -> Nat] \cup {Missing, Torn}
         /\ manifest \notin {Missing, Torn} => \A f \in Files : manifest[f] <= clock
         /\ parsed \in Rows /\ Sound(parsed)
         /\ graph \in [Processes -> [parsed : Rows, again : BOOLEAN]]
         /\ graph[p].parsed \in Rows /\ graph[p].again \in BOOLEAN
         /\ Sound(graph[p].parsed) /\ orderly \in BOOLEAN
BY DEF GraphCore

(* The steps of others than the commands that export.                      *)
LEMMA IndexView ==
  ASSUME Core, Commands, View, NEW p \in Agents, Index(p), UNCHANGED graphVars
  PROVE  View'
<1>1. /\ p \in Processes /\ cache' = cache /\ parsed' = parsed /\ manifest' = manifest
      /\ graph' = graph /\ orderly' = orderly
  BY DEF Processes, graphVars, files
<1>2. /\ tree' = tree /\ clock' = clock /\ Sole(p) /\ ~Busy(p) /\ ~Busy(p)'
      /\ proc'[p].pc = "answered" => proc'[p].kind \in {"index", "find", "arrow-nodes"}
      /\ \/ proc'[p].pc = "idle"
         \/ proc'[p].begun = tree /\ proc'[p].began = clock
         \/ SameCommand(p)
  BY IndexEffect
<1>3. NothingNew
  BY NothingNewWithoutExport DEF View
<1>4. GraphCore'
  BY <1>1, <1>2, <1>3, GraphData, GraphCoreStep DEF View
<1>5. Graphs'
  BY <1>1, <1>2, <1>3, IndexStats, GraphsStep DEF View, Graphs
<1>6. ExportOK(p)'
  <2>1. proc'[p].pc \notin Exporting /\ proc'[p].pc # "load_cache"
    BY <1>2 DEF Busy
  <2>2. ~(At(p, "answered") /\ proc[p].kind \in {"graph", "explain"})'
    BY <1>2 DEF At
  <2>3. proc'[p].pc \notin {"save_parsed", "open_manifest", "fill_manifest"}
    BY <2>1 DEF Exporting
  <2>. QED  BY <2>1, <2>2, <2>3 DEF ExportOK, At
<1>7. Viewing'
  BY <1>1, <1>2, <1>6, ViewStep DEF View, Busy
<1>. QED  BY <1>4, <1>5, <1>7 DEF View

LEMMA WatcherView ==
  ASSUME Core, Commands, View, NEW w \in Watchers, Watch(w) \/ Load(w) \/ GiveUp(w) \/ Build(w),
         UNCHANGED graphVars
  PROVE  View'
<1>1. /\ w \in Processes /\ w \notin Agents /\ cache' = cache /\ parsed' = parsed
      /\ manifest' = manifest /\ graph' = graph /\ orderly' = orderly
  BY CodeIndexAssumption DEF Processes, graphVars, files
<1>2. tree' = tree /\ clock' = clock
  BY DEF Watch, Wake, Drain, Reindex, Reindexed, Load, LoadIndex, Compare, TakeLock, GiveUp,
     Build, Discover, Stat, Read, SaveIndex, SaveSummary, SaveSearch, SkipSearch, FailBuild
<1>3. Sole(w)
  <2>1. proc \in [Processes -> Process]
    BY DEF Core, Typed
  <2>2. CASE Watch(w) \/ GiveUp(w)
    BY <2>1, <2>2 DEF Watch, Wake, Drain, Reindex, Reindexed, Goto, GiveUp, Sole
  <2>3. CASE Load(w)
    BY <2>1, <2>3 DEF Load, LoadIndex, Compare, Reconsider, TakeLock, Goto, Sole
  <2>4. CASE Discover(w) \/ SaveIndex(w) \/ SaveSummary(w) \/ SaveSearch(w) \/ SkipSearch(w)
    BY <2>1, <2>4 DEF Discover, SaveIndex, SaveSummary, SaveSearch, SkipSearch, Goto, Sole
  <2>5. ASSUME NEW f, NEW record, Record(w, f, record) PROVE Sole(w)
    BY <2>1, <2>5 DEF Record, Sole
  <2>6. CASE Stat(w) \/ Read(w)
    BY <2>1, <2>5, <2>6 DEF Stat, Read, Fail, Sole
  <2>7. CASE FailBuild(w)
    BY <2>1, <2>7 DEF FailBuild, Fail, Sole
  <2>. QED  BY <2>2, <2>3, <2>4, <2>6, <2>7 DEF Build
<1>4. NothingNew
  BY NothingNewWithoutExport DEF View
<1>5. GraphCore'
  BY <1>1, <1>2, <1>3, <1>4, GraphData, GraphCoreStep DEF View
<1>6. Graphs'
  BY <1>1, <1>2, <1>3, <1>4, GraphsStep DEF View
<1>7. Viewing'
  BY <1>1, <1>2, <1>3, ViewStep DEF View
<1>. QED  BY <1>5, <1>6, <1>7 DEF View

-----------------------------------------------------------------------------
(***************************************************************************)
(* The commands that export.                                               *)
(***************************************************************************)
(* A process goes on with an export, or with what was exported.            *)
Exports(p, step) ==
  /\ Proceeds(p) /\ proc'[p].pc = step /\ proc'[p].held = proc[p].held
  /\ ~At(p, "idle") /\ proc[p].kind \in {"graph", "explain"}
  /\ proc[p].pc = "loaded" \/ Busy(p)

LEMMA GotoExports ==
  ASSUME Core, GraphCore, NEW p \in Agents, NEW step \in Exporting \cup {"load_cache"}, Goto(p, step),
         Busy(p) \/ (At(p, "loaded") /\ proc[p].kind \in {"graph", "explain"}),
         UNCHANGED <<tree, clock, artifacts, lock, watch, counts>>
  PROVE  Exports(p, step) /\ Core'
<1>1. p \in Processes /\ ~At(p, "idle") /\ proc[p].kind \in {"graph", "explain"}
  BY DEF Processes, At, Busy, Exporting, GraphCore
<1>2. step \in Steps /\ step \notin Building /\ step \notin {"read", "summary", "search"}
  BY DEF Exporting, Steps, Building
<1>3. Core'
  BY <1>1, <1>2, GotoCore DEF counts, watch, Core, Typed
<1>. QED  BY <1>1, <1>3, GotoEffect DEF Exports, At

LEMMA ExportsCommands ==
  ASSUME Core, Commands, NEW p \in Agents, NEW step \in Exporting \cup {"load_cache"}, Exports(p, step),
         tree' = tree, clock' = clock, index' = index
  PROVE  Commands'
<1>1. step \notin {"stat", "read", "summary", "search", "compare", "loaded", "answered"}
  BY DEF Exporting
<1>2. ASSUME NEW q \in Agents PROVE BuildsTimely(q, p)'
  BY <1>1 DEF Exports, BuildsTimely
<1>. QED  BY <1>1, <1>2, ProceedCommands DEF Exports, Processes

LEMMA ExportsStats ==
  ASSUME NEW p \in Agents, NEW step \in Exporting \cup {"load_cache"}, Exports(p, step),
         tree' = tree, StatsTimely(p)
  PROVE  /\ StatsTimely(p)'
         /\ \A f \in Files : Timely(p, f, proc[p].held[f].stat)
<1>1. \A f \in Files : Timely(p, f, proc[p].held[f].stat)
  BY DEF Exports, StatsTimely
<1>2. step \notin {"stat", "read", "compare"}
  BY DEF Exporting
<1>. QED  BY <1>1, <1>2, StatsProceed DEF Exports

(* An export's own step, from what it does to the files beside the index.  *)
LEMMA ExportView ==
  ASSUME Core, Commands, View, NEW p \in Agents, NEW step \in Exporting \cup {"load_cache"},
         Goto(p, step), Busy(p) \/ (At(p, "loaded") /\ proc[p].kind \in {"graph", "explain"}),
         UNCHANGED <<tree, clock, artifacts, lock, watch, counts>>, NothingNew,
         cache' \in [Files -> Nat] \cup {Missing, Torn},
         manifest' \in [Files -> Nat] \cup {Missing, Torn},
         manifest' \notin {Missing, Torn} => \A f \in Files : manifest'[f] <= clock,
         parsed' \in Rows, Sound(parsed'),
         graph' \in [Processes -> [parsed : Rows, again : BOOLEAN]], Sound(graph'[p].parsed),
         \A q \in Processes \ {p} : graph'[q] = graph[q],
         orderly' \in BOOLEAN, orderly' => orderly,
         (cache' = cache /\ manifest' = manifest) \/ Busy(p),
         orderly' /\ ~Busy(p) => \A q \in Agents \ {p} : ~Busy(q),
         orderly' =>
           /\ step \notin Exporting =>
                \/ cache' = cache /\ manifest' = manifest /\ proc[p].pc \notin Exporting
                \/ FilesMatch'
           /\ ExportOK(p)'
  PROVE  Core' /\ Commands' /\ View'
<1>1. Exports(p, step) /\ Core' /\ p \in Processes
  BY GotoExports DEF View, Processes
<1>2. tree' = tree /\ clock' = clock /\ index' = index
  BY DEF artifacts
<1>3. Commands'
  BY <1>1, <1>2, ExportsCommands
<1>4. StatsTimely(p)'
  BY <1>1, <1>2, ExportsStats DEF View, Graphs
<1>5. Sole(p) /\ Proceeds(p) /\ ~At(p, "idle") /\ proc'[p].kind \in {"graph", "explain"}
      /\ proc'[p].pc = step
  BY <1>1 DEF Exports, Proceeds
<1>6. GraphCore'
  BY <1>1, <1>2, <1>5, GraphCoreStep DEF View
<1>7. Graphs'
  BY <1>1, <1>2, <1>4, <1>5, GraphsStep DEF View, SameCommand, Proceeds
<1>8. Viewing'
  BY <1>1, <1>2, <1>5, ViewStep DEF View
<1>. QED  BY <1>1, <1>3, <1>6, <1>7, <1>8 DEF View

LEMMA StillKnown ==
  ASSUME GraphCore
  PROVE  /\ \A f \in Files : parsed[f].content \in Known(f)
         /\ \A f \in Files, r \in Processes : graph[r].parsed[f].content \in Known(f)
         /\ cache \notin {Missing, Torn} => \A f \in Files : cache[f] \in Known(f)
<1>1. cache \notin {Missing, Torn} => \A f \in Files : cache[f] \in Nat
  BY DEF GraphCore
<1>. QED  BY <1>1 DEF Known

(* The cache that a command may load is of its time.                       *)
LEMMA CacheIsTimely ==
  ASSUME Core, Commands, View, NEW p \in Agents, ~At(p, "idle"),
         \A f \in Files : Timely(p, f, proc[p].held[f].stat),
         cache \in [Files -> Nat],
         \A f \in Files : Exported(f, proc[p].held[f].stat, cache[f])
  PROVE  \A f \in Files : Timely(p, f, cache[f])
<1>1. cache \notin {Missing, Torn}
  BY CodeViewAssumption
<1>2. Eras(p)
  BY DEF View, Graphs
<1>3. \A f \in Files : Era(p, f, cache[f]) /\ cache[f] \in Nat
  BY <1>1, <1>2 DEF Eras
<1>. QED  BY <1>3, MatchTimely

LEMMA FingerprintData ==
  ASSUME Core, NEW p \in Processes
  PROVE  /\ Fingerprint(proc[p].held) \in [Files -> Nat]
         /\ \A f \in Files : Fingerprint(proc[p].held)[f] = proc[p].held[f].stat
         /\ \A f \in Files : proc[p].held[f].stat <= clock
<1>1. proc[p].held \in Rows /\ Sound(proc[p].held) /\ clock \in Nat
  BY ProcessTyped DEF BuilderOK
<1>2. \A f \in Files : proc[p].held[f].stat <= clock
  BY <1>1 DEF Rows, Sound
<1>. QED  BY <1>1, <1>2 DEF Fingerprint, Rows

LEMMA EnsureView ==
  ASSUME Core, Commands, View, NEW p \in Agents, Ensure(p)
  PROVE  Core' /\ Commands' /\ View'
<1>1. PICK step \in {"parse", "load_cache"} :
        step = (IF Refresh(p) THEN "parse" ELSE "load_cache") /\ Goto(p, step)
  BY DEF Ensure
<1>2. /\ p \in Processes /\ At(p, "loaded") /\ proc[p].kind \in {"graph", "explain"}
      /\ UNCHANGED <<tree, clock, artifacts, lock, watch, counts>>
      /\ cache' = cache /\ parsed' = parsed /\ manifest' = manifest /\ graph' = graph
      /\ orderly' = (orderly /\ Alone(p)) /\ GraphCore /\ step \in Exporting \cup {"load_cache"}
  BY DEF Ensure, files, Processes, View, Exporting
<1>3. Exports(p, step) /\ tree' = tree /\ orderly \in BOOLEAN
  BY <1>1, <1>2, GotoExports, GraphData
<1>4. NothingNew
  BY <1>2, StillKnown DEF NothingNew
<1>5. Alone(p) => \A q \in Agents \ {p} : ~Busy(q)
  BY DEF Alone, Busy, Processes
<1>6. proc[p].pc \notin Exporting /\ ~Busy(p)
  BY <1>2 DEF At, Busy, Exporting
<1>7. ASSUME orderly, Alone(p) PROVE ExportOK(p)'
  <2>1. CASE step = "parse"
    BY <1>3, <2>1 DEF Exports, ExportOK, At
  <2>2. CASE step = "load_cache"
    <3>1. FilesMatch
      BY <1>5, <1>6, <1>7 DEF View, Viewing, Busy
    <3>2. ~Refresh(p)
      BY <1>1, <2>2
    <3>3. /\ cache \in [Files -> Nat] /\ manifest \in [Files -> Nat] /\ manifest # Missing
          /\ \A f \in Files : Exported(f, manifest[f], cache[f])
      BY <1>2, <3>1, <3>2, CodeViewAssumption DEF FilesMatch, Refresh
    <3>4. manifest = Fingerprint(proc[p].held)
      BY <3>2, <3>3 DEF Refresh, RefreshReason
    <3>5. \A f \in Files : Timely(p, f, proc[p].held[f].stat)
      BY <1>2, <1>3, ExportsStats DEF View, Graphs
    <3>6. \A f \in Files : Timely(p, f, cache[f])
      BY <1>2, <1>3, <3>3, <3>4, <3>5, CacheIsTimely, FingerprintData DEF Exports
    <3>7. \A f \in Files : Timely(p, f, cache[f])'
      BY <1>2, <1>3, <3>6 DEF Exports, Proceeds, Timely
    <3>. QED  BY <1>2, <1>3, <2>2, <3>3, <3>7 DEF Exports, ExportOK, At, Exporting
  <2>. QED  BY <2>1, <2>2
<1>. QED
  <2>1. orderly' \in BOOLEAN /\ (orderly' => orderly /\ Alone(p))
    BY <1>2, <1>3 DEF Alone
  <2>. QED  BY <1>1, <1>2, <1>4, <1>5, <1>6, <1>7, <2>1, GraphData, ExportView

LEMMA ParseView ==
  ASSUME Core, Commands, View, NEW p \in Agents, Parse(p)
  PROVE  Core' /\ Commands' /\ View'
<1>. DEFINE records == [f \in Files |-> ParsedFile(p, f)]
<1>1. /\ p \in Processes /\ At(p, "parse") /\ Goto(p, "open_cache")
      /\ UNCHANGED <<tree, clock, artifacts, lock, watch, counts>>
      /\ cache' = cache /\ parsed' = parsed /\ manifest' = manifest /\ orderly' = orderly
      /\ graph' = [graph EXCEPT ![p].parsed = records]
      /\ GraphCore /\ Busy(p) /\ "open_cache" \in Exporting \cup {"load_cache"}
  BY DEF Parse, files, Processes, View, Exporting, Busy, At
<1>2. Exports(p, "open_cache") /\ tree' = tree /\ clock \in Nat
  BY <1>1, GotoExports, ProcessTyped
<1>3. /\ parsed \in Rows /\ Sound(parsed) /\ proc[p].held \in Rows /\ Sound(proc[p].held)
      /\ graph \in [Processes -> [parsed : Rows, again : BOOLEAN]]
  BY <1>1, GraphData, ProcessTyped DEF BuilderOK
<1>4. ASSUME NEW f \in Files
      PROVE  /\ records[f] \in [stat : Nat, content : Nat]
             /\ records[f].stat <= records[f].content /\ records[f].content <= clock
             /\ records[f].stat = 0 => records[f].content = 0
             /\ tree[f] # 0 => records[f].content <= tree[f]
             /\ records[f].content \in {0, tree[f], parsed[f].content}
             /\ Exported(f, proc[p].held[f].stat, records[f].content)
  <2>. DEFINE stat == proc[p].held[f].stat
  <2>1. /\ tree[f] \in Nat /\ tree[f] <= clock /\ stat \in Nat /\ (tree[f] # 0 => stat <= tree[f])
        /\ parsed[f] \in [stat : Nat, content : Nat]
    BY <1>1, <1>3, ProcessTyped DEF Rows, Sound
  <2>2. /\ parsed[f].stat <= parsed[f].content /\ parsed[f].content <= clock
        /\ parsed[f].stat = 0 => parsed[f].content = 0
        /\ tree[f] # 0 => parsed[f].content <= tree[f]
    BY <1>3 DEF Sound
  <2>3. records[f] = ParsedFile(p, f) /\ (Reparsed(p, f) <=> parsed[f].stat = stat)
    BY DEF Reparsed
  <2>. HIDE DEF records
  <2>4. CASE stat = 0 \/ (~Reparsed(p, f) /\ tree[f] = 0)
    <3>1. records[f] = NoRecord
      BY <2>3, <2>4 DEF ParsedFile
    <3>. QED  BY <1>2, <2>1, <2>4, <3>1 DEF NoRecord, Exported
  <2>5. CASE stat # 0 /\ Reparsed(p, f)
    <3>1. records[f] = [parsed[f] EXCEPT !.stat = stat]
      BY <2>3, <2>5 DEF ParsedFile
    <3>2. records[f].stat = stat /\ records[f].content = parsed[f].content
          /\ records[f] \in [stat : Nat, content : Nat]
      BY <2>1, <3>1
    <3>. QED  BY <2>1, <2>2, <2>3, <2>5, <3>2 DEF Exported
  <2>6. CASE stat # 0 /\ ~Reparsed(p, f) /\ tree[f] # 0
    <3>1. records[f] = [stat |-> stat, content |-> tree[f]]
      BY <2>3, <2>6 DEF ParsedFile
    <3>. QED  BY <2>1, <2>6, <3>1 DEF Exported
  <2>. QED  BY <2>4, <2>5, <2>6
<1>5. records \in Rows /\ Sound(records)
  <2>1. records \in Rows
    BY <1>4 DEF Rows
  <2>. QED  BY <1>4, <2>1 DEF Sound
<1>. HIDE DEF records
<1>6. /\ graph' \in [Processes -> [parsed : Rows, again : BOOLEAN]] /\ graph'[p].parsed = records
      /\ \A q \in Processes \ {p} : graph'[q] = graph[q]
  BY <1>1, <1>3, <1>5
<1>7. NothingNew
  <2>1. \A f \in Files : records[f].content \in Known(f)
    BY <1>4 DEF Known
  <2>. QED  BY <1>1, <1>6, <2>1, StillKnown DEF NothingNew
<1>8. ExportOK(p)'
  <2>1. /\ proc'[p].pc = "open_cache" /\ proc'[p].held = proc[p].held /\ tree' = tree
        /\ graph'[p].parsed = records
    BY <1>1, <1>2, <1>6 DEF Exports
  <2>2. \A f \in Files : Exported(f, proc[p].held[f].stat, graph[p].parsed[f].content)'
    BY <1>4, <2>1 DEF Exported
  <2>. QED  BY <2>1, <2>2 DEF ExportOK, At
<1>. QED
  BY <1>1, <1>3, <1>5, <1>6, <1>7, <1>8, GraphData, ExportView

(* What the exporter has behind it, when exports are orderly.              *)
LEMMA Exporter ==
  ASSUME Core, View, NEW p \in Agents, NEW step \in Exporting, At(p, step), orderly, step # "parse"
  PROVE  /\ \A f \in Files : Exported(f, proc[p].held[f].stat, graph[p].parsed[f].content)
         /\ step \in {"save_parsed", "open_manifest", "fill_manifest"} =>
              cache = Contents(graph[p].parsed)
BY DEF View, Viewing, ExportOK, At

(* A step of the exporter that another follows.                            *)
LEMMA ExporterGoesOn ==
  ASSUME Core, View, NEW p \in Agents, NEW step \in Exporting, At(p, step), step # "parse",
         NEW next \in Exporting, Exports(p, next), next # "parse",
         tree' = tree, graph' = graph, orderly' => orderly,
         orderly /\ next \in {"save_parsed", "open_manifest", "fill_manifest"} =>
           cache' = Contents(graph[p].parsed)
  PROVE  orderly' => ExportOK(p)'
<1>. SUFFICES ASSUME orderly' PROVE ExportOK(p)'
  OBVIOUS
<1>1. proc'[p].pc = next /\ proc'[p].held = proc[p].held
  BY DEF Exports
<1>2. next # "load_cache" /\ next # "answered"
  BY DEF Exporting
<1>3. \A f \in Files : Exported(f, proc[p].held[f].stat, graph[p].parsed[f].content)'
  <2>1. \A f \in Files : Exported(f, proc[p].held[f].stat, graph[p].parsed[f].content)
    BY Exporter
  <2>. QED  BY <1>1, <2>1 DEF Exported
<1>4. next \in {"save_parsed", "open_manifest", "fill_manifest"} =>
        cache' = Contents(graph'[p].parsed)
  OBVIOUS
<1>5. Contents(graph[p].parsed)' = Contents(graph'[p].parsed)
  BY DEF Contents
<1>. QED  BY <1>1, <1>2, <1>3, <1>4, <1>5 DEF ExportOK, At

LEMMA CacheView ==
  ASSUME Core, Commands, View, NEW p \in Agents, OpenCache(p) \/ FillCache(p)
  PROVE  Core' /\ Commands' /\ View'
<1>1. /\ p \in Processes /\ tree' = tree /\ UNCHANGED <<tree, clock, artifacts, lock, watch, counts>>
      /\ parsed' = parsed /\ manifest' = manifest /\ graph' = graph /\ orderly' = orderly /\ GraphCore
  BY DEF OpenCache, FillCache, Processes, View
<1>2. PICK step \in {"open_cache", "fill_cache"}, next \in {"fill_cache", "save_parsed"} :
        /\ At(p, step) /\ Goto(p, next)
        /\ \/ cache' = Torn /\ next = "fill_cache"
           \/ cache' = Contents(graph[p].parsed)
  BY DEF OpenCache, FillCache
<1>3. /\ step \in Exporting /\ step # "parse" /\ next \in Exporting /\ next # "parse" /\ Busy(p)
      /\ next \in Exporting \cup {"load_cache"}
  BY <1>2 DEF Exporting, At, Busy
<1>4. Exports(p, next)
  BY <1>1, <1>2, <1>3, GotoExports
<1>5. graph[p].parsed \in Rows
  BY <1>1, GraphData
<1>6. cache' \in [Files -> Nat] \cup {Missing, Torn}
  BY <1>2, <1>5, ContentsTyped
<1>7. NothingNew
  <2>1. cache' \notin {Missing, Torn} => \A f \in Files : cache'[f] = graph[p].parsed[f].content
    BY <1>2, <1>5, ContentsTyped
  <2>. QED  BY <1>1, <2>1, StillKnown DEF NothingNew
<1>8. orderly' => ExportOK(p)'
  BY <1>1, <1>2, <1>3, <1>4, ExporterGoesOn
<1>9. /\ parsed \in Rows /\ Sound(parsed) /\ orderly \in BOOLEAN /\ Sound(graph[p].parsed)
      /\ graph \in [Processes -> [parsed : Rows, again : BOOLEAN]]
      /\ manifest \in [Files -> Nat] \cup {Missing, Torn}
      /\ manifest \notin {Missing, Torn} => \A f \in Files : manifest[f] <= clock
  BY <1>1, GraphData
<1>. QED  BY <1>1, <1>2, <1>3, <1>6, <1>7, <1>8, <1>9, ExportView

LEMMA SaveParsedView ==
  ASSUME Core, Commands, View, NEW p \in Agents, SaveParsed(p)
  PROVE  Core' /\ Commands' /\ View'
<1>1. /\ p \in Processes /\ tree' = tree /\ UNCHANGED <<tree, clock, artifacts, lock, watch, counts>>
      /\ cache' = cache /\ manifest' = manifest /\ graph' = graph /\ orderly' = orderly /\ GraphCore
      /\ parsed' \in {parsed, graph[p].parsed} /\ At(p, "save_parsed") /\ Goto(p, "open_manifest")
  BY DEF SaveParsed, Processes, View
<1>2. /\ "save_parsed" \in Exporting /\ "open_manifest" \in Exporting /\ Busy(p)
      /\ "open_manifest" \in Exporting \cup {"load_cache"}
  BY <1>1 DEF Exporting, At, Busy
<1>3. Exports(p, "open_manifest")
  BY <1>1, <1>2, GotoExports
<1>4. orderly' => ExportOK(p)'
  BY <1>1, <1>2, <1>3, Exporter, ExporterGoesOn
<1>5. NothingNew
  BY <1>1, StillKnown DEF NothingNew
<1>6. /\ graph[p].parsed \in Rows /\ Sound(graph[p].parsed) /\ orderly \in BOOLEAN
      /\ parsed' \in Rows /\ Sound(parsed')
      /\ graph \in [Processes -> [parsed : Rows, again : BOOLEAN]]
      /\ cache \in [Files -> Nat] \cup {Missing, Torn}
      /\ manifest \in [Files -> Nat] \cup {Missing, Torn}
      /\ manifest \notin {Missing, Torn} => \A f \in Files : manifest[f] <= clock
  BY <1>1, GraphData
<1>. QED  BY <1>1, <1>2, <1>4, <1>5, <1>6, ExportView

LEMMA OpenManifestView ==
  ASSUME Core, Commands, View, NEW p \in Agents, OpenManifest(p)
  PROVE  Core' /\ Commands' /\ View'
<1>1. /\ p \in Processes /\ tree' = tree /\ UNCHANGED <<tree, clock, artifacts, lock, watch, counts>>
      /\ cache' = cache /\ parsed' = parsed /\ graph' = graph /\ orderly' = orderly /\ GraphCore
      /\ manifest' = Torn /\ At(p, "open_manifest") /\ Goto(p, "fill_manifest")
  BY DEF OpenManifest, Processes, View
<1>2. /\ "open_manifest" \in Exporting /\ "fill_manifest" \in Exporting /\ Busy(p)
      /\ "fill_manifest" \in Exporting \cup {"load_cache"}
  BY <1>1 DEF Exporting, At, Busy
<1>3. Exports(p, "fill_manifest")
  BY <1>1, <1>2, GotoExports
<1>4. orderly' => ExportOK(p)'
  BY <1>1, <1>2, <1>3, Exporter, ExporterGoesOn
<1>5. NothingNew
  BY <1>1, StillKnown DEF NothingNew
<1>6. /\ parsed \in Rows /\ Sound(parsed) /\ Sound(graph[p].parsed) /\ orderly \in BOOLEAN
      /\ graph \in [Processes -> [parsed : Rows, again : BOOLEAN]]
      /\ cache \in [Files -> Nat] \cup {Missing, Torn}
  BY <1>1, GraphData
<1>. QED  BY <1>1, <1>2, <1>4, <1>5, <1>6, ExportView

LEMMA FillManifestView ==
  ASSUME Core, Commands, View, NEW p \in Agents, FillManifest(p)
  PROVE  Core' /\ Commands' /\ View'
<1>1. /\ p \in Processes /\ tree' = tree /\ UNCHANGED <<tree, clock, artifacts, lock, watch, counts>>
      /\ cache' = cache /\ parsed' = parsed /\ graph' = graph /\ orderly' = orderly /\ GraphCore
      /\ manifest' = Fingerprint(proc[p].held) /\ At(p, "fill_manifest") /\ Goto(p, "load_cache")
  BY DEF FillManifest, Processes, View
<1>2. /\ "fill_manifest" \in Exporting /\ Busy(p) /\ "load_cache" \notin Exporting
      /\ "load_cache" \in Exporting \cup {"load_cache"} /\ ~At(p, "idle")
  BY <1>1 DEF Exporting, At, Busy
<1>3. Exports(p, "load_cache")
  BY <1>1, <1>2, GotoExports
<1>4. NothingNew
  BY <1>1, StillKnown DEF NothingNew
<1>5. /\ parsed \in Rows /\ Sound(parsed) /\ Sound(graph[p].parsed) /\ orderly \in BOOLEAN
      /\ graph[p].parsed \in Rows
      /\ graph \in [Processes -> [parsed : Rows, again : BOOLEAN]]
      /\ cache \in [Files -> Nat] \cup {Missing, Torn}
  BY <1>1, GraphData
<1>6. /\ manifest' \in [Files -> Nat] /\ \A f \in Files : manifest'[f] <= clock
      /\ \A f \in Files : manifest'[f] = proc[p].held[f].stat
  BY <1>1, FingerprintData
<1>7. ASSUME orderly
      PROVE  /\ cache \in [Files -> Nat]
             /\ \A f \in Files : Exported(f, proc[p].held[f].stat, cache[f])
  <2>1. /\ \A f \in Files : Exported(f, proc[p].held[f].stat, graph[p].parsed[f].content)
        /\ cache = Contents(graph[p].parsed)
    BY <1>1, <1>2, <1>7, Exporter
  <2>. QED  BY <1>5, <2>1, ContentsTyped
<1>8. orderly => FilesMatch'
  <2>1. ASSUME orderly PROVE \A f \in Files : Exported(f, manifest[f], cache[f])'
    BY <1>1, <1>6, <1>7, <2>1 DEF Exported
  <2>. QED  BY <1>1, <1>6, <1>7, <2>1 DEF FilesMatch, Exported
<1>9. ASSUME orderly PROVE ExportOK(p)'
  <2>1. \A f \in Files : Timely(p, f, proc[p].held[f].stat)
    BY <1>1, <1>2, <1>3, ExportsStats DEF View, Graphs
  <2>2. \A f \in Files : Timely(p, f, cache[f])
    BY <1>2, <1>7, <1>9, <2>1, CacheIsTimely
  <2>3. \A f \in Files : Timely(p, f, cache[f])'
    BY <1>1, <1>3, <2>2 DEF Exports, Proceeds, Timely
  <2>. QED  BY <1>1, <1>2, <1>3, <1>7, <1>9, <2>3 DEF Exports, ExportOK, At
<1>. QED  BY <1>1, <1>2, <1>4, <1>5, <1>6, <1>8, <1>9, ExportView

(* Orderly exports leave a cache that can be loaded.                       *)
LEMMA CacheIsThere ==
  ASSUME View, NEW p \in Agents, At(p, "load_cache"), orderly
  PROVE  /\ cache \notin {Missing, Torn}
         /\ \A f \in Files : Timely(p, f, cache[f])
<1>1. cache \in [Files -> Nat] /\ \A f \in Files : Timely(p, f, cache[f])
  BY DEF View, Viewing, ExportOK
<1>. QED  BY <1>1, CodeViewAssumption

LEMMA NothingGraphed ==
  ASSUME Typed
  PROVE  /\ NoGraph \in [parsed : Rows, again : BOOLEAN]
         /\ Sound(NoGraph.parsed) /\ \A f \in Files : NoGraph.parsed[f].content = 0
BY NothingRecorded, NoRecordsSound DEF NoGraph

(* A process has no graph any more.                                        *)
LEMMA Forgotten ==
  ASSUME Core, GraphCore, NEW p \in Processes, graph' = [graph EXCEPT ![p] = NoGraph],
         UNCHANGED files
  PROVE  /\ graph' \in [Processes -> [parsed : Rows, again : BOOLEAN]] /\ Sound(graph'[p].parsed)
         /\ \A q \in Processes \ {p} : graph'[q] = graph[q]
         /\ NothingNew
<1>1. graph \in [Processes -> [parsed : Rows, again : BOOLEAN]] /\ Typed
  BY GraphData DEF Core
<1>2. graph'[p] = NoGraph /\ \A q \in Processes \ {p} : graph'[q] = graph[q]
  BY <1>1
<1>3. \A f \in Files : 0 \in Known(f)
  BY DEF Known
<1>. QED  BY <1>1, <1>2, <1>3, NothingGraphed, StillKnown DEF NothingNew, files

LEMMA ExportAgainView ==
  ASSUME Core, Commands, View, NEW p \in Agents, ExportAgain(p)
  PROVE  Core' /\ Commands' /\ View'
<1>1. /\ p \in Processes /\ UNCHANGED <<tree, clock, artifacts, lock, watch, counts>>
      /\ cache' = cache /\ parsed' = parsed /\ manifest' = manifest /\ orderly' = orderly
      /\ graph' = [graph EXCEPT ![p].again = TRUE] /\ At(p, "load_cache") /\ Goto(p, "parse")
      /\ GraphCore /\ Busy(p) /\ "parse" \in Exporting \cup {"load_cache"}
      /\ cache \in {Missing, Torn}
  BY DEF ExportAgain, files, Processes, View, Exporting, Busy, At
<1>2. /\ parsed \in Rows /\ Sound(parsed) /\ Sound(graph[p].parsed) /\ orderly \in BOOLEAN
      /\ graph \in [Processes -> [parsed : Rows, again : BOOLEAN]]
      /\ cache \in [Files -> Nat] \cup {Missing, Torn}
      /\ manifest \in [Files -> Nat] \cup {Missing, Torn}
      /\ manifest \notin {Missing, Torn} => \A f \in Files : manifest[f] <= clock
  BY <1>1, GraphData
<1>3. /\ graph' \in [Processes -> [parsed : Rows, again : BOOLEAN]]
      /\ graph'[p].parsed = graph[p].parsed /\ \A q \in Processes \ {p} : graph'[q] = graph[q]
  BY <1>1, <1>2
<1>4. ~orderly
  BY <1>1, CacheIsThere
<1>5. NothingNew
  BY <1>1, <1>3, StillKnown DEF NothingNew
<1>. QED  BY <1>1, <1>2, <1>3, <1>4, <1>5, ExportView

LEMMA AnswerView ==
  ASSUME Core, Commands, View, NEW p \in Agents, LoadCache(p) \/ NoCache(p)
  PROVE  Core' /\ Commands' /\ View'
<1>1. /\ p \in Processes /\ tree' = tree /\ clock' = clock /\ index' = index
      /\ UNCHANGED <<tree, clock, artifacts, lock, watch, counts>> /\ UNCHANGED files
      /\ cache' = cache /\ parsed' = parsed /\ manifest' = manifest /\ orderly' = orderly
      /\ graph' = [graph EXCEPT ![p] = NoGraph] /\ At(p, "load_cache") /\ GraphCore
      /\ Busy(p) /\ ~At(p, "idle")
  BY DEF LoadCache, NoCache, files, artifacts, Processes, View, Busy, At
<1>2. /\ parsed \in Rows /\ Sound(parsed) /\ orderly \in BOOLEAN
      /\ cache \in [Files -> Nat] \cup {Missing, Torn}
      /\ manifest \in [Files -> Nat] \cup {Missing, Torn}
      /\ manifest \notin {Missing, Torn} => \A f \in Files : manifest[f] <= clock
  BY <1>1, GraphData
<1>3. /\ graph' \in [Processes -> [parsed : Rows, again : BOOLEAN]] /\ Sound(graph'[p].parsed)
      /\ \A q \in Processes \ {p} : graph'[q] = graph[q]
      /\ NothingNew
  BY <1>1, Forgotten
<1>4. PICK contents \in [Files -> Nat] :
        Answer(p, contents) /\ (cache \notin {Missing, Torn} => contents = cache)
  <2>1. CASE LoadCache(p)
    BY <1>2, <2>1 DEF LoadCache
  <2>2. CASE NoCache(p)
    <3>1. Contents(proc[p].held) \in [Files -> Nat]
      BY <1>1, ProcessTyped, ContentsTyped
    <3>. QED  BY <2>2, <3>1 DEF NoCache
  <2>. QED  BY <2>1, <2>2
<1>5. Proceeds(p) /\ proc'[p].pc = "answered" /\ proc'[p].answer = contents
  BY <1>1, <1>4, AnswerEffect
<1>6. Sole(p) /\ ~Busy(p)' /\ proc'[p].pc \notin Exporting /\ proc[p].pc \notin Exporting
  BY <1>1, <1>5 DEF Proceeds, Busy, Exporting, At
<1>7. Core'
  BY <1>1, <1>4, AnswerCore
<1>8. proc[p].kind \in {"graph", "explain"}
  BY <1>1 DEF GraphCore
<1>9. Commands'
  <2>1. ASSUME NEW q \in Agents PROVE BuildsTimely(q, p)'
    BY <1>5 DEF BuildsTimely
  <2>. QED  BY <1>1, <1>5, <1>8, <2>1, ProceedCommands
<1>10. GraphCore'
  BY <1>1, <1>2, <1>3, <1>6, GraphCoreStep
<1>11. Graphs'
  BY <1>1, <1>3, <1>5, <1>6, StatsElsewhere, GraphsStep DEF View, SameCommand, Proceeds
<1>12. ASSUME orderly PROVE ExportOK(p)'
  <2>1. \A f \in Files : Timely(p, f, contents[f])
    BY <1>1, <1>4, <1>12, CacheIsThere
  <2>2. \A f \in Files : Timely(p, f, proc[p].answer[f])'
    BY <1>1, <1>5, <2>1 DEF Timely, Proceeds
  <2>3. proc'[p].pc \notin {"save_parsed", "open_manifest", "fill_manifest"}
    BY <1>5
  <2>. QED  BY <1>5, <1>6, <2>2, <2>3 DEF ExportOK, At
<1>13. Viewing'
  BY <1>1, <1>3, <1>6, <1>12, ViewStep DEF View
<1>. QED  BY <1>7, <1>9, <1>10, <1>11, <1>13 DEF View

(* An export that cannot write goes on without, or ends: not orderly.      *)
LEMMA FailExportView ==
  ASSUME Core, Commands, View, NEW p \in Agents, FailExport(p)
  PROVE  Core' /\ Commands' /\ View'
<1>1. /\ p \in Processes /\ tree' = tree /\ clock' = clock /\ index' = index
      /\ UNCHANGED <<tree, clock, artifacts, lock, watch, counts>> /\ UNCHANGED files
      /\ cache' = cache /\ parsed' = parsed /\ manifest' = manifest /\ orderly' = FALSE
      /\ graph' = [graph EXCEPT ![p] = NoGraph] /\ GraphCore /\ Busy(p)
  BY DEF FailExport, files, artifacts, Processes, View, Busy
<1>2. /\ parsed \in Rows /\ Sound(parsed)
      /\ cache \in [Files -> Nat] \cup {Missing, Torn}
      /\ manifest \in [Files -> Nat] \cup {Missing, Torn}
      /\ manifest \notin {Missing, Torn} => \A f \in Files : manifest[f] <= clock
  BY <1>1, GraphData
<1>3. /\ graph' \in [Processes -> [parsed : Rows, again : BOOLEAN]] /\ Sound(graph'[p].parsed)
      /\ \A q \in Processes \ {p} : graph'[q] = graph[q]
      /\ NothingNew
  BY <1>1, Forgotten
<1>4. CASE Goto(p, "load_cache")
  BY <1>1, <1>2, <1>3, <1>4, ExportView
<1>5. CASE proc' = [proc EXCEPT ![p] = Idle]
  <2>1. Sole(p) /\ proc'[p].pc = "idle" /\ ~Busy(p)' /\ proc'[p].pc \notin Exporting
    BY <1>1, <1>5, IdleEffect DEF Busy, Exporting
  <2>2. Core'
    BY <1>1, <1>5, IdleCore DEF counts, watch, Core, Typed
  <2>3. Commands'
    BY <1>1, <1>5, FailCommands
  <2>4. GraphCore'
    BY <1>1, <1>2, <1>3, <2>1, GraphCoreStep
  <2>5. Graphs'
    BY <1>1, <1>3, <2>1, StatsElsewhere, GraphsStep DEF View
  <2>6. Viewing'
    BY <1>1 DEF Viewing
  <2>. QED  BY <2>2, <2>3, <2>4, <2>5, <2>6 DEF View
<1>. QED  BY <1>4, <1>5 DEF FailExport

LEMMA DieView ==
  ASSUME Core, Commands, View, NEW p \in Agents, DieExporting(p)
  PROVE  View'
<1>1. /\ p \in Processes /\ tree' = tree /\ clock' = clock /\ UNCHANGED files
      /\ cache' = cache /\ parsed' = parsed /\ manifest' = manifest
      /\ orderly' = (orderly /\ proc[p].pc \notin Exporting)
      /\ graph' = [graph EXCEPT ![p] = NoGraph] /\ proc' = [proc EXCEPT ![p] = Idle] /\ GraphCore
  BY DEF DieExporting, Die, files, Processes, View
<1>2. /\ parsed \in Rows /\ Sound(parsed) /\ orderly \in BOOLEAN
      /\ cache \in [Files -> Nat] \cup {Missing, Torn}
      /\ manifest \in [Files -> Nat] \cup {Missing, Torn}
      /\ manifest \notin {Missing, Torn} => \A f \in Files : manifest[f] <= clock
  BY <1>1, GraphData
<1>3. /\ graph' \in [Processes -> [parsed : Rows, again : BOOLEAN]] /\ Sound(graph'[p].parsed)
      /\ \A q \in Processes \ {p} : graph'[q] = graph[q]
      /\ NothingNew
  BY <1>1, Forgotten
<1>4. Sole(p) /\ proc'[p].pc = "idle" /\ ~Busy(p)' /\ proc'[p].pc \notin Exporting
  BY <1>1, IdleEffect DEF Busy, Exporting
<1>5. GraphCore'
  BY <1>1, <1>2, <1>3, <1>4, GraphCoreStep
<1>6. Graphs'
  BY <1>1, <1>3, <1>4, StatsElsewhere, GraphsStep DEF View
<1>7. ExportOK(p)'
  BY <1>4 DEF ExportOK, At, Exporting
<1>8. Viewing'
  BY <1>1, <1>2, <1>3, <1>4, <1>7, ViewStep DEF View
<1>. QED  BY <1>5, <1>6, <1>8 DEF View

(***************************************************************************)
(* An edit.                                                                *)
(***************************************************************************)
LEMMA TouchView ==
  ASSUME Core, Commands, View, NEW f \in Files, NEW version \in {0, clock + 1}, Touch(f, version),
         UNCHANGED graphVars
  PROVE  View'
<1>1. /\ proc' = proc /\ cache' = cache /\ parsed' = parsed /\ manifest' = manifest
      /\ graph' = graph /\ orderly' = orderly /\ GraphCore
      /\ clock' = clock + 1 /\ clock \in Nat
      /\ \A g \in Files : tree'[g] = IF g = f THEN version ELSE tree[g]
  BY CodeIndexAssumption DEF Touch, graphVars, files, Core, Typed, View
<1>2. \A g \in Files : tree[g] \in Nat /\ tree[g] <= clock
  BY DEF Core, Typed
<1>3. ASSUME NEW v \in Nat, NEW g \in Files, v <= clock, tree[g] # 0 => v <= tree[g]
      PROVE  v <= clock' /\ (tree'[g] # 0 => v <= tree'[g])
  BY <1>1, <1>2, <1>3
<1>4. ASSUME NEW records \in Rows, Sound(records) PROVE Sound(records)'
  BY <1>1, <1>2, <1>3, <1>4 DEF Sound, Rows
<1>5. ASSUME NEW g \in Files, NEW stat \in Nat, stat <= clock, NEW v, Exported(g, stat, v)
      PROVE  Exported(g, stat, v)'
  BY <1>1, <1>2, <1>5 DEF Exported
<1>6. ASSUME NEW p \in Agents, ~At(p, "idle")
      PROVE  \A g \in Files, v \in Nat : Timely(p, g, v) => Timely(p, g, v)'
  <2>1. CommandOK(p) /\ p \in Processes
    BY DEF Commands, Processes
  <2>. QED  BY <1>6, <2>1, TimelyKept DEF CommandOK
<1>7. GraphCore'
  <2>1. parsed \in Rows /\ Sound(parsed)
    BY <1>1 DEF GraphCore
  <2>2. Sound(parsed)'
    BY <1>1, <1>4, <2>1
  <2>3. ASSUME NEW p \in Processes PROVE Sound(graph[p].parsed)'
    <3>1. graph[p].parsed \in Rows /\ Sound(graph[p].parsed)
      BY <1>1, GraphData
    <3>. QED  BY <1>1, <1>4, <3>1
  <2>4. ASSUME cache \notin {Missing, Torn}, NEW g \in Files
        PROVE  cache[g] <= clock' /\ (tree'[g] # 0 => cache[g] <= tree'[g])
    <3>1. cache[g] \in Nat /\ cache[g] <= clock /\ (tree[g] # 0 => cache[g] <= tree[g])
      BY <1>1, <2>4 DEF GraphCore
    <3>. QED  BY <1>3, <3>1
  <2>5. ASSUME manifest \notin {Missing, Torn}, NEW g \in Files PROVE manifest[g] <= clock'
    <3>1. manifest[g] \in Nat /\ manifest[g] <= clock
      BY <1>1, <2>5 DEF GraphCore
    <3>. QED  BY <1>1, <3>1
  <2>. QED  BY <1>1, <2>2, <2>3, <2>4, <2>5 DEF GraphCore, Busy
<1>8. ASSUME NEW p \in Agents PROVE StatsTimely(p)' /\ (~At(p, "idle")' => Eras(p)')
  <2>1. StatsTimely(p) /\ (~At(p, "idle") => Eras(p)) /\ p \in Processes
    BY DEF View, Graphs, Processes
  <2>2. CASE At(p, "idle")
    BY <1>1, <2>2, StatsElsewhere DEF At
  <2>3. CASE ~At(p, "idle")
    <3>1. /\ proc[p].held \in Rows /\ proc[p].stat \in Nat
      BY <2>1, ProcessTyped
    <3>2. \A g \in Files : Timely(p, g, proc[p].held[g].stat) => Timely(p, g, proc[p].held[g].stat)'
      BY <1>1, <1>6, <2>3, <3>1 DEF Rows
    <3>3. At(p, "read") => First(proc[p].walk) \in Files
      BY <2>1, HasFirst, ProcessTyped DEF At, BuilderOK
    <3>4. At(p, "read") /\ Timely(p, First(proc[p].walk), proc[p].stat) =>
            Timely(p, First(proc[p].walk), proc[p].stat)'
      BY <1>1, <1>6, <2>3, <3>1, <3>3
    <3>5. StatsTimely(p)'
      BY <1>1, <2>1, <3>2, <3>4 DEF StatsTimely, At, Busy
    <3>6. Eras(p)'
      BY <1>1, <2>1, <2>3 DEF Eras, Era
    <3>. QED  BY <3>5, <3>6
  <2>. QED  BY <2>2, <2>3
<1>9. Viewing'
  <2>1. SUFFICES ASSUME orderly
                 PROVE  /\ FilesMatch => FilesMatch'
                        /\ \A p \in Agents : ExportOK(p) => ExportOK(p)'
    BY <1>1 DEF View, Viewing, Busy
  <2>2. FilesMatch => FilesMatch'
    <3>1. ASSUME cache \in [Files -> Nat], manifest \in [Files -> Nat], NEW g \in Files,
                 Exported(g, manifest[g], cache[g])
          PROVE  Exported(g, manifest[g], cache[g])'
      <4>1. manifest[g] \in Nat /\ manifest[g] <= clock
        BY <1>1, <3>1, CodeViewAssumption DEF GraphCore
      <4>. QED  BY <1>1, <1>5, <3>1, <4>1
    <3>. QED  BY <1>1, <3>1 DEF FilesMatch
  <2>3. ASSUME NEW p \in Agents, ExportOK(p) PROVE ExportOK(p)'
    <3>1. /\ p \in Processes /\ proc[p].held \in Rows /\ \A g \in Files : proc[p].held[g].stat <= clock
      BY ProcessTyped, FingerprintData DEF Processes
    <3>2. \A g \in Files : Exported(g, proc[p].held[g].stat, graph[p].parsed[g].content) =>
            Exported(g, proc[p].held[g].stat, graph[p].parsed[g].content)'
      BY <1>1, <1>5, <3>1 DEF Rows
    <3>3. ASSUME At(p, "load_cache"), cache \in [Files -> Nat], NEW g \in Files, Timely(p, g, cache[g])
          PROVE  Timely(p, g, cache[g])'
      BY <1>1, <1>6, <3>3 DEF At
    <3>4. ASSUME At(p, "answered"), NEW g \in Files, Timely(p, g, proc[p].answer[g])
          PROVE  Timely(p, g, proc[p].answer[g])'
      <4>1. proc[p].answer[g] \in Nat
        BY <3>1, ProcessTyped DEF Process
      <4>. QED  BY <1>1, <1>6, <3>4, <4>1 DEF At
    <3>5. Contents(graph[p].parsed)' = Contents(graph[p].parsed)
      BY <1>1
    <3>. QED  BY <1>1, <2>3, <3>2, <3>3, <3>4, <3>5 DEF ExportOK, At
  <2>. QED  BY <2>2, <2>3
<1>. QED  BY <1>7, <1>8, <1>9 DEF View, Graphs

LEMMA ViewInitially == Init => View
<1>. SUFFICES ASSUME Init PROVE View
  OBVIOUS
<1>1. /\ \A p \in Processes : proc[p] = Idle /\ graph[p] = NoGraph
      /\ cache = Missing /\ manifest = Missing /\ parsed = NoRecords /\ orderly = TRUE
      /\ graph = [p \in Processes |-> NoGraph] /\ Core
  BY IndexInitially DEF Init, IndexInit
<1>2. \A p \in Agents : p \in Processes /\ proc[p].pc = "idle" /\ ~Busy(p)
  BY <1>1, IdleProcess DEF Processes, Busy, Exporting
<1>3. Typed
  BY <1>1 DEF Core
<1>4. GraphCore
  BY <1>1, <1>2, <1>3, NothingRecorded, NoRecordsSound, NothingGraphed DEF GraphCore
<1>5. Graphs
  BY <1>2 DEF Graphs, StatsTimely, At
<1>6. \A p \in Agents : ExportOK(p)
  BY <1>2 DEF ExportOK, At, Busy
<1>7. Viewing
  BY <1>1, <1>2, <1>6 DEF Viewing, FilesMatch
<1>. QED  BY <1>4, <1>5, <1>7 DEF View

LEMMA ViewStays ==
  Core /\ Commands /\ View /\ [Next]_vars => Core' /\ Commands' /\ View'
<1>. SUFFICES ASSUME Core, Commands, View, [Next]_vars PROVE Core' /\ Commands' /\ View'
  OBVIOUS
<1>1. CASE ((\E p \in Agents : Index(p)) \/ Others) /\ UNCHANGED graphVars
  <2>1. Core' /\ Commands'
    BY <1>1, CoreStep, CommandsStep DEF IndexNext
  <2>2. ASSUME NEW f \in Files, Edit(f) \/ Remove(f) PROVE View'
    BY <1>1, <2>2, TouchView DEF Edit, Remove
  <2>3. View'
    BY <1>1, <2>2, IndexView, WatcherView DEF Others
  <2>. QED  BY <2>1, <2>3
<1>2. ASSUME NEW p \in Agents, Export(p) PROVE Core' /\ Commands' /\ View'
  BY <1>2, EnsureView, ParseView, CacheView, SaveParsedView, OpenManifestView, FillManifestView,
     ExportAgainView, AnswerView, FailExportView DEF Export
<1>3. ASSUME NEW p \in Agents, DieExporting(p) PROVE Core' /\ Commands' /\ View'
  <2>1. IndexNext
    BY <1>3 DEF DieExporting, IndexNext
  <2>. QED  BY <1>3, <2>1, CoreStep, CommandsStep, DieView
<1>4. CASE UNCHANGED vars
  <2>1. UNCHANGED indexVars /\ UNCHANGED graphVars
    BY <1>4 DEF vars
  <2>2. Core' /\ Commands'
    BY <2>1, CoreStep, CommandsStep
  <2>3. /\ tree' = tree /\ clock' = clock /\ proc' = proc /\ cache' = cache /\ parsed' = parsed
        /\ manifest' = manifest /\ graph' = graph /\ orderly' = orderly
    BY <2>1 DEF indexVars, graphVars, files
  <2>4. GraphCore'
    BY <2>3 DEF View, GraphCore, Sound, Busy
  <2>5. Graphs'
    BY <2>3 DEF View, Graphs, StatsTimely, Timely, Eras, Era, At, Busy
  <2>6. Viewing'
    BY <2>3 DEF View, Viewing, FilesMatch, Exported, ExportOK, Timely, At, Busy
  <2>. QED  BY <2>2, <2>4, <2>5, <2>6 DEF View
<1>. QED  BY <1>1, <1>2, <1>3, <1>4 DEF Next

(* GraphIsOfItsTime: the commands that use the code graph say of a file    *)
(* what was so when they were started or came to be so while they ran, as  *)
(* long as no two exports meet and none is cut short.                      *)
THEOREM GraphAnswersAreTimely == Spec => []GraphIsOfItsTime
<1>1. Init => Core /\ Commands /\ View
  <2>1. Init => IndexInit
    BY DEF Init
  <2>2. IndexInit => Commands
    BY IdleProcess DEF IndexInit, Commands, CommandOK, At, Processes
  <2>. QED  BY <2>1, <2>2, IndexInitially, ViewInitially
<1>2. View => GraphIsOfItsTime
  BY DEF View, Viewing, ExportOK, GraphIsOfItsTime, OfItsTime, Timely
<1>. QED  BY <1>1, <1>2, ViewStays, PTL DEF Spec

=============================================================================
