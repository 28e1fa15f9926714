----------------------------- MODULE CodeIndex -----------------------------
(***************************************************************************)
(* The index of a working tree (src/indexer.rs), its summary and its       *)
(* search sidecar (src/search.rs), built by leio-code processes while the  *)
(* tree is edited, and by the watcher (src/watcher.rs) after it was.       *)
(*                                                                         *)
(* A version of a file stands for its content and for its stat (size and   *)
(* mtime): an edit changes both, and a version is not used again.  0 is a  *)
(* file that does not exist.  Of index.json's stat it only matters whether *)
(* the summary is stamped with it, and of its mtime whether search.arrow   *)
(* has a later one: two writes have distinct mtimes.  The lock is          *)
(* exclusive: SidecarLock has the cases in which it is not.                *)
(***************************************************************************)
EXTENDS Naturals, FiniteSets

CONSTANTS
  NumFiles,    \* the files the walk may find
  Agents,      \* processes that run one leio-code command after the other
  Watchers,    \* processes that run leio-code watch
  Kinds,       \* what the agents run: "index", "find", and what CodeView adds
  ArrowNodes,  \* what export arrow-nodes may have written before, of whatever time
  Nobody,      \* the lock is free; there is no index, summary or sidecar
  MaxEdits,    \* bound: the edits of the tree
  MaxCalls,    \* bound: the commands of all agents
  MaxDeaths    \* bound: the agents' processes that are killed

Files == 1 .. NumFiles
Processes == Agents \cup Watchers

ASSUME CodeIndexAssumption ==
  /\ NumFiles \in Nat
  /\ Agents \cap Watchers = {} /\ \A v, w \in Watchers : v = w
  /\ Nobody \notin Processes \cup [Files -> [stat : Nat, content : Nat]]
  /\ ArrowNodes \subseteq [Files -> Nat]
  /\ Kinds \subseteq {"index", "find", "graph", "explain"}
  /\ MaxEdits \in Nat /\ MaxCalls \in Nat /\ MaxDeaths \in Nat

VARIABLES
  tree,      \* the version of each file
  clock,     \* the latest version
  index,     \* index.json: the records
  summary,   \* index-summary.json: the files it counts, and whether its stamp is right
  search,    \* search.arrow: the contents it has, and whether it is newer than the index
  lock,      \* the process that has the lock "index"
  proc,      \* the command of each process
  queued,    \* whether the watcher's channel has events
  lapsed,    \* history: the watcher's last reindex got no lock, or failed
  woken,     \* history: the tree was edited under the watcher's eyes
  calls,     \* the commands that were started
  deaths     \* the processes that were killed

artifacts == <<index, summary, search>>
watch == <<queued, lapsed, woken>>
counts == <<calls, deaths>>
indexVars == <<tree, clock, artifacts, lock, proc, watch, counts>>

NoRecord == [stat |-> 0, content |-> 0]
NoRecords == [f \in Files |-> NoRecord]
NoContents == [f \in Files |-> 0]
Contents(records) == [f \in Files |-> records[f].content]
Present(versions) == {f \in Files : versions[f] # 0}
First(S) == CHOOSE f \in S : \A g \in S : f <= g

(***************************************************************************)
(* A command: its next step, the files left to look at, the index it had   *)
(* to reuse, the one it loads or builds, the stat it took; what it answers *)
(* from; and, as history, the tree and the clock when it was started, and  *)
(* whether an index was being built then.                                  *)
(***************************************************************************)
Idle == [pc |-> "idle", kind |-> "none", walk |-> {}, prev |-> NoRecords,
         held |-> NoRecords, stat |-> 0, answer |-> NoContents,
         begun |-> NoContents, began |-> 0, amid |-> FALSE]

IndexInit ==
  /\ tree \in [Files -> {0, 1}] /\ tree[1] = 1
  /\ clock = 1
  /\ index = Nobody /\ summary = Nobody /\ search = Nobody
  /\ lock = Nobody
  /\ proc = [p \in Processes |-> Idle]
  /\ queued = FALSE /\ lapsed = FALSE /\ woken = FALSE
  /\ calls = 0 /\ deaths = 0

At(p, step) == proc[p].pc = step
Goto(p, step) == proc' = [proc EXCEPT ![p].pc = step]

-----------------------------------------------------------------------------
(***************************************************************************)
(* The tree is edited by whoever works on it, and the watcher is told.     *)
(***************************************************************************)
Touch(f, version) ==
  /\ clock <= MaxEdits
  /\ clock' = clock + 1
  /\ tree' = [tree EXCEPT ![f] = version]
  /\ queued' = (Watchers # {})
  /\ woken' = (Watchers # {})
  /\ UNCHANGED <<artifacts, lock, proc, lapsed, counts>>

Edit(f) == Touch(f, clock + 1)
Remove(f) == tree[f] # 0 /\ Touch(f, 0)

-----------------------------------------------------------------------------
(***************************************************************************)
(* A command starts with load_or_build_index; index and audit build one    *)
(* whatever there is.                                                      *)
(***************************************************************************)
Command(p, kind) ==
  /\ At(p, "idle")
  /\ calls < MaxCalls
  /\ calls' = calls + 1
  /\ proc' = [proc EXCEPT ![p] =
       [Idle EXCEPT !.pc = IF kind = "index" THEN "lock" ELSE "load",
                    !.kind = kind, !.begun = tree, !.began = clock, !.amid = (lock # Nobody)]]
  /\ UNCHANGED <<tree, clock, artifacts, lock, watch, deaths>>

(***************************************************************************)
(* load_fresh_index: the index, unless it is too old, and unless its files *)
(* are not those that the walk finds.  It is done again under the lock.    *)
(***************************************************************************)
Stale(p) == IF lock = p THEN "discover" ELSE "lock"

Reconsider(p) ==
  proc' = [proc EXCEPT ![p].pc = Stale(p), ![p].walk = {}, ![p].held = NoRecords]

LoadIndex(p) ==
  /\ At(p, "load")
  /\ \/ Goto(p, Stale(p))
     \/ /\ index # Nobody
        /\ Present(tree) = Present(Contents(index))
        /\ proc' = [proc EXCEPT ![p].pc = "compare",
                                ![p].held = index,
                                ![p].walk = Present(tree)]
  /\ UNCHANGED <<tree, clock, artifacts, lock, watch, counts>>

(***************************************************************************)
(* is_index_stale_against_disk compares the stat of one file after the     *)
(* other.  Faulty variant: it compares nothing but the files' names.       *)
(***************************************************************************)
NamesOnly(p, f) == tree[f] # 0

Unchanged(p, f) == tree[f] = proc[p].held[f].stat

Compare(p) ==
  /\ At(p, "compare")
  /\ IF proc[p].walk = {}
     THEN Goto(p, "loaded") /\ lock' = (IF lock = p THEN Nobody ELSE lock)
     ELSE LET f == First(proc[p].walk) IN
          /\ UNCHANGED lock
          /\ IF Unchanged(p, f)
             THEN proc' = [proc EXCEPT ![p].walk = @ \ {f}]
             ELSE Reconsider(p)
  /\ UNCHANGED <<tree, clock, artifacts, watch, counts>>

(***************************************************************************)
(* acquire_lock waits for its turn, or in vain; a reindex that gets no     *)
(* lock is only logged by the watcher, as one that fails.                  *)
(***************************************************************************)
TakeLock(p) ==
  /\ At(p, "lock") /\ lock = Nobody
  /\ lock' = p
  /\ Goto(p, IF proc[p].kind \in {"index", "watch"} THEN "discover" ELSE "load")
  /\ UNCHANGED <<tree, clock, artifacts, watch, counts>>

GiveUp(p) ==
  /\ At(p, "lock") /\ lock # Nobody
  /\ proc' = [proc EXCEPT ![p] = Idle]
  /\ lapsed' = (lapsed \/ p \in Watchers)
  /\ UNCHANGED <<tree, clock, artifacts, lock, queued, woken, counts>>

-----------------------------------------------------------------------------
(***************************************************************************)
(* build_or_update_index: the walk finds the files, and each is looked up  *)
(* by its stat among the records of the previous index, or read.  A file   *)
(* that is gone by then fails the whole build; so does a directory entry,  *)
(* or a file that is no text or not readable, an environment file that     *)
(* cannot be parsed, and an index or a summary that cannot be written.     *)
(***************************************************************************)
Discover(p) ==
  /\ At(p, "discover")
  /\ proc' = [proc EXCEPT ![p].pc = "stat",
                          ![p].walk = Present(tree),
                          ![p].held = NoRecords,
                          ![p].prev = IF index = Nobody THEN NoRecords ELSE index]
  /\ UNCHANGED <<tree, clock, artifacts, lock, watch, counts>>

Record(p, f, record) ==
  proc' = [proc EXCEPT ![p].pc = "stat", ![p].walk = @ \ {f}, ![p].stat = 0,
                       ![p].held[f] = record]

Fail(p) == proc' = [proc EXCEPT ![p] = Idle] /\ lock' = Nobody

FailBuild(p) ==
  /\ proc[p].pc \in {"discover", "stat", "read", "summary"}
  /\ Fail(p)
  /\ lapsed' = (lapsed \/ p \in Watchers)
  /\ UNCHANGED <<tree, clock, artifacts, queued, woken, counts>>

(* Faulty variant: a file that was indexed once is not looked at again.    *)
OnceIndexed(p, f) == proc[p].prev[f].stat # 0

Reusable(p, f) == proc[p].prev[f].stat = tree[f]

Stat(p) ==
  /\ At(p, "stat") /\ proc[p].walk # {}
  /\ LET f == First(proc[p].walk) IN
     IF tree[f] = 0
     THEN Fail(p)
     ELSE /\ UNCHANGED lock
          /\ IF Reusable(p, f)
             THEN Record(p, f, proc[p].prev[f])
             ELSE proc' = [proc EXCEPT ![p].pc = "read", ![p].stat = tree[f]]
  /\ UNCHANGED <<tree, clock, artifacts, watch, counts>>

(* Faulty variant: the stat is taken after the content, so that the step   *)
(* at "stat" is the one that reads.                                        *)
ReadThenStat(p, f) == [stat |-> tree[f], content |-> proc[p].stat]

StatThenRead(p, f) == [stat |-> proc[p].stat, content |-> tree[f]]

Read(p) ==
  /\ At(p, "read")
  /\ LET f == First(proc[p].walk) IN
     IF tree[f] = 0
     THEN Fail(p)
     ELSE Record(p, f, StatThenRead(p, f)) /\ UNCHANGED lock
  /\ UNCHANGED <<tree, clock, artifacts, watch, counts>>

(***************************************************************************)
(* save_index_with_truncation replaces the index, then the summary with    *)
(* one that is stamped with the stat of the index file; then the search    *)
(* sidecar is replaced, and the lock goes.                                 *)
(***************************************************************************)
SaveIndex(p) ==
  /\ At(p, "stat") /\ proc[p].walk = {}
  /\ index' = proc[p].held
  /\ summary' = IF summary = Nobody THEN Nobody ELSE [summary EXCEPT !.stamped = FALSE]
  /\ search' = IF search = Nobody THEN Nobody ELSE [search EXCEPT !.newer = FALSE]
  /\ proc' = [proc EXCEPT ![p].pc = "summary", ![p].prev = NoRecords]
  /\ UNCHANGED <<tree, clock, lock, watch, counts>>

SaveSummary(p) ==
  /\ At(p, "summary")
  /\ summary' = [files |-> Present(Contents(proc[p].held)), stamped |-> TRUE]
  /\ Goto(p, "search")
  /\ UNCHANGED <<tree, clock, index, search, lock, watch, counts>>

SaveSearch(p) ==
  /\ At(p, "search")
  /\ search' = [contents |-> Contents(proc[p].held), newer |-> TRUE]
  /\ lock' = Nobody
  /\ Goto(p, "loaded")
  /\ UNCHANGED <<tree, clock, index, summary, watch, counts>>

(* A sidecar that cannot be rebuilt does not fail the build.               *)
SkipSearch(p) ==
  /\ At(p, "search")
  /\ lock' = Nobody
  /\ Goto(p, "loaded")
  /\ UNCHANGED <<tree, clock, artifacts, watch, counts>>

-----------------------------------------------------------------------------
(***************************************************************************)
(* find answers from the search sidecar, unless index.json is newer, and   *)
(* otherwise from the index it loaded.  Several words, or fca, it looks up *)
(* first in what export arrow-nodes wrote, of whatever time that was.      *)
(***************************************************************************)
SidecarIsFresh == search # Nobody /\ search.newer

Answer(p, contents) ==
  proc' = [proc EXCEPT ![p].pc = "answered", ![p].held = NoRecords, ![p].answer = contents]

Find(p) ==
  /\ At(p, "loaded") /\ proc[p].kind = "find"
  /\ Answer(p, IF SidecarIsFresh THEN search.contents ELSE Contents(proc[p].held))
  /\ UNCHANGED <<tree, clock, artifacts, lock, watch, counts>>

FindNode(p) ==
  /\ At(p, "loaded") /\ proc[p].kind = "find"
  /\ \E rows \in ArrowNodes :
       proc' = [proc EXCEPT ![p].pc = "answered", ![p].kind = "arrow-nodes",
                            ![p].held = NoRecords, ![p].answer = rows]
  /\ UNCHANGED <<tree, clock, artifacts, lock, watch, counts>>

Report(p) ==
  /\ At(p, "loaded") /\ proc[p].kind = "index"
  /\ Answer(p, Contents(proc[p].held))
  /\ UNCHANGED <<tree, clock, artifacts, lock, watch, counts>>

Return(p) ==
  /\ At(p, "answered")
  /\ proc' = [proc EXCEPT ![p] = Idle]
  /\ UNCHANGED <<tree, clock, artifacts, lock, watch, counts>>

(***************************************************************************)
(* A process is killed.  Its lock names a pid that is gone.                *)
(***************************************************************************)
Die(p) ==
  /\ p \in Agents /\ ~At(p, "idle")
  /\ deaths < MaxDeaths
  /\ deaths' = deaths + 1
  /\ proc' = [proc EXCEPT ![p] = Idle]
  /\ lock' = IF lock = p THEN Nobody ELSE lock
  /\ UNCHANGED <<tree, clock, artifacts, watch, calls>>

-----------------------------------------------------------------------------
(***************************************************************************)
(* debounce_loop takes an event, and then all that come until the deadline *)
(* is over; what comes later stays in the channel.  Then it reindexes.     *)
(***************************************************************************)
Wake(w) ==
  /\ At(w, "idle") /\ queued
  /\ queued' = FALSE
  /\ Goto(w, "debounce")
  /\ UNCHANGED <<tree, clock, artifacts, lock, lapsed, woken, counts>>

Drain(w) ==
  /\ At(w, "debounce") /\ queued
  /\ queued' = FALSE
  /\ UNCHANGED <<tree, clock, artifacts, lock, proc, lapsed, woken, counts>>

Reindex(w) ==
  /\ At(w, "debounce")
  /\ proc' = [proc EXCEPT ![w].pc = "lock", ![w].kind = "watch"]
  /\ UNCHANGED <<tree, clock, artifacts, lock, watch, counts>>

Reindexed(w) ==
  /\ At(w, "loaded") /\ proc[w].kind = "watch"
  /\ proc' = [proc EXCEPT ![w] = Idle]
  /\ lapsed' = FALSE
  /\ UNCHANGED <<tree, clock, artifacts, lock, queued, woken, counts>>

-----------------------------------------------------------------------------
Load(p) == LoadIndex(p) \/ Compare(p) \/ TakeLock(p)

Build(p) == Discover(p) \/ Stat(p) \/ Read(p) \/ SaveIndex(p) \/ SaveSummary(p)
            \/ SaveSearch(p) \/ SkipSearch(p) \/ FailBuild(p)

Watch(w) == Wake(w) \/ Drain(w) \/ Reindex(w) \/ Reindexed(w)

Index(p) == \/ \E kind \in Kinds : Command(p, kind)
            \/ Find(p) \/ FindNode(p) \/ Report(p) \/ Return(p)
            \/ Load(p) \/ GiveUp(p) \/ Build(p)

Others == \/ \E f \in Files : Edit(f) \/ Remove(f)
          \/ \E w \in Watchers : Watch(w) \/ Load(w) \/ GiveUp(w) \/ Build(w)

IndexNext == (\E p \in Agents : Index(p) \/ Die(p)) \/ Others

IndexSpec == IndexInit /\ [][IndexNext]_indexVars

-----------------------------------------------------------------------------
Versions == 0 .. clock
Records == [Files -> [stat : Versions, content : Versions]]
Steps == {"idle", "load", "compare", "lock", "discover", "stat", "read", "summary", "search",
          "loaded", "parse", "open_cache", "fill_cache", "save_parsed", "open_manifest",
          "fill_manifest", "load_cache", "answered", "debounce"}

IndexTypeOK ==
  /\ tree \in [Files -> Versions]
  /\ clock \in 1 .. MaxEdits + 1
  /\ index \in Records \cup {Nobody}
  /\ summary \in [files : SUBSET Files, stamped : BOOLEAN] \cup {Nobody}
  /\ search \in [contents : [Files -> Versions], newer : BOOLEAN] \cup {Nobody}
  /\ lock \in Processes \cup {Nobody}
  /\ \A p \in Processes : /\ proc[p].pc \in Steps
                          /\ proc[p].walk \subseteq Files
                          /\ proc[p].prev \in Records
                          /\ proc[p].held \in Records
                          /\ proc[p].stat \in Versions
  /\ queued \in BOOLEAN /\ lapsed \in BOOLEAN /\ woken \in BOOLEAN
  /\ calls \in 0 .. MaxCalls /\ deaths \in 0 .. MaxDeaths

(* What a record says of a file is at least as new as the stat it is known *)
(* by: what has the file's stat has the file's content.                    *)
Truthful(records) == \A f \in Files : /\ records[f].content >= records[f].stat
                                      /\ records[f].stat = 0 => records[f].content = 0

(* A build works under the lock.                                           *)
Building == {"discover", "stat", "read", "summary", "search"}

(* A summary that load_fresh_index_summary accepts, and a sidecar that     *)
(* find accepts, are of the index on disk, whenever a build died.          *)
FreshMeansSame ==
  index # Nobody =>
    /\ summary # Nobody /\ summary.stamped =>
         summary.files = Present(Contents(index))
    /\ SidecarIsFresh => search.contents = Contents(index)

(* An index, on disk or in a process, however it was built while files     *)
(* were edited, can be reused by stat alone; and what is taken for fresh   *)
(* beside it is of that index (load_index_if_fresh, try_open_sidecar).     *)
IndexInv ==
  /\ IndexTypeOK
  /\ FreshMeansSame
  /\ index # Nobody => Truthful(index)
  /\ \A p \in Processes : /\ Truthful(proc[p].prev) /\ Truthful(proc[p].held)
                          /\ proc[p].pc \in Building => lock = p

(* An answer is of its time: what it says of a file was true when the      *)
(* command was started, or became true while it ran.                       *)
OfItsTime(p) ==
  \A f \in Files : LET version == proc[p].answer[f] IN
    \/ version = proc[p].begun[f]
    \/ version > proc[p].began
    \/ version = 0 /\ tree[f] # proc[p].begun[f]

(* However files are edited, other commands run and die meanwhile, index   *)
(* and find answer with what the tree has been since they were started;    *)
(* find, unless an index was being built then, whose sidecar it may get    *)
(* after it checked a better index (load_or_build_index, try_open_sidecar),*)
(* and unless it answers from the exported nodes, which it compares with   *)
(* nothing (find_symbols, search_as_find).                                 *)
AnswersAreOfTheirTime ==
  \A p \in Agents :
    At(p, "answered") /\ proc[p].kind \in {"index", "find"}
      /\ (proc[p].kind = "find" => ~proc[p].amid)
      => OfItsTime(p)

(* An edit is never forgotten by the watcher: when it rests, the index is  *)
(* the tree's, also after files were removed under it.  But it has to get  *)
(* the lock, and nothing else may fail: such an error is only logged, and  *)
(* no event is left that would have it try again (debounce_loop).          *)
WatcherCatchesUp ==
  \A w \in Watchers : At(w, "idle") /\ woken /\ ~queued /\ ~lapsed =>
    /\ index # Nobody
    /\ \A f \in Files : index[f].stat = tree[f]
=============================================================================
