# Verification of leio-code

TLA+ specifications of `leio-code` and `leio-harness`, the TLC instances that
check them, and the theorems the TLA+ proof system proves of them. Paths below
are relative to the repository: `shm.rs`, `task.rs` and so on without a
directory are in `crates/leio-harness/src/`, and `src/` is the crate of
`leio-code`.

## 1. Inventory

### Programs and how they interact

`leio-code` indexes a repository, answers queries about it and keeps artifacts
in `.leio-code/`. It has no server: every agent runs its own short-lived
processes, and these share files. `leio-harness` runs and supervises work of
agents: coding tasks, workflows, lanes in worktrees, local delivery, a message
bus and a shared-memory ring. Its processes share files with advisory locks,
a mapped segment, sockets and child processes. The MCP servers and the apps SDK
are JavaScript front ends that call the two programs.

So nearly everything that can go wrong between two actors goes wrong in files:
who holds which lock and when it is dropped, what a process read before it took
the lock, what a process that dies leaves behind, and which of several writes
made a change visible.

### Components

| Component (sources) | State | Operations | Interacts through | What is hard | What makes it correct |
|---|---|---|---|---|---|
| Shared-memory ring (`shm.rs`) | `mutation_owner`, `head`, `tail`, slots with a state, a generation, a payload, a verifier; per handle a map of claims | push, push_tentative, verify_slot (claim, peek, commit/abort), pop, pop_any, attach | a mapped segment, a spin gate on one word, wake-up datagrams | several writes per operation, death between any two, slots recycled between the calls of one verify_slot, a gate that is never taken from a dead owner | delivery exactly once and in order; only what was verified is delivered; claims never stale; a dead owner fails closed |
| Coding tasks (`task.rs`) | `status.json`, `events.ndjson`, `cancel.request`, `owner.lock`, `repository.lock`, per supervisor its snapshot | submit, execute, cancel, status, list, events | `flock`, renames, a detached supervisor, process groups | supervisors killed anywhere, inspectors that probe the lock by taking it, cancellation that races dispatch, exit and deadline | one supervised command per checkout; nothing started twice; final states are true and final; a supervised task ends |
| Process supervisor (`process.rs`, `arrow_events.rs`) | child, process group, reader threads, deadline, output budget | run, run_observed | pipes, signals, a channel to the tracker | order of cancel, exit and deadline in one poll; descendants that keep pipes open | status agrees with what ended the run; the group is gone on return |
| Delivery (`delivery.rs`) | `state.jsonld`, `releases/`, staging directories, `.lock` | prepare, deploy, rollback, verify, inspect, serve | lock file, rename, HTTP to its own runtime | a promotion must be active before it can be verified; ends half-way; stale approvals; the rollback target is read before the lock | active is verified or pending with its undo; an approval is spent once; pending is resolved as a whole |
| Advisory lock and shared artifacts (`src/sidecar.rs`, `src/playbook.rs`) | lock file with pid and start, count of guards per process, the artifact | acquire_lock, Drop, load/save | `create_new`, `unlink`, `rename`, `kill(pid, 0)` | judging a lock and removing it are two steps; live locks get old; torn lock files | mutual exclusion unless robbed; robbed only for a cause; no update lost without a robbery or a failed read; calls return |
| Semantic bus (`bus.rs`, `bus_client.rs`) | rows in memory, snapshot file, next sequence number, owner lock | append, get, put, exchange (publish, match, embed, evolve) | Flight over a socket, rename and directory flush | a visible rename that is not durable; indeterminate replies; evolve acts on a stale snapshot | what is acknowledged survives; sequence numbers are never reused; batches are atomic |
| Managed bus (`managed_bus.rs`) | `startup.lock`, socket, child | ensure | lock, probe, spawn, poll | several starters; a starter that gives up and kills its child; servers started by hand | no server is left listening on a path that is gone |
| Workflows (`workflow.rs`) | plan, digest, state, grant, attempts, completed steps | init, reconcile, revise, evidence, confirm, approve, execute, … | lock, saved JSON-LD, child processes | a crash during a step leaves unknown effects; grants outlive what they approved | a step that is not retry-safe runs at most once per revision; no grant survives a revision |
| Leases (`lease.rs`) | registry of leases | acquire, heartbeat, release, expire | lock, rename | leases expire while their owner works | active leases never conflict |
| Lanes (`orchestrator.rs`, `gate.rs`, `integrate.rs`, `merge.rs`, `worktree.rs`, `improvement.rs`) | worktrees, branches, reports | fan-out, gate, integrate, merge, discard | git, threads, child processes | one step of many fails; cleanup on every path | nothing merged that failed; nothing discarded before it was judged |
| Agent adapters (`acp.rs`, `agents.rs`) | a child and its pending requests | probe, prompt | JSON over pipes | answers out of order, a silent child | an answer goes to its request |
| Prompt evolution, embeddings (`gepa.rs`, `sigreg.rs`, `embed.rs`) | populations, vectors | score, select, embed | HTTP | floating point | numerical |
| Receipts, manifest, model (`receipts.rs`, `manifest.rs`, `model.rs`) | none | serialize | files | – | – |
| Command line, terminal (`main.rs`, `tui.rs`, `codeview.rs`) | screen | parse, draw | – | – | – |
| Indexer and code graph (`src/indexer.rs`, `src/code_graph.rs`, `src/cross_language/`) | `index.json`, its summary, `search.arrow`; query cache, parsed files and manifest of the graph | build, update, load if fresh; export | advisory lock and renames for the index, neither for the graph | files that are edited between stat and read; freshness that is judged from several files written one after the other | a record's content is never older than its stat; what is taken for fresh is of the index; an answer is of a state the tree had |
| Watcher (`src/watcher.rs`), navigation sessions (`src/nav.rs`) | pending events; a session with cursor and history | watch; open, go, back, forward | file events; a file without a lock | bursts; two commands on one session | no change is missed; back undoes go |
| Queries, search, context (`src/query.rs`, `src/graph_query.rs`, `src/search.rs`, `src/context.rs`, …) | none | read-only | the index | ranking | relevance |
| Concepts (`src/fca.rs`, `src/lattice.rs`) | a context, its lattice | induce, render | the index, the lock | a closure algorithm | what it lists are the closed sets |
| Knowledge (`src/knowledge*.rs`, `src/ontology.rs`, `leio-knowledge-core`) | a triple store | load, query | a library | – | – |
| Events and export (`src/jsonld.rs`, `src/export.rs`) | an append-only log | append, render | advisory lock | – | – |
| Doctors (`src/diagnostics.rs`, `src/audit.rs`, `src/doctors/`) | none | rules on text | – | – | – |
| Checkout, update, config, start-up | files | I/O | – | – | – |
| MCP servers, apps SDK, packaging (`mcp/`, `apps-sdk/`, `packaging/`) | caches, watch state | forward | child processes | – | – |

`PROJECT.json` gives for each component what is modelled of it and what is
left out, or the reason why nothing is.

## 2. Modules

| Module | What it is |
|---|---|
| `SwarmAudit` | the critic's verdict on a payload, and the slot states |
| `ConsensusQueue` | abstract: a bounded queue of proposals with claims and verdicts |
| `ShmRing` | the ring, write by write; refines `ConsensusQueue` |
| `ShmRingProofs` | its invariants, its action properties and the refinement, proved |
| `TaskLedger` | abstract: reports that only move forward, commands started once, one at a time |
| `HarnessTask` | coding tasks with their supervisors and inspectors; refines `TaskLedger` |
| `HarnessTaskProofs` | its invariants and the refinement, proved |
| `DeliveryLog` | abstract: a log of approved, verified transitions |
| `Delivery` | local delivery; refines `DeliveryLog` |
| `DeliveryProofs` | its invariants, its action property and the refinement, proved |
| `SidecarLock` | the advisory lock and an artifact that is updated under it |
| `SidecarLockProofs` | its safety properties, proved |
| `DurableLog` | abstract: a log that grows, a prefix that survives, promises within it |
| `Bus` | the semantic bus, its servers one after the other, and its clients; refines `DurableLog` |
| `ManagedBus` | `Bus` composed with the commands and the operators that start its servers |
| `BusProofs` | its properties and the refinement, proved |
| `ApprovedPlan` | abstract: steps started under an approval of the plan they belong to |
| `Workflow` | JSON-LD workflows and the process that executes one; refines `ApprovedPlan` |
| `WorkflowProofs` | its invariants and the refinement, proved |
| `Lease` | the lease registry |
| `Integration` | the stacking of branches and the measurement of the result |
| `Lanes` | `run_day`, composed of `Lease` and `Integration`, beside agents and an operator |
| `Improvement` | `evaluate_improvement`, a pure function of two snapshots |
| `Gate` | `run_gate`, with `Integration` and `Improvement` |
| `Fabric` | a day of `Lanes` and then `Gate`s, in one repository |
| `FabricProofs` | the properties of all of these, proved |
| `CodeIndex` | the index with its summary and search sidecar, its builders, readers and the watcher |
| `CodeIndexProofs` | the properties of `CodeIndex` and `CodeView`, proved |
| `CodeView` | the exports of the code graph and the queries that read them, over `CodeIndex` |
| `MC*` | bounded instances of the module they are named after |

A definition whose correctness matters has a *faulty variant* beside it: what a
plausible slip in that code would be. The specification does not use it. A
property is only kept when replacing the definition by its variant breaks it.

### ShmRing

| Specification | Code (`shm.rs`) |
|---|---|
| `owner`, `head`, `tail`, `slot` | the header and the slots of the segment |
| `claims[h]` | the `claims` map of a handle |
| `pc`, `at`, `seen` | where a handle is in its call, its `slot_index`, the copy `peek_slot` made |
| `PushLock`, `PushCheck`, `PushWrite`, `PushSeal`, `PushHead` | `push_with_consensus`: gate; full?; tentative state; payload; seal; head |
| `ClaimLock`, `ClaimCheck`, `ClaimRecord` | `try_claim_verification`: state, then verifier and map |
| `PeekLock`, `Peek` | `peek_slot` |
| `FinishLock`, `ForeignFinishLock`, `FinishCheck`, `FinishReason`, `FinishState` | `finish_verification`, also called by somebody who holds no claim |
| `PopLock`, `PopTake`, `PopNone`, `PopTail` | `pop` and `pop_any`: free the slot, then move `tail` |
| `Unlock`, `GiveUp` | `SlotGuard::drop`; `lock_slots` after 256 attempts |
| `Crash`, `Attach` | a process dies; another attaches |

Everything is read and written under the gate, so reads need no steps of their
own; writes do, because a process can die between them. A claim in a handle's
map is dropped when `finish_verification` has written the verdict; where its
check fails the entry stays, and is of no use any more. A payload is
what the audit tells apart: confidence below, enough or not finite; dimension
expected, other or oversized; all components finite or not. Generations count
from 1 and are `head + 1` in the code; they are 64 bits wide and do not wrap.

*Abstract view.* A push is visible in `ConsensusQueue` when `head` moves, a
claim when the verifier's name is written, a verdict when the state is, a pop
when the slot is freed. All other steps stutter.

### HarnessTask

| Specification | Code |
|---|---|
| `status`, `lastEvent`, `cancelFile` | `status.json`, the end of `events.ndjson`, `cancel.request` |
| `ownerLock`, `repoLock` | the locks on `owner.lock` and `repository.lock` |
| `group`, `launches` | the process group of the current command; how often commands were started |
| `submission`, `Submit`, `SpawnSupervisor` | `submit` between its writes: the record of the queued task, then the supervisor, and where that cannot be spawned the record of the failed task, without a lock |
| `sup[s]` | a supervisor: program counter, `Tracker` snapshot, result, signal flag |
| `ins[i]` | an inspector between its reads |
| `Record`, `Publish` | `Tracker::record`: count, append to the journal, then replace the status; `then` is where that leads to, `fallback` where an error does |
| `Begin` … `Exit` | `execute`, in its order: owner lock, read, cancel check, repository lock, baseline, worker, verification, collect, finish |
| `Spawn`, `RecordSpawned`, `PollCancel`, `StillRunning`, `Exits`, `EndRun` | `run_observed`: spawn, callback, poll of cancel, then exit and deadline, kill of the group, the errors of readers and result |
| `DropChild` | `Drop for OwnedChild`, where the callback fails: the group is killed |
| `ReadStatus`, `Probe`, `Release`, `View` | `inspect`: status first, then the lock probe, which takes the lock |
| `RequestCancel` | `cancel` |
| `Crash`, `DropLocks`, `OrphanEnds` | SIGKILL: the kernel drops locks, the group goes on |

A record is two steps. A supervisor may die before, between and after them, and
either write may fail. The number of the record is spent all the same. Where the
error leads depends on the place: before the worker and after the artifacts
`execute` ends with it, and the task stays where it was until somebody looks at
it; in the middle `execute` takes the work for failed and goes on to `collecting`,
so the journal may be several events ahead of the status, and published numbers
may have gaps. A supervisor may be started again for the same task by hand, once
`submit` is over: `task execute` is a hidden command, which `submit` runs. A
command's outcome is free (passed, failed, timed out, output limit). Git
commands may fail.

*Abstract view.* A `Report` of `TaskLedger` is the replacement of `status.json`;
the journal entry before it is not seen. The report of a task whose supervisor
could not be spawned is one like any other. A `Start` is the spawn of a command,
a `Stop` the end of its group, and it is `Abandon`ed when its supervisor dies. A
`Withdraw` is a `cancel.request` written while the record on disk still precedes
the verification. Locks, probes and the steps of `execute` that read are
stutters.

### Delivery

| Specification | Code (`delivery.rs`) |
|---|---|
| `state` | `state.jsonld`; of its history the verified events, as the digest that authorized each, and the number of failed ones |
| `store` | whether `releases/` has a revision, or its staging directory exists |
| `lock`, `client` | `.lock` and the commands in progress |
| `Stage`, `Release`, `RemoveStaging` | `prepare`: copy, rename; an operator removes an interrupted staging |
| `Rollback` | `rollback` chooses its revision before `promote` takes the lock |
| `Resume`, `Start`, `Refuse` | `promote`: a pending promotion of the same call is taken up; a new one is saved; anything else is an error |
| `Fetch`, `Verified`, `Failed` | `verify_revision` over HTTP, and the two saves that may follow |
| `End` | the command ends before its next write |

A digest is the record of what `authorization` hashes: hashing is taken to be
injective. Callers present any digest, so also stale ones.

### SidecarLock

| Specification | Code |
|---|---|
| `file` | the lock file: its creator, whether the pid is in it, whether it is older than `LEIO_LOCK_STALE_SECS` |
| `pc`, `depth`, `calls` | an agent's place in `acquire_lock` and after it; `held_locks` |
| `mem`, `artifact` | the playbook in memory and on disk, as how many updates of each agent it has |
| `Create`, `CreateFails`, `WritePid`, `WriteFails` | `try_create_lock`: `create_new`, `write_all` |
| `Inspect`, `Steal`, `StealFails` | `steal_stale_lock`: read and judge; later, remove |
| `Wait`, `GiveUp` | the poll and its deadline |
| `Reenter`, `Drop`, `DropFails` | nested guards, `Drop for SidecarLock` |
| `Load`, `LoadFails`, `Save`, `SaveFails` | `load_or_default` (a playbook that cannot be read is taken for an empty one), a change, `write_atomic_json` |
| `Crash`, `Age` | a process dies; a lock gets old |

An agent is a process with one thread, and a pid is not used again. Two threads
of one process share their guards by design of `held_locks` and are not told
apart.

### Bus and ManagedBus

| Specification | Code (`bus.rs`, `managed_bus.rs`) |
|---|---|
| `file`, `survivors` | the snapshot that the path names; what a loss of power may leave there |
| `owner`, `life`, `rows`, `next` | the snapshot's lock; a server and its `rows` and `next_seq` |
| `inflight[s]` | the publication that holds the two mutexes, and whether its snapshot is renamed |
| `Load` | `load_or_default`: the lock is tried once, the next number is that of the last row |
| `Allocate`, `WriteFails`, `Rename`, `Flush`, `FlushFails` | `append` and `append_durable`: numbers, temporary file, rename, flush of the directory, reply |
| `Breed`, `Refuse` | `evolve`: the parent is chosen from a copy, its offspring appended later; a request that is refused |
| `Send`, `GiveUp`, `Answer`, `Get` | a client's call; an indeterminate reply; a reply; a read after a cursor |
| `Exit`, `PowerLoss` | the process, or the machine, stops |
| `stage`, `socket`, `socketLock`, `LockSocket` … `LoadSnapshot` | `serve_uds`: socket lock, probe, removal of a stale path, bind, load |
| `starter`, `peer`, `polls`, `startLock`, `LockStartup` … `KillChild` | `ensure`: startup lock, probe, health, spawn, 100 polls, the kill of the child |

After a failed flush the snapshot on disk is ahead of what is acknowledged, and
memory follows it: `FlushFails` keeps the rows and answers with an error. Both
are what the code does, and why a publisher that tries again duplicates its
rows: `NoCopyWithoutCall` says that nothing else does.

### Workflow

| Specification | Code (`workflow.rs`) |
|---|---|
| `saved`, `memory` | the state file; the state that the running `execute` is going to save |
| `phase`, `verdict` | where `execute` is between its two saves, and what it saw of its command |
| `Revise`, `Evidence`, `Confirm`, `Approve`, `Reconcile` | the operations, each one read, check and save under a lock that is tried once |
| `Begin`, `Spawn`, `Observe`, `Record` | `execute`: saves `running` with the attempt; starts the command; waits; saves the result |
| `Crash`, `EndsAlone` | the process is killed; a command that it left behind ends |
| `issued` | digests that were shown: an approval may name any of them, old ones too |
| `spawned`, `passed`, `processes` | history of commands; which may be alive unaccounted for |

*Abstract view.* What `ApprovedPlan` knows of a step is `Flight`, read off the
phase, the verdict and the saved state together: `entered` from the first save
on, `launched` from the start of the command, `passed` when it was observed to,
`unknown` when the process was killed in between. The approval in the state file
is the abstract one; a reconciliation takes it away.

### Lease, Lanes, Integration, Gate and Fabric

| Specification | Code |
|---|---|
| `registry`, `holding` | the registry's file; who believes to have a lease (`lease.rs`) |
| `Acquire`, `AcquireUnsure`, `Release`, `ReleaseUnsure`, `Heartbeat`, `Expire` | the operations, and the write that succeeds although its caller is told that it did not |
| `stage`, `result`, `receipts`, `outcome`, `posted`, `worktrees` | a lane in `run_lane` and what it has left (`orchestrator.rs`, `worktree.rs`) |
| `TakeLease`, `Announce`, `CreateWorktree`, `Run`, `Commit`, `Retire`, `DropLease`, `Report` | `run_lane`, in its order; each may fail |
| `FinishLanes`, `IntegrateDay` | `run_integration_phase` |
| `target`, `branch`, `stacks` | heads, as the sets of changes in their histories; a stacker's integration worktree |
| `Stack`, `Merge`, `Measure`, `Discard` | `integrate_lanes`, `merge_branch_committing`, the objective, `discard_worktree` (`integrate.rs`, `merge.rs`) |
| `MeasureBaseline`, `Integrate`, `Judge`, `Promote`, `DiscardIntegration` | `run_gate` and `promote_integration` (`gate.rs`, `integrate.rs`) |
| `Evaluate`, `Delta` | `evaluate_improvement` (`improvement.rs`) |
| `Agent`, `Operator`, `Push`, `SetAside` | who uses the registry by hand; who expires leases; who pushes to the target; the day's directory is put away |

A change is the lane that made it, so that a head contains a lane's work when it
has the lane as an element. A lane's branch starts from `HEAD` of the day's
repository (`worktree.rs:54`): what is checked out there, which need not be what
the target names, and may be another lane's branch. `discard_worktree` looks at
the result of neither of its commands, so `Discard` may leave the worktree where
it is; nothing later depends on it, because every run has an id of its own. An
orchestrator that is killed takes no more steps, which the model always allows;
`SetAside` follows at any point.

`Evaluate` uses integers for the metrics, `Epsilon` for the noise floor
`DELTA_EPSILON` and `NegativeInfinity` for a metric that one side lacks. A metric
that is better when lower and that the *candidate* lacks therefore counts as an
infinite improvement, as in the code; `TargetMovesForward` says so: a promoted
candidate lacks only such metrics, and reports no new ones of that kind.
`merge --ff-only` may be refused, also where it is possible.

### CodeIndex and CodeView

| Specification | Code (`src/`) |
|---|---|
| `tree`, `clock` | the versions of the files: content and stat (size, mtime) together |
| `index`, `summary`, `search` | `index.json`, `index-summary.json` with the stat it is stamped with, `search.arrow` and whether it is the newer file |
| `LoadIndex`, `Compare` | `load_fresh_index`, `is_index_stale_against_disk` (`indexer.rs`): first without the lock, then under it |
| `TakeLock`, `GiveUp` | `load_or_build_index`, `acquire_lock` |
| `Discover`, `Stat`, `Read` | `build_or_update_index`: the walk, then per file its stat, a record to reuse or the content |
| `SaveIndex`, `SaveSummary`, `SaveSearch`, `SkipSearch` | `save_index_with_truncation` and the sidecar, one file after the other |
| `FailBuild` | an error of the walk, of a file, of the environment files or of a write: the build ends, `index.json` may have been replaced |
| `Find`, `Report`, `Return` | the answers of `find` (`search.rs`, `query.rs`) and `index` |
| `FindNode` | `search_as_find` (`local_nodes.rs`): a needle of several words is answered from the exported nodes, which are one of `ArrowNodes`, a constant: nobody exports them meanwhile |
| `Wake`, `Drain`, `Reindex`, `Reindexed` | `debounce_loop` (`watcher.rs`) |
| `cache`, `parsed`, `manifest` | `query-cache.json`, `parsed-files.json`, `manifest.json` |
| `Ensure`, `RefreshReason` | `ensure_graph_artifacts`, `ensure_or_load_graph_query_cache`, `code_graph_refresh_reason` |
| `Parse` … `FillManifest`, `LoadCache`, `ExportAgain`, `NoCache` | the export, whose files are written in place: opened, then filled; the load of the cache and what follows when it cannot be read |
| `FailExport` | a file of the export cannot be written: `explain` loads whatever cache there is |

A version is not used again: an edit that changes neither size nor mtime is
invisible to the program by design, and not modelled. The index's lock is taken
to be exclusive here; `SidecarLock` has the cases in which it is not. Parsing a
tree's files is one step.

## 3. What the runs check

| Run | States | Instance | What it shows |
|---|---|---|---|
| `ring_safety` | 595,845 | 2 handles, 2 slots, 3 pushes, an approved and a rejected payload, crashes, give-ups, attach | `IInv`, `ExactlyOnceInOrder`, `OnlyVerifiedDelivered`, `ImplementsQueue` |
| `ring_live` | 13,995 | 2 handles, 2 slots, 2 pushes, nobody dies | `EveryProposalLeaves`, and no deadlock |
| `task_checkout` | 515,637 | 2 tasks of one checkout, 2 supervisors, killed or signalled, writes that fail | `OneTaskPerCheckout` |
| `task_life` | 464,044 | 1 task, 2 supervisors, 2 inspectors, cancellation, signals, deaths, writes that fail | `TaskInv`, `CommandsRunOnce`, `InterruptedIsAbandoned`, `ImplementsLedger`, `RunningEnds` |
| `delivery` | 82,425 | 3 revisions, 2 commands at a time, 4 verified and 2 failed transitions, commands that end anywhere | `IInv`, `ApprovalSpentOnce`, `RollbackGoesBack`, `PendingIsResolved`, `ImplementsLog` |
| `sidecar` | 224,624 | 2 agents, 2 calls each, nesting of 2, deaths, failures, old locks | `TypedLock`, `RobberyNeedsCause`, `NoUpdateLost`, `EveryCallEnds` |
| `bus` | 363,873 | 2 servers, 2 starters, a publisher of a batch of two that may try twice, an evolver, a reader; room for 4 rows; deaths, failures, power loss | `BusInv`, `AckedIsDurable`, `NoCopyWithoutCall`, `OffspringKeepParents`, `CursorTellsAll`, `NobodyStranded`, `ImplementsLog` |
| `day` | 1,851,520 | 2 lanes, parallel or not, with or without bus and receipts; an agent that claims a lane's worktree; an operator; six snapshots; two changes of others, one of them checked out where the day starts | `FabricInv`, `SharedOnlyAfterExpiry`, `PassedIsVouchedFor`, `OnlyPassedIntegrated`, `TargetMovesForward` |
| `workflow` | 68,428 | 3 plans of up to 2 steps, 3 revisions, 4 attempts, kills | `WorkflowInv`, `NoBlindReplay`, `UnknownKeepsRunning`, `ImplementsApproved` |
| `index` | 2,061,620 | 1 file, 2 edits, 2 agents, 2 commands, a watcher, one death, builds that fail | `IndexInv`, `WatcherCatchesUp`, `AnswersAreOfTheirTime` |
| `graph` | 3,075,803 | 1 file, 2 edits, 2 agents, 2 commands, one death, exports that fail | `GraphIsOfItsTime` |

*Bounds.* Three pushes into two slots recycle a slot while the other is in use;
two handles are a verifier and whoever disturbs it. Two pushes into two slots
that are there at once are what it takes for one to be committed behind another
that is not (`HeldBack`). Two supervisors are the one
that died and the one that is started after it, or those of two tasks; two
inspectors are what it takes to see each other's probe. Three revisions and
four transitions contain every deploy, rollback, rollback of a rollback and
return to an earlier revision, with a digest of each older generation to replay.
Two agents with two calls are one that fails and one that takes over, twice.
Two servers are one that dies and its successor, or two at once; a batch of two
can be torn; the second try follows a reply that was lost; four rows leave room
for the batch twice or for the batch and an offspring, and none for a fifth.
Two lanes are enough for one to pass and one to fail, and for the second to wait
for the first. The noise floor is 1: the snapshots contain pairs that differ by
less and by more than it, a better one, a worse one, one that is better in one
metric and worse in the other, one that lacks the metric that is minimized, and
one that collapsed. The repository of the day has a change checked out that the
target has not. The exported nodes that a `find` may answer from are of the tree
as it is at first; no property looks at what they say, and the proofs are about
any. Three revisions and four attempts let an approval
of the first revision be replayed in the third and a step be reconciled and
started again. One file with two edits can be removed and come back, and be
edited between any stat and read; a second file would only be edited
independently, since a record depends on its own file alone. The invariants that
are proved (section 5) do not depend on these bounds.

*Deadlock* is checked in `ring_live`. It is not in the others, where the bounds on
calls, edits and transitions end every behaviour, or a submit that fails leaves
nothing to be done (`task_checkout`, `task_life`), and in `ring_safety` a dead
owner of the gate stops everybody, which `FailsClosed`, a part of the invariant
that is proved, is about.

### Disagreements between the code and what is said of it

`graph_explain` expects a violation of `StaleCacheIsRefreshed`. An export that
is killed after it wrote `query-cache.json` and before it wrote `manifest.json`
leaves a cache without a manifest. `explain` finds no reason to refresh such a
cache and answers from it for as long as it is there, whatever happens to the
files; `src/graph_query.rs` says that a stale cache is rebuilt. What does hold
is `GraphIsOfItsTime`: as long as no export is cut short and no two overlap.

The models also show these, which the properties above are worded around:

* `cancel.request` is read once, before `repository.lock` is taken and git is
  asked (`task.rs:469`). A request in between, while the task is still queued,
  does not prevent the spawn: the worker is started and killed.
  `docs/HARNESS-TASKS.md:34` says that it does. What does hold is
  `EarlyCancelWins`, a part of `TaskInv`, and in `ImplementsLedger` that a
  withdrawn task does not succeed.
* `inspect` reads the status (`task.rs:709`) and then the lock, so that a
  supervisor that finishes in between is reported as lost, although its task
  ended by itself. What does hold is `InterruptedIsAbandoned`.
* The probe of `owner.lock` takes it (`task.rs:124`). Of two inspectors, one may
  see the other's probe and report a task running whose supervisor is dead.
* Two waiters judge the same dead lock (`src/sidecar.rs:502`). One removes it and
  creates its own; the other then removes *that* one. Both rebuild an index,
  although `src/indexer.rs:203` says that only one does. What does hold is
  `RobberyNeedsCause`.
* The comment at `src/sidecar.rs:29` says that a lock older than
  `LEIO_LOCK_STALE_SECS` *whose pid is gone* is stolen, so that no live walk is
  robbed. The code (`src/sidecar.rs:501`) steals a lock that is either. What
  does hold is that nothing else is a cause (`RobberyNeedsCause`): a holder that
  lives and is not overdue is never robbed by somebody who judged its own lock.
* A stale lock that cannot be removed makes `acquire_lock` spin past its deadline
  (`src/sidecar.rs:285`). It is the only way a call does not end
  (`EveryCallEnds`).
* `docs/harness/AGENT-FABRIC.md:134` (and the heads of `gate.rs` and
  `improvement.rs`) ask of a promotion that one metric is strictly better and
  none regresses. A candidate that merely stops to report a metric to be
  minimized is promoted: its absence counts as minus infinity
  (`improvement.rs:64`). What does hold is `TargetMovesForward`.
* `integrate_lanes` reports a worktree `retired` after a conflict
  (`integrate.rs:123`), and the gate one that it discarded, although the removal
  may have failed: `discard_worktree` looks at neither result. What does hold is
  that nothing is discarded before it was judged (`NoEarlyDiscard`, a part of
  `FabricInv`).
* A lane is started from what the repository has checked out and stacked on the
  target (`orchestrator.rs:312`). Where these differ, the tree that is measured
  has changes that neither a lane made nor the target has; where another lane's
  branch is checked out, so may be the work of a lane that failed.
  `OnlyPassedIntegrated` speaks of the branches of lanes that passed, for that
  reason.
* `find` answers a needle of several words, or with `fca`, from the nodes that
  `export arrow-nodes` wrote (`src/query.rs:70`), if it has a good hit there,
  and compares their age with nothing. `AnswersAreOfTheirTime` is about the other
  answers.
* A record of a task that cannot be written keeps its number: readers of
  `events.ndjson` may miss it, and the number of the next status is not the
  next. `ImplementsLedger` only says that numbers go up.
* Exports of the graph take no lock: of two that overlap one may leave its cache
  and the other its manifest.
* An export that was killed after it filled the cache leaves the old manifest.
  When the tree returns to the state of that manifest -- a file is added and
  deleted again -- the newer cache is taken for fresh.
* `find` may answer from a search sidecar whose build had begun before the call,
  although the index it has just checked is newer.
* A reindex of the watcher that gets no lock, or fails on a file that is no text
  or on a write, is logged and its trigger is gone (`src/watcher.rs:280`): the
  index stays behind until the next event. `WatcherCatchesUp` is about the
  others; one that fails because a file was removed under it is made up for, as
  the removal is an event.

## 4. Fairness

* `ring_live`: an operation that has the gate goes on to its end (weak
  fairness of its steps). Handles keep calling `pop` and `pop_any`, and a
  `verify_slot` that claimed a slot makes its two other calls; since the gate is
  held for a few instructions and tried 256 times, who keeps trying gets it now
  and then (strong fairness of `PopLock`, `PeekLock`, `FinishLock`), and among
  the pops some are `pop_any`. Nobody has to push or to start a verification.
  Without deaths and give-ups only: with them the ring stops by design.
* `task_life`: a supervisor that is not killed goes on, and a command that runs
  long enough reaches its deadline (`timeout_ms`), which `run_observed` polls
  for. Nothing is assumed of inspectors, of signals, or that anybody starts a
  supervisor.
* `sidecar`: a process that lives goes on, and the deadline of a waiting process
  passes however often it polls. No removal of a stale file is assumed to work,
  however often it is tried: that `acquire_lock` may then loop for ever, as it
  tries again without looking at its deadline, is said by `EveryCallEnds`
  itself. A bound on calls replaces the assumption that others do not start new
  calls for ever.

The safety runs use the specifications without fairness, and so do `bus`,
`day`, `workflow`, `index` and `graph`: their commands are started by hand,
their calls may fail for ever, and nothing in the code tries again.

## 5. What is proved

All for any values of the constants that satisfy the named assumptions
(`RingAssumption`, `TaskAssumption`, `DeliveryAssumption`, `SidecarAssumption`,
`BusAssumption`, `WorkflowAssumption`, `LeaseAssumption`, `LanesAssumption`, `GateAssumption`,
`FabricAssumption`, `CodeIndexAssumption`, `CodeViewAssumption`), which TLC evaluates for the
instances it checks.

**The ring** (`ShmRingProofs`). `RingInv` is inductive with `TypeOK`. It is
needed because no property of the deliveries is inductive by itself: that a
verdict lands on the proposal that was judged follows from *claims are current*
(a claim in a map names a slot that is still reflecting, still of that
generation and verifier), which follows from *the window* (the slots between
`tail` and `head` hold exactly the generations `tail + 1 … head`, so the slot of
`head` is free), which holds in the middle of an operation only relative to
the step of the owner of the gate (`OwnerAt`), which needs *gate exclusion*.
From it: `TypeCorrect`, `RingInvariant`, `ClaimsStayCurrent`,
`DeliveredExactlyOnceInOrder`, `DeliveredOnlyVerified`, `SlotsFollowLifecycle`,
`DeadOwnerFailsClosed`. The proof has one lemma per group of actions; steps
that change no slot are dismissed together (`QuietStep`, `BystanderStep`), and
a lemma on `SlotOf` carries the arithmetic of the capacity. The refinement
`RingImplementsQueue` needs one fact more, that a push not yet published has
written a payload (`ItemWritten`). `StepKinds` leaves the steps that write;
of these `PushHead`, `ClaimRecord`, `FinishState` and `PopTake` are the four
operations of the queue, and the others write what the mapping does not show.

**Tasks** (`HarnessTaskProofs`). The invariant says what a place in `execute`
means for a supervisor (`Good`): which locks it holds (`Holds`), how often each
command was started, whether one runs, and what its snapshot says of them
(`Commands`), and whether the task may still succeed (`Verified`). The last part
carries `EarlyCancelWins`: from the poll that found no request until the final
report, the record on disk already says `verification` or later, so that a
request that is written meanwhile is not an early one (`Settled`). Between the
two writes of a record a supervisor is at two places at once (`Written`): the one
it goes on to if `status.json` is replaced, and the one it falls back to if that
fails; it has to be good for both, and `Rescue` lists which pairs there are. That
a record that failed may be followed by another is why the snapshot is only
known to follow what is on disk (`Follows`): a later number, no earlier phase, no
result that was taken back. `TaskOK` keeps what is true of a task whether or not
it has a supervisor, which is why a task that is taken up again after a crash
starts nothing: only a record that still says `queued` is executed, and then
nothing was ever started; a worker's record goes to disk before the worker is
spawned. Three lemmas (`SupervisorFrame`, `IdleTask`, `InspectorFrame`) show that
a step disturbs no other process, because the `owner.lock` gives every task one
supervisor, and `submit` is over before there is one; each step of `execute` then
has a lemma about its own supervisor and task, and `RecordStep` and `PlaceStep`
are what those with a record and those without have in common. From it:
`RecordsAreTruthful`, `CommandsHoldBothLocks`, `NoCommandTwice`,
`FinalReportIsLast`, `CancelIsNotLost`, `InterruptedForGood`.

For the refinement of `TaskLedger` (`TasksImplementLedger`) the invariant has,
in `Follows`, how a record that is going to be published relates to the one on
disk. `SeenIsThere` says that what an inspector has read was submitted, so that
a cancellation is one of a task that exists. With it `LedgerStep` goes through
the steps: `Publish` is the report, and so is the second record of a submit; a
spawn, the end of a run and a death are those of the command, and the rest is
not seen (`Unseen`). `FinalReportStands` follows: the ledger has no step from a
final report. That commands of two tasks do not run at once is a guard of
`Start`, discharged from the lock on the checkout; an abandoned command has no
lock any more, so the ledger, like the code, lets it run beside the next one.

`ExecuteGoesOn` is the half of `RunningEnds` that needs no fairness. `StepsLeft`
counts the steps that `execute` has yet to make: two to each place that follows
in its order, as a place may be reached by a record and its publication, and
more while the worker runs, because a verification may come after it. A place
one falls back to has no more steps ahead than the one it takes the place of
(`RescueIsNoFurther`). Every step brings the count down, but for the polls of a
running command and the output that is recorded meanwhile; and nothing that
others do brings it up. So a supervisor that is not killed, and whose commands
end, is done after at most 35 steps and its polls, whatever writes fail.

**Delivery** (`DeliveryProofs`). `DeliveryInv` is inductive with `TypeOK`. Its
core is `FitsLog`: the digest of the n-th event binds generation n - 1, the
revision verified before it and, for a rollback, the one before that; the
pending promotion's digest fits the end of the log. As the generation is bound,
two events cannot have one digest (`ApprovalsAreSpent`), and what a rollback
goes to is determined (`RollbacksGoBack`), although its target was read before
the lock was taken. `StateChanges` reduces every step to a start, a success or
an undo of a promotion; `PendingResolved` and the refinement
(`ImplementsTheLog`: the save of a verified promotion is a transition of the
log, everything else stutters) follow from it.

**The advisory lock** (`SidecarLockProofs`). `IInv` adds to the checked
invariants that a process only goes to steal with a cause (a death or an
overdue lock, both of which remain true) and that, without a robbery or a failed
read, what a process is about to save is what is on disk. A step is one of four
kinds as far as the lock is concerned: of a process without it (`OutsiderStep`),
under a guard (`GuardedStep`), of a process that stops to work and leaves the
file or removes it, whosever it is (`LeavingStep`), or one of the two that take
it. From it: `TypeCorrect`,
`LockInvariant`, `RobberiesHaveACause`, `UpdatesAreKept`.

**The bus** (`BusProofs`). The invariant says of every snapshot that a crash may
leave that it is a prefix of the file, is numbered from one without a gap, holds
its batches and the parents of its offspring, and has every acknowledged row
(`SnapshotsOK`); and of a server that is up that its memory is one of these
snapshots, ahead of which the file is by at most the batch in flight
(`ServerOK`). As such a server owns the lock there is one at most, and the steps
of the others need no thought (`OneServer`). `NewSnapshot` shows that a rename
adds a snapshot in order; `Extended`, that rows become visible in order whether
or not the directory was flushed. Two properties need an invariant of their own:
that a reader misses nothing rests on its having a row for every number up to
its cursor -- with numbers without a gap and every acknowledged row in every
snapshot, a number is then only given twice if its first row was lost with the
power -- and that there is no copy without a call on counting a client's copies
and its open requests together (`CallsOK`). How a server comes to be started
leaves the bus alone or is a step of it (`ManagedStep`), so that all this holds
of `ManagedBus`; there, a path is removed and bound under the lock that the
bound server holds. From it: `SnapshotIsMemory`, `AcknowledgedSurvives`,
`ParentsSurvive`, `NothingPassedBy`, `CopiesWereAsked`, `SocketIsKept`, and the
refinement `BusImplementsLog`: a rename is a `Publish`, a flush a `Promise`, a
loss of power a `Lose`.

**Workflows** (`WorkflowProofs`). The invariant relates the state file to the
history of commands. *Reached*: a step of which anything is known belongs to an
older revision, or to this revision's plan and is at most the one after the
completed ones. *Attempts*: the number of an attempt is larger than every one in
the history when `Begin` saves it, and the command is only started after that
save. *Alive*: what may be alive is the last attempt, and then the state is
`running`. That a step is not blindly started twice follows because a step that
was started and is not completed leaves the state in `running` or `failed` --
which only a revision leaves without an execution, so that approving again does
not hide it -- and `execute` starts a step of a failed workflow only when it is
safe to retry. From it:
`StateFileIsTrue`, `NothingIsReplayedBlindly`, `UnknownIsKept`.

The refinement of `ApprovedPlan` (`WorkflowImplementsApproved`) needs one fact
more, that a confirmed plan has no open question (`NoneOpen`): an approval asks
for the confirmation, evidence and the digest, not for the questions. Each operation has
a lemma that names the abstract step it is; the start of a command is `Launch`,
whose step was entered under the approval. That the approval, its plan and the
completed steps are still the same when the command is started is
`NothingStartsUnapproved`, whatever the digests that callers present.

**The fabric** (`FabricProofs`). Two invariants, of the registry and of the
repository. `LeaseInv` adds to the disjointness of active leases that who
believes to have a lease has one that is active or expired -- never one that was
released or replaced by another run's -- so that two holders can only share
what an expiry gave away (`HoldersToldApart`). `RepositoryInv` has for each lane
what its stage implies of worktree, branch, rows and result (`LaneOK`); that
every step of another lane leaves it untouched (`OthersUntouched`) is the only
place where the interleaving of lanes matters. For the day it says that
nothing is stacked while lanes run, that what is left to stack has passed, that
the stack is made of the target and of branches of lanes that passed (`Work`),
and that with what is left to stack it is all of them (`Whole`); a branch does
not change once its lane is done, and what it was started from does not matter.
For the gate, that the snapshot of a promotion was judged an improvement over
the baseline of the same run, and that the tree is there until then.
From them: `FabricIsInOrder`, `PassedLanesAreVouchedFor`,
`DayIntegratesPassed`. `LanesLeased` is an invariant over both: a lane has its
lease from its first step to the one that drops it, whatever became of the
calls of others. With `LeaseInv` it gives `LanesWorkApart`: what a lane claimed
is its own while it works, unless a lease was found expired. `DeltaSign` says when
the delta of a metric, present or not, is above the noise or below it;
`ImprovedExactly`, what the verdict means for any set of metrics and any noise
floor, and from it `TargetOnlyMovesForward`. `GateAssumption` asks that every
metric is an integer above `NegativeInfinity` by more than the noise.

**The index** (`CodeIndexProofs`). `Core` is inductive. It says that every index
there is, on disk or in a process, is *sound*: a record's content is at least as
new as its stat and no newer than the file, so that where the stat is the file's
the content is. That needs the stat that a build has taken, and not yet used, to
be no newer than the file (`BuilderOK`). A build works under the lock and has
saved the index when it writes the files beside it. From it: `IndexIsReusable`.
The other two properties have an inductive invariant of their own over `Core`.
`Watching`: unless something is queued, the watcher's build -- and, when the
watcher is done, any other build -- has behind it only files that are as it
recorded them, and before it only files that are there; what it saves is the
tree, and if it fails for another reason, the watcher's last reindex has failed.
It rests on the order of `Wake`, `Drain` and
`Discover`: the channel is emptied before the walk. It also rests on there being
at most one watcher, whose channel `queued` is. `Commands`: what a
command has compared or built, and what any build has behind it that the command
did not find under way, was so at some moment since the command was started
(`Timely`, which no edit takes back). As a sidecar that passes for fresh is of
the index, `find` may answer from either. From these: `WatcherForgetsNothing`,
`AnswersAreTimely`.

**The code graph** (`CodeIndexProofs`, `View`). The export may read a file later
than the index took its stat, and may reuse what was parsed long before under
the same stat, so the content in the graph and the stat in the manifest are of
different moments; the fingerprint compares stats only. `Graphs` says what is
true however exports meet: the stats of a command's index are timely
(`StatsTimely`), and no version that the cache, the parsed files or an export
knows came between the command's start and the version it started with
(`Eras`, because a version is known only once it was on disk). `FilesMatch` and
`ExportOK` follow an orderly export through its writes: for each file, the graph
has a version at least as new as the stat, or nothing of a file that has not this
stat any more (`Exported`). Timely stat, version of no other era and `Exported`
together make the version timely (`MatchTimely`). From it:
`GraphAnswersAreTimely`. `NothingNew` is what lets most steps pass unseen: after
them nothing is known that was not known before.

### Only model-checked

Three properties that something happens: `EveryProposalLeaves`, `RunningEnds` and
`EveryCallEnds`. They rest on fairness, of which `ENABLED` is a part, and that is
out of the proof system's reach; of the first two the parts without fairness are
`SlotsFollowLifecycle` and `ExecuteGoesOn`. All other properties of the runs are
proved, each by a theorem that `PROJECT.json` names. `StaleCacheIsRefreshed` of
`CodeView` is refuted, not proved.

## 6. What is not modelled

* The rest of the inventory, for the reasons in `PROJECT.json`. Most of the
  repository's lines are extraction, ranking, rules and rendering of text
  (`src/query.rs`, `src/context.rs`, `src/export.rs`, `src/doctors/`, the larger
  part of `src/code_graph.rs` and `src/indexer.rs`): functions from a text to a
  text without a state, of which a model would be a second implementation.
* Of the ring: the initialization handshake of `create`, the wake-up sockets and
  `pop_wait` (hints: consumers poll anyway), a verdict a caller brings itself,
  `peek_vector`, memory below the level of the segment's atomics.
* Of tasks: lines of `events.ndjson` that are torn, and its pagination; bounds on
  output; how the reader threads come to their end (they read without blocking
  and look at a flag that is set before they are joined); an error of `try_wait`
  and panics, which end `execute`; `task execute` run by hand while `submit` is
  still at work; the contents of diffs.
* Of delivery: the HTTP server, symbolic links and file comparison, the
  collision-freedom of SHA-256.
* Of the lock: threads of one process, reuse of pids, processes of other users,
  clocks that go back, Windows.
* Of the bus: matching, embeddings, the `merge_gate` verdict (they only read), and
  the encoding of batches.
* Of the fabric: what git does beyond heads and conflicts, prompts and reports,
  `merge_branch`, which a user calls by hand.
* Of the index: what is parsed, how well the exported nodes answer a question,
  the export of these nodes, truncation of large indexes, `LEIO_REUSE_INDEX`,
  routes and manifests of other tools, `graph.nq`, graphs of more than 1000
  files.

## 7. Plan

Written: the ring, tasks, delivery, the advisory lock, the bus and its start,
workflows, the fabric, the index and the code graph; proofs of the ring, tasks,
delivery, the lock, the bus, workflows, the fabric, the index and the code graph.

1. `Nav`: a navigation session that two commands load, change and save.
2. `Supervisor`: reader threads, output budget and group kill of `process.rs`.
3. `Concepts`: induction of concepts as a pure algorithm, checked against the
   definition of closed sets on small contexts.
