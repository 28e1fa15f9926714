---------------------------- MODULE FabricProofs ----------------------------
(***************************************************************************)
(* Proofs about the day of lanes and the gate, for any number of lanes and *)
(* agents, any claims, branches and metrics.                               *)
(***************************************************************************)
EXTENDS Fabric, TLAPS

-----------------------------------------------------------------------------
(***************************************************************************)
(* The lease registry.  A run that believes to have a lease has one, or    *)
(* one that was found stale.                                               *)
(***************************************************************************)
HoldersHadLeases == \A r \in holding : registry[r].state \in {"active", "expired"}

LeaseInv == LeaseTypeOK /\ LeasesDisjoint /\ HoldersHadLeases

LEMMA LeaseShared == LeaseInv => SharedOnlyAfterExpiry
BY DEF LeaseInv, LeaseTypeOK, LeasesDisjoint, HoldersHadLeases, SharedOnlyAfterExpiry, Active

LEMMA LeaseInitially == LeaseInit => LeaseInv
BY DEF LeaseInit, LeaseInv, LeaseTypeOK, LeasesDisjoint, HoldersHadLeases, Active, NoLease, Lease

LEMMA GrantKeeps ==
  ASSUME NEW r \in Runs, NEW claims \in SUBSET Resources, LeaseInv,
         Acquire(r, claims) \/ AcquireUnsure(r, claims)
  PROVE  LeaseInv'
<1>. DEFINE new == [state |-> "active", claims |-> claims]
<1>1. /\ registry' = [registry EXCEPT ![r] = new]
      /\ holding' \in {holding, holding \cup {r}}
      /\ \A q \in Runs \ {r} : Active(q) => registry[q].claims \cap claims = {}
  BY DEF Acquire, AcquireUnsure, Grant, Conflict
<1>2. registry \in [Runs -> Lease] /\ new \in Lease
  BY DEF LeaseInv, LeaseTypeOK, Lease
<1>3. /\ registry' \in [Runs -> Lease] /\ registry'[r] = new
      /\ \A q \in Runs \ {r} : registry'[q] = registry[q]
  BY <1>1, <1>2
<1>4. LeaseTypeOK' /\ HoldersHadLeases'
  BY <1>1, <1>3 DEF LeaseInv, LeaseTypeOK, HoldersHadLeases
<1>5. LeasesDisjoint'
  <2>. SUFFICES ASSUME NEW p \in Runs, NEW q \in Runs, p # q, Active(p)', Active(q)'
                PROVE  registry'[p].claims \cap registry'[q].claims = {}
    BY DEF LeasesDisjoint
  <2>1. CASE p # r /\ q # r
    BY <2>1, <1>3 DEF LeaseInv, LeasesDisjoint, Active
  <2>2. CASE p = r \/ q = r
    BY <2>2, <1>1, <1>3 DEF Active
  <2>. QED  BY <2>1, <2>2
<1>. QED  BY <1>4, <1>5 DEF LeaseInv

(* Who releases a lease, or is refused by heartbeat, holds it no more.     *)
LEMMA LetGoKeeps ==
  ASSUME NEW r \in Runs, LeaseInv, Release(r) \/ ReleaseUnsure(r) \/ Heartbeat(r)
  PROVE  LeaseInv'
<1>1. /\ holding' = holding \ {r}
      /\ \/ UNCHANGED registry
         \/ registry' = [registry EXCEPT ![r].state = IF @ = "none" THEN "none" ELSE "released"]
  BY DEF Release, ReleaseUnsure, Heartbeat, Mark
<1>2. /\ registry' \in [Runs -> Lease]
      /\ \A q \in Runs \ {r} : registry'[q] = registry[q]
      /\ Active(r)' => Active(r)
      /\ registry'[r].claims = registry[r].claims
  BY <1>1 DEF LeaseInv, LeaseTypeOK, Lease, Active
<1>. QED
  BY <1>1, <1>2 DEF LeaseInv, LeaseTypeOK, LeasesDisjoint, HoldersHadLeases, Active

LEMMA ExpireKeeps == ASSUME NEW late, LeaseInv, Expire(late) PROVE LeaseInv'
<1>1. /\ registry' \in [Runs -> Lease]
      /\ \A r \in Runs : /\ registry'[r].claims = registry[r].claims
                         /\ Active(r)' => Active(r)
                         /\ registry'[r].state \in {registry[r].state, "expired"}
  BY DEF Expire, LeaseInv, LeaseTypeOK, Lease, Active
<1>. QED
  BY <1>1 DEF Expire, LeaseInv, LeaseTypeOK, LeasesDisjoint, HoldersHadLeases, Active

LEMMA LeaseFrame == LeaseInv /\ UNCHANGED leaseVars => LeaseInv'
BY DEF LeaseInv, LeaseTypeOK, LeasesDisjoint, HoldersHadLeases, Active, leaseVars

LEMMA LeaseStep == LeaseInv /\ [Next]_vars => LeaseInv'
<1>. SUFFICES ASSUME LeaseInv, [Next]_vars PROVE LeaseInv'
  OBVIOUS
<1>1. ASSUME NEW l \in Lanes, TakeLease(l) PROVE LeaseInv'
  BY <1>1, GrantKeeps, LeaseFrame, LanesAssumption, LeaseAssumption DEF TakeLease, Lanes
<1>2. ASSUME NEW l \in Lanes, DropLease(l) PROVE LeaseInv'
  BY <1>2, LetGoKeeps, LanesAssumption DEF DropLease, Lanes
<1>3. ASSUME NEW l \in Lanes,
             Announce(l) \/ CreateWorktree(l) \/ Run(l) \/ Commit(l) \/ Retire(l) \/ Report(l)
      PROVE  LeaseInv'
  BY <1>3, LeaseFrame DEF Announce, CreateWorktree, Run, Commit, Retire, Report
<1>4. ASSUME FinishLanes \/ IntegrateDay PROVE LeaseInv'
  BY <1>4, LeaseFrame DEF FinishLanes, IntegrateDay
<1>5. ASSUME NEW a \in Agents, Agent(a) PROVE LeaseInv'
  BY <1>5, GrantKeeps, LetGoKeeps, LanesAssumption, LeaseAssumption DEF Agent
<1>6. ASSUME Operator PROVE LeaseInv'
  BY <1>6, ExpireKeeps DEF Operator
<1>7. ASSUME SetAside PROVE LeaseInv'
  BY <1>7 DEF SetAside, LeaseInv, LeaseTypeOK, LeasesDisjoint, HoldersHadLeases, Active,
              NoLease, Lease
<1>8. ASSUME UNCHANGED leaseVars PROVE LeaseInv'
  BY <1>8, LeaseFrame
<1>. QED
  BY <1>1, <1>2, <1>3, <1>4, <1>5, <1>6, <1>7, <1>8 DEF Next, LanesNext, Lane, vars

(* Two runs that believe to hold one resource are told apart by an expiry, *)
(* in every state of any number of lanes and agents.                       *)
THEOREM HoldersToldApart == Spec => []SharedOnlyAfterExpiry
<1>1. Init => LeaseInv
  BY LeaseInitially DEF Init, LanesInit
<1>. QED  BY <1>1, LeaseStep, LeaseShared, PTL DEF Spec

-----------------------------------------------------------------------------
(***************************************************************************)
(* A lane and what it has left: its rows, its worktree and its branch.     *)
(***************************************************************************)
Stages == {"idle", "announce", "create", "run", "commit", "retire", "release", "report",
           "failed", "done"}

Heads == SUBSET (Branches \cup Others)

LaneTypeOK ==
  /\ options \in Options
  /\ stage \in [Lanes -> Stages]
  /\ result \in [Lanes -> Results \cup {"none"}]
  /\ receipts \in [Lanes -> BOOLEAN]
  /\ outcome \in [Lanes -> Results \cup {"none", "failed", "infra_error"}]
  /\ worktrees \subseteq Lanes
  /\ branch \in [Branches -> Heads \cup {None}]
  /\ target \in Heads

LaneOK(l) ==
  /\ stage[l] \in {"run", "commit", "retire"} => l \in worktrees
  /\ stage[l] \in {"run", "commit", "retire", "release", "report"} => branch[l] # None
  /\ stage[l] \in {"release", "report"} => l \notin worktrees
  /\ stage[l] \in {"commit", "retire", "release", "report"} => result[l] # "none"
  /\ outcome[l] # "none" <=> stage[l] = "done"
  /\ ~receipts[l] => options.checked /\ result[l] = "passed"
  /\ options.bus /\ (result[l] # "none" \/ stage[l] \in {"create", "run"}) =>
       Intent(l) \in posted

VouchedFor(l) ==
  outcome[l] = "passed" =>
    /\ result[l] = "passed" /\ receipts[l]
    /\ l \notin worktrees /\ branch[l] # None
    /\ options.bus => {Intent(l), Verdict(l, "passed")} \subseteq posted

LanesOK == \A l \in Lanes : LaneOK(l) /\ VouchedFor(l)

(* A lane keeps its lease from its first step to the one that drops it.    *)
LanesLeased == \A l \in Lanes : stage[l] \in Leased => l \in holding

LEMMA LaneFacts == LanesOK => (LanesLeased => LaneInv) /\ PassedIsVouchedFor
BY DEF LanesOK, LaneOK, VouchedFor, LanesLeased, LaneInv, PassedIsVouchedFor

(* What the steps of the others leave of a lane.                           *)
Untouched(l) ==
  /\ UNCHANGED options
  /\ stage'[l] = stage[l] /\ result'[l] = result[l] /\ receipts'[l] = receipts[l]
  /\ outcome'[l] = outcome[l] /\ branch'[l] = branch[l]
  /\ l \in worktrees' <=> l \in worktrees
  /\ posted \subseteq posted'

LEMMA UntouchedKeeps ==
  ASSUME NEW l, LaneOK(l), VouchedFor(l), Untouched(l)
  PROVE  LaneOK(l)' /\ VouchedFor(l)'
BY DEF LaneOK, VouchedFor, Untouched, Intent, Verdict

LEMMA LanesInBranches == Lanes \subseteq Branches
BY FabricAssumption

LEMMA OthersUntouched ==
  ASSUME LaneTypeOK, NEW k \in Lanes, Lane(k), NEW l \in Lanes, l # k
  PROVE  Untouched(l)
<1>1. k \in Branches /\ l \in Branches
  BY LanesInBranches
<1>2. CASE TakeLease(k)
  BY <1>2 DEF LaneTypeOK, Untouched, TakeLease, Go, End, repository
<1>3. CASE Announce(k)
  BY <1>3 DEF LaneTypeOK, Untouched, Announce, Go, Fails, repository
<1>4. CASE CreateWorktree(k)
  BY <1>1, <1>4 DEF LaneTypeOK, Untouched, CreateWorktree, Go, Fails
<1>5. CASE Run(k)
  BY <1>1, <1>5 DEF LaneTypeOK, Untouched, Run, Go, Fails
<1>6. CASE Commit(k)
  BY <1>1, <1>6 DEF LaneTypeOK, Untouched, Commit, Go, Fails
<1>7. CASE Retire(k)
  BY <1>7 DEF LaneTypeOK, Untouched, Retire, Go, Fails, repository
<1>8. CASE DropLease(k)
  BY <1>8 DEF LaneTypeOK, Untouched, DropLease, Go, End, repository
<1>9. CASE Report(k)
  BY <1>9 DEF LaneTypeOK, Untouched, Report, Go, End, repository
<1>. QED  BY <1>2, <1>3, <1>4, <1>5, <1>6, <1>7, <1>8, <1>9 DEF Lane

LEMMA BranchGrows ==
  ASSUME LaneTypeOK, NEW l \in Branches, branch[l] # None,
         branch' \in {branch, [branch EXCEPT ![l] = @ \cup {l}]}
  PROVE  /\ branch' \in [Branches -> Heads \cup {None}]
         /\ branch'[l] # None
<1>1. branch[l] \cup {l} \in Heads
  BY DEF LaneTypeOK, Heads
<1>2. branch[l] \cup {l} # None
  BY <1>1, FabricAssumption DEF Heads
<1>. QED  BY <1>1, <1>2 DEF LaneTypeOK

LEMMA HeadIsThere == LaneTypeOK => \A head \in HEAD : head \in Heads /\ head # None
<1>1. Checkout \in Heads
  BY LanesAssumption DEF Heads
<1>2. \A head \in Heads : head # None
  BY FabricAssumption DEF Heads
<1>. QED  BY <1>1, <1>2 DEF HEAD, LaneTypeOK

LEMMA OwnLane ==
  ASSUME LaneTypeOK, NEW l \in Lanes, Lane(l), LaneOK(l), VouchedFor(l)
  PROVE  LaneTypeOK' /\ LaneOK(l)' /\ VouchedFor(l)'
<1>1. /\ l \in Branches
      /\ \A head \in Heads : head # None
      /\ "passed" \in Results /\ "none" \notin Results
  BY LanesInBranches, FabricAssumption, LanesAssumption DEF Heads
<1>2. CASE TakeLease(l)
  BY <1>1, <1>2
  DEF LaneTypeOK, LaneOK, VouchedFor, TakeLease, At, Go, End, repository, Stages, Intent, Verdict
<1>3. CASE Announce(l)
  BY <1>1, <1>3
  DEF LaneTypeOK, LaneOK, VouchedFor, Announce, At, Go, Fails, repository, Stages, Intent, Verdict
<1>4. CASE CreateWorktree(l)
  <2>1. branch' \in [Branches -> Heads \cup {None}]
    BY <1>1, <1>4, HeadIsThere DEF LaneTypeOK, CreateWorktree
  <2>2. /\ stage[l] = "create" /\ stage' \in [Lanes -> Stages]
        /\ \/ stage'[l] = "failed"
           \/ stage'[l] = "run" /\ l \in worktrees' /\ branch'[l] # None
    BY <1>1, <1>4, HeadIsThere DEF LaneTypeOK, CreateWorktree, At, Go, Fails, Stages
  <2>3. worktrees' \subseteq Lanes
    BY <1>4 DEF LaneTypeOK, CreateWorktree
  <2>. QED
    BY <1>1, <1>4, <2>1, <2>2, <2>3
    DEF LaneTypeOK, LaneOK, VouchedFor, CreateWorktree, Intent, Verdict
<1>5. CASE Run(l)
  <2>1. stage[l] = "run" /\ branch[l] # None
    BY <1>5 DEF Run, At, LaneOK
  <2>2. /\ branch' \in [Branches -> Heads \cup {None}]
        /\ branch'[l] # None
    BY <1>1, <1>5, <2>1, BranchGrows DEF Run
  <2>3. CASE Fails(l) /\ UNCHANGED <<result, receipts>>
    BY <1>1, <1>5, <2>1, <2>2, <2>3
    DEF LaneTypeOK, LaneOK, VouchedFor, Run, Go, Fails, Stages, Intent, Verdict
  <2>4. CASE /\ Go(l, "commit")
             /\ \E r \in Results :
                  /\ result' = [result EXCEPT ![l] = r]
                  /\ \E ok \in BOOLEAN :
                       /\ ok \/ (options.checked /\ r = "passed")
                       /\ receipts' = [receipts EXCEPT ![l] = ok]
    <3>1. PICK r \in Results, ok \in BOOLEAN :
            /\ result' = [result EXCEPT ![l] = r]
            /\ ok \/ (options.checked /\ r = "passed")
            /\ receipts' = [receipts EXCEPT ![l] = ok]
      BY <2>4
    <3>. QED
      BY <1>1, <1>5, <2>1, <2>2, <2>4, <3>1
      DEF LaneTypeOK, LaneOK, VouchedFor, Run, Go, Stages, Intent, Verdict
  <2>. QED  BY <1>5, <2>3, <2>4 DEF Run
<1>6. CASE Commit(l)
  <2>1. stage[l] = "commit" /\ branch[l] # None
    BY <1>6 DEF Commit, At, LaneOK
  <2>2. /\ branch' \in [Branches -> Heads \cup {None}]
        /\ branch'[l] # None
    BY <1>1, <1>6, <2>1, BranchGrows DEF Commit
  <2>. QED
    BY <1>1, <1>6, <2>1, <2>2
    DEF LaneTypeOK, LaneOK, VouchedFor, Commit, Go, Fails, Stages, Intent, Verdict
<1>7. CASE Retire(l)
  BY <1>1, <1>7
  DEF LaneTypeOK, LaneOK, VouchedFor, Retire, At, Go, Fails, repository, Stages, Intent, Verdict
<1>8. CASE DropLease(l)
  BY <1>1, <1>8
  DEF LaneTypeOK, LaneOK, VouchedFor, DropLease, At, Go, End, repository, Stages, Intent, Verdict
<1>9. CASE Report(l)
  <2>. DEFINE e == EffectiveResult(l)
  <2>1. /\ stage[l] = "report"
        /\ e \in Results \cup {"failed"} /\ e # "none"
        /\ e = "passed" => result[l] = "passed" /\ receipts[l]
    BY <1>1, <1>9 DEF LaneTypeOK, LaneOK, Report, At, EffectiveResult
  <2>2. CASE /\ End(l, e)
             /\ IF options.bus THEN posted' = posted \cup {Verdict(l, e)} ELSE posted' = posted
    <3>. HIDE DEF e
    <3>. QED
      BY <1>1, <1>9, <2>1, <2>2
      DEF LaneTypeOK, LaneOK, VouchedFor, Report, Go, End, repository, Stages, Intent, Verdict
  <2>3. CASE End(l, "infra_error") /\ posted' \in {posted, posted \cup {Verdict(l, e)}}
    <3>. HIDE DEF e
    <3>. QED
      BY <1>1, <1>9, <2>1, <2>3
      DEF LaneTypeOK, LaneOK, VouchedFor, Report, Go, End, repository, Stages, Intent, Verdict
  <2>. QED  BY <1>9, <2>2, <2>3 DEF Report
<1>. QED  BY <1>2, <1>3, <1>4, <1>5, <1>6, <1>7, <1>8, <1>9 DEF Lane

-----------------------------------------------------------------------------
(***************************************************************************)
(* An integration: what it stacks is there, and it has a tree to show for  *)
(* it, in a worktree, until it is discarded.                               *)
(***************************************************************************)
Integrations ==
  [status : {"none", "merging", "merged", "conflict", "error"}, head : Heads \cup {None},
   todo : SUBSET Branches, snapshot : Snapshots \cup {None}, kept : BOOLEAN]

Sound(t) ==
  /\ t.status \in {"merging", "merged"} => t.head # None /\ t.kept
  /\ t.status = "merging" => \A b \in t.todo : branch[b] # None

StackTypeOK == stacks \in [Stackers -> Integrations]

LEMMA NoStackIsSound == NoStack \in Integrations /\ Sound(NoStack)
BY DEF NoStack, Integrations, Sound

LEMMA StackStarts ==
  ASSUME LaneTypeOK, StackTypeOK, NEW w \in Stackers,
         NEW chosen \in SUBSET {b \in Branches : branch[b] # None}, Stack(w, chosen)
  PROVE  \E t \in Integrations :
           /\ stacks' = [stacks EXCEPT ![w] = t] /\ UNCHANGED <<target, branch>>
           /\ Sound(t)
           /\ \/ t.status = "merging" /\ t.head = target /\ t.todo = chosen
              \/ t.status = "error" /\ t.head = None
<1>. DEFINE t1 == [NoStack EXCEPT !.status = "merging", !.head = target, !.todo = chosen,
                                  !.kept = TRUE]
            t2 == [NoStack EXCEPT !.status = "error"]
<1>1. SetStack(w, t1) \/ SetStack(w, t2)
  BY Zenon DEF Stack
<1>2. /\ t1 \in Integrations /\ t1.status = "merging" /\ t1.head = target /\ t1.todo = chosen
      /\ t1.kept = TRUE
      /\ t2 \in Integrations /\ t2.status = "error" /\ t2.head = None
  BY NoStackIsSound DEF Integrations, LaneTypeOK, NoStack
<1>3. target # None
  BY FabricAssumption DEF LaneTypeOK, Heads
<1>4. Sound(t1) /\ Sound(t2)
  <2>. HIDE DEF t1, t2
  <2>. QED  BY <1>2, <1>3 DEF Sound
<1>. HIDE DEF t1, t2
<1>. QED
  BY <1>1, <1>2, <1>4 DEF SetStack

(* A step stacks one more branch, ends the stacking, or gives it up.       *)
LEMMA StackAdvances ==
  ASSUME LaneTypeOK, StackTypeOK, NEW w \in Stackers, Sound(stacks[w]), StackStep(w)
  PROVE  \E t \in Integrations :
           /\ stacks' = [stacks EXCEPT ![w] = t] /\ UNCHANGED <<target, branch>>
           /\ Sound(t) /\ stacks[w].status = "merging"
           /\ \/ t.status \in {"conflict", "error"} /\ t.head \in {None, stacks[w].head}
              \/ \E b \in stacks[w].todo :
                   /\ t.status = "merging" /\ t.head = stacks[w].head \cup branch[b]
                   /\ t.todo = stacks[w].todo \ {b}
              \/ t.status = "merged" /\ stacks[w].todo = {} /\ t.head = stacks[w].head
<1>. DEFINE s == stacks[w]
            none(left, status) == [Discarded(left) EXCEPT !.status = status]
            Follows(t) ==
              \/ t.status \in {"conflict", "error"} /\ t.head \in {None, s.head}
              \/ \E b \in s.todo : /\ t.status = "merging" /\ t.head = s.head \cup branch[b]
                                   /\ t.todo = s.todo \ {b}
              \/ t.status = "merged" /\ s.todo = {} /\ t.head = s.head
<1>1. s \in Integrations
  BY DEF StackTypeOK
<1>2. ASSUME NEW b \in Branches, Merge(w, b)
      PROVE  \/ \E left \in BOOLEAN, status \in {"conflict", "error"} :
                  SetStack(w, none(left, status))
             \/ SetStack(w, [s EXCEPT !.head = s.head \cup branch[b], !.todo = s.todo \ {b}])
  BY <1>2, Zenon DEF Merge
<1>3. ASSUME NEW b \in Branches, Merge(w, b)
      PROVE  s.status = "merging" /\ b \in s.todo
  BY <1>3 DEF Merge
<1>4. ASSUME NEW left \in BOOLEAN, NEW status \in {"conflict", "error"}
      PROVE  /\ none(left, status) \in Integrations /\ Sound(none(left, status))
             /\ none(left, status).status = status /\ none(left, status).head = None
  BY <1>4, NoStackIsSound DEF Integrations, Sound, NoStack, Discarded
<1>5. ASSUME NEW b \in Branches, s.status = "merging", b \in s.todo
      PROVE  LET t == [s EXCEPT !.head = s.head \cup branch[b], !.todo = s.todo \ {b}]
             IN  /\ t \in Integrations /\ Sound(t) /\ t.status = "merging"
                 /\ t.head = s.head \cup branch[b] /\ t.todo = s.todo \ {b}
  <2>1. s.head \in Heads /\ branch[b] \in Heads
    BY <1>1, <1>5 DEF Integrations, Sound, LaneTypeOK
  <2>2. s.head \cup branch[b] \in Heads /\ s.head \cup branch[b] # None
    BY <2>1, FabricAssumption DEF Heads
  <2>. QED  BY <1>1, <1>5, <2>2 DEF Integrations, Sound
<1>6. ASSUME NEW b \in Branches, Merge(w, b)
      PROVE  \E t \in Integrations :
               SetStack(w, t) /\ Sound(t) /\ s.status = "merging" /\ Follows(t)
  <2>. HIDE DEF s
  <2>1. CASE \E left \in BOOLEAN, status \in {"conflict", "error"} :
               SetStack(w, none(left, status))
    <3>1. PICK left \in BOOLEAN, status \in {"conflict", "error"} :
            SetStack(w, none(left, status))
      BY <2>1
    <3>2. s.status = "merging"
      BY <1>3, <1>6
    <3>. HIDE DEF none
    <3>. QED  BY <1>4, <3>1, <3>2
  <2>2. CASE SetStack(w, [s EXCEPT !.head = s.head \cup branch[b], !.todo = s.todo \ {b}])
    <3>. DEFINE t == [s EXCEPT !.head = s.head \cup branch[b], !.todo = s.todo \ {b}]
    <3>1. s.status = "merging" /\ b \in s.todo
      BY <1>3, <1>6
    <3>2. /\ t \in Integrations /\ Sound(t) /\ t.status = "merging"
          /\ t.head = s.head \cup branch[b] /\ t.todo = s.todo \ {b}
      BY <1>5, <3>1
    <3>3. SetStack(w, t)
      BY <2>2
    <3>. HIDE DEF t
    <3>. QED  BY <3>1, <3>2, <3>3
  <2>. QED  BY <1>2, <1>6, <2>1, <2>2
<1>7. ASSUME Measure(w)
      PROVE  \E t \in Integrations :
               SetStack(w, t) /\ Sound(t) /\ s.status = "merging" /\ Follows(t)
  <2>0. s.status = "merging" /\ s.todo = {}
    BY <1>7 DEF Measure
  <2>1. CASE \E snapshot \in Snapshots \cup {None} :
               SetStack(w, [s EXCEPT !.status = "merged", !.snapshot = snapshot])
    <3>1. PICK snapshot \in Snapshots \cup {None} :
            SetStack(w, [s EXCEPT !.status = "merged", !.snapshot = snapshot])
      BY <2>1
    <3>. DEFINE t == [s EXCEPT !.status = "merged", !.snapshot = snapshot]
    <3>2. t \in Integrations /\ t.status = "merged" /\ t.head = s.head /\ t.kept = s.kept
      BY <1>1 DEF Integrations
    <3>3. Sound(t)
      BY <2>0, <3>2 DEF Sound
    <3>4. SetStack(w, t)
      BY <3>1
    <3>. HIDE DEF t
    <3>. QED  BY <2>0, <3>2, <3>3, <3>4
  <2>2. CASE SetStack(w, [s EXCEPT !.status = "error"])
    <3>. DEFINE t == [s EXCEPT !.status = "error"]
    <3>1. t \in Integrations /\ t.status = "error" /\ t.head = s.head
      BY <1>1 DEF Integrations
    <3>2. Sound(t)
      BY <3>1 DEF Sound
    <3>3. SetStack(w, t)
      BY <2>2
    <3>. HIDE DEF t
    <3>. QED  BY <2>0, <3>1, <3>2, <3>3
  <2>. QED  BY <1>7, <2>1, <2>2 DEF Measure
<1>. QED  BY <1>6, <1>7 DEF StackStep, SetStack

-----------------------------------------------------------------------------
(***************************************************************************)
(* The day and the gate.  The day stacks only when every lane has ended,   *)
(* and what it has stacked and has still to stack is the work that passed. *)
(***************************************************************************)
Work == target \cup UNION {branch[l] : l \in Passed}

Whole(t) ==
  /\ t.head # None => t.head \subseteq Work
  /\ t.status = "merging" =>
       t.todo \subseteq Passed /\ Work = t.head \cup UNION {branch[b] : b \in t.todo}
  /\ t.status = "merged" => t.head = Work

DayInv ==
  LET s == stacks["day"] IN
  /\ day \in {"running", "none"} => s = NoStack
  /\ Sound(s) /\ Whole(s)

GateInv ==
  LET s == stacks["gate"] IN
  /\ gate # "done" => Sound(s)
  /\ gate \in {"baseline", "stacking", "promoting"} => baseline \in Snapshots
  /\ gate = "promoting" => /\ promote /\ s.head # None
                           /\ s.snapshot \in Snapshots /\ s.snapshot # None
                           /\ Evaluate(baseline, s.snapshot) = "improved"

RepositoryInv == LaneTypeOK /\ StackTypeOK /\ LanesOK /\ DayInv /\ GateInv

LEMMA NothingGoesEarly == DayInv /\ GateInv => NoEarlyDiscard
BY FabricAssumption DEF DayInv, GateInv, NoEarlyDiscard, Sound

LEMMA DayStacksThePassed == DayInv => OnlyPassedIntegrated
BY DEF DayInv, Whole, Work, OnlyPassedIntegrated, Passed

(* One branch after another, the whole stays the work that passed.         *)
LEMMA WholeAdvances ==
  ASSUME NEW s, NEW t, Whole(s), s.status = "merging", s.head # None,
         \/ t.status \in {"conflict", "error"} /\ t.head \in {None, s.head}
         \/ \E b \in s.todo : /\ t.status = "merging" /\ t.head = s.head \cup branch[b]
                              /\ t.todo = s.todo \ {b}
         \/ t.status = "merged" /\ s.todo = {} /\ t.head = s.head
  PROVE  Whole(t)
<1>1. /\ s.head \subseteq Work /\ s.todo \subseteq Passed
      /\ Work = s.head \cup UNION {branch[b] : b \in s.todo}
  BY DEF Whole
<1>2. CASE t.status \in {"conflict", "error"} /\ t.head \in {None, s.head}
  BY <1>1, <1>2 DEF Whole
<1>3. ASSUME NEW b \in s.todo, t.status = "merging", t.head = s.head \cup branch[b],
             t.todo = s.todo \ {b}
      PROVE  Whole(t)
  <2>1. UNION {branch[c] : c \in s.todo} = branch[b] \cup UNION {branch[c] : c \in s.todo \ {b}}
    OBVIOUS
  <2>. HIDE DEF Work
  <2>2. Work = t.head \cup UNION {branch[c] : c \in t.todo}
    BY <1>1, <1>3, <2>1
  <2>. QED  BY <1>1, <1>3, <2>2 DEF Whole
<1>4. CASE t.status = "merged" /\ s.todo = {} /\ t.head = s.head
  <2>1. UNION {branch[b] : b \in s.todo} = {}
    BY <1>4
  <2>. HIDE DEF Work
  <2>. QED  BY <1>1, <1>4, <2>1 DEF Whole
<1>. QED  BY <1>2, <1>3, <1>4

LEMMA RepositoryInitially == Init => RepositoryInv
<1>. SUFFICES ASSUME Init PROVE RepositoryInv
  OBVIOUS
<1>. USE DEF Init, LanesInit, IntegrationInit, GateInit
<1>1. LaneTypeOK
  BY DEF LaneTypeOK, Stages, Heads
<1>2. \A w \in Stackers : stacks[w] = NoStack
  OBVIOUS
<1>3. StackTypeOK
  BY NoStackIsSound DEF StackTypeOK
<1>4. LanesOK
  BY DEF LanesOK, LaneOK, VouchedFor
<1>5. NoStack.head = None /\ NoStack.status = "none"
  BY DEF NoStack
<1>6. DayInv
  BY <1>2, <1>5, NoStackIsSound, FabricAssumption DEF DayInv, Whole
<1>7. GateInv
  BY <1>2, <1>5, NoStackIsSound, FabricAssumption DEF GateInv
<1>. QED  BY <1>1, <1>3, <1>4, <1>6, <1>7 DEF RepositoryInv

(* A lane's own step: the gate and the stacks stay, and the others' lanes. *)
LEMMA LaneKeeps ==
  ASSUME RepositoryInv, NEW k \in Lanes, Lane(k), UNCHANGED gateVars
  PROVE  RepositoryInv'
<1>1. LaneTypeOK' /\ LaneOK(k)' /\ VouchedFor(k)'
  BY OwnLane DEF RepositoryInv, LanesOK
<1>2. UNCHANGED <<options, day, target, stacks>> /\ day = "running"
  BY DEF Lane, TakeLease, Announce, CreateWorktree, Run, Commit, Retire, DropLease, Report, At,
         repository
<1>3. LanesOK'
  <2>. SUFFICES ASSUME NEW l \in Lanes PROVE LaneOK(l)' /\ VouchedFor(l)'
    BY <1>2 DEF LanesOK
  <2>1. CASE l = k
    BY <1>1, <2>1
  <2>2. CASE l # k
    <3>1. Untouched(l)
      BY <2>2, OthersUntouched DEF RepositoryInv
    <3>. QED  BY <3>1, UntouchedKeeps DEF RepositoryInv, LanesOK
  <2>. QED  BY <2>1, <2>2
<1>4. StackTypeOK'
  BY <1>2 DEF RepositoryInv, StackTypeOK
<1>5. k \in Branches
  BY LanesInBranches
<1>6. \A b \in Branches : branch[b] # None => branch'[b] # None
  <2>1. CASE branch' = branch
    BY <2>1
  <2>2. CASE CreateWorktree(k)
    <3>1. \/ branch' = branch
          \/ \E head \in HEAD : branch' = [branch EXCEPT ![k] = head]
      BY <2>2 DEF CreateWorktree
    <3>. QED  BY <3>1, HeadIsThere DEF RepositoryInv, LaneTypeOK
  <2>3. CASE branch' = [branch EXCEPT ![k] = @ \cup {k}] /\ branch[k] # None
    <3>1. branch'[k] # None
      BY <2>3, <1>5, BranchGrows DEF RepositoryInv
    <3>. QED  BY <2>3, <3>1 DEF RepositoryInv, LaneTypeOK
  <2>4. Run(k) \/ Commit(k) => branch[k] # None
    BY DEF RepositoryInv, LanesOK, LaneOK, Run, Commit, At
  <2>. QED
    BY <2>1, <2>2, <2>3, <2>4 DEF Lane, TakeLease, Announce, Run, Commit, Retire, DropLease,
                                  Report, repository
<1>7. Sound(stacks["day"])' /\ (Sound(stacks["gate"]) => Sound(stacks["gate"])')
  <2>1. stacks["day"] = NoStack
    BY <1>2 DEF RepositoryInv, DayInv
  <2>2. NoStack.status = "none"
    BY DEF NoStack
  <2>3. stacks["gate"] \in Integrations
    BY FabricAssumption DEF RepositoryInv, StackTypeOK
  <2>. QED  BY <1>2, <1>6, <2>1, <2>2, <2>3 DEF Sound, Integrations
<1>8. DayInv'
  <2>1. stacks["day"] = NoStack
    BY <1>2 DEF RepositoryInv, DayInv
  <2>2. NoStack.head = None /\ NoStack.status = "none"
    BY DEF NoStack
  <2>. QED  BY <1>2, <1>7, <2>1, <2>2 DEF RepositoryInv, DayInv, Whole
<1>9. GateInv'
  BY <1>2, <1>7 DEF RepositoryInv, GateInv, gateVars
<1>. QED  BY <1>1, <1>3, <1>4, <1>8, <1>9 DEF RepositoryInv

(* Steps that change neither a lane nor what it has left.                  *)
LEMMA LanesStay ==
  ASSUME LaneTypeOK, LanesOK,
         UNCHANGED <<options, stage, result, receipts, outcome, posted, worktrees, branch>>,
         target' \in Heads
  PROVE  LaneTypeOK' /\ LanesOK'
<1>1. LaneTypeOK'
  BY DEF LaneTypeOK
<1>2. \A l \in Lanes : Untouched(l)
  BY DEF Untouched
<1>. QED  BY <1>1, <1>2, UntouchedKeeps DEF LanesOK

LEMMA DayEnds ==
  ASSUME RepositoryInv, FinishLanes \/ (\E a \in Agents : Agent(a)) \/ Operator,
         UNCHANGED gateVars
  PROVE  RepositoryInv'
<1>. USE DEF RepositoryInv
<1>1. /\ UNCHANGED <<options, stage, result, receipts, outcome, posted, worktrees, branch, target>>
      /\ \/ UNCHANGED <<day, stacks>>
         \/ day # "none" /\ day' = "over" /\ UNCHANGED stacks
         \/ day = "running" /\ day' = "integrating" /\ Stack("day", Passed)
  BY DEF FinishLanes, Agent, Operator, laneVars, repository, Stack, SetStack
<1>2. LaneTypeOK' /\ LanesOK'
  <2>1. target' \in Heads
    BY <1>1 DEF LaneTypeOK
  <2>. QED  BY <1>1, <2>1, LanesStay
<1>3. Stackers = {"day", "gate"}
  BY FabricAssumption
<1>4. CASE /\ UNCHANGED stacks
           /\ day' = day \/ (day # "none" /\ day' = "over")
  <2>1. StackTypeOK'
    BY <1>4 DEF StackTypeOK
  <2>2. DayInv'
    BY <1>1, <1>4 DEF DayInv, Sound, Whole, Work, Passed
  <2>3. GateInv'
    BY <1>1, <1>4 DEF GateInv, Sound, gateVars
  <2>. QED  BY <1>2, <2>1, <2>2, <2>3
<1>5. CASE day = "running" /\ day' = "integrating" /\ Stack("day", Passed)
  <2>1. Passed \in SUBSET {b \in Branches : branch[b] # None}
    BY LanesInBranches DEF Passed, LanesOK, VouchedFor
  <2>2. PICK t \in Integrations :
          /\ stacks' = [stacks EXCEPT !["day"] = t]
          /\ Sound(t)
          /\ \/ t.status = "merging" /\ t.head = target /\ t.todo = Passed
             \/ t.status = "error" /\ t.head = None
    BY <1>3, <1>5, <2>1, StackStarts
  <2>3. /\ StackTypeOK' /\ stacks'["day"] = t /\ stacks'["gate"] = stacks["gate"]
    BY <1>3, <2>2 DEF StackTypeOK
  <2>4. Whole(t)
    BY <2>2 DEF Whole, Work
  <2>5. DayInv'
    BY <1>1, <1>5, <2>2, <2>3, <2>4 DEF DayInv, Sound, Whole, Work, Passed
  <2>6. GateInv'
    BY <1>1, <2>3 DEF GateInv, Sound, gateVars
  <2>. QED  BY <1>2, <2>3, <2>5, <2>6
<1>. QED  BY <1>1, <1>4, <1>5

LEMMA DayIntegrates ==
  ASSUME RepositoryInv, IntegrateDay, UNCHANGED gateVars
  PROVE  RepositoryInv'
<1>. USE DEF RepositoryInv
<1>1. /\ UNCHANGED <<options, stage, result, receipts, outcome, posted, worktrees, branch, target>>
      /\ day = "integrating"
      /\ \/ day' = "over" /\ UNCHANGED stacks
         \/ day' = day /\ StackStep("day")
  BY DEF IntegrateDay, repository, StackStep, Merge, Measure, SetStack
<1>2. LaneTypeOK' /\ LanesOK'
  <2>1. target' \in Heads
    BY <1>1 DEF LaneTypeOK
  <2>. QED  BY <1>1, <2>1, LanesStay
<1>3. Stackers = {"day", "gate"}
  BY FabricAssumption
<1>4. CASE day' = "over" /\ UNCHANGED stacks
  <2>1. StackTypeOK'
    BY <1>4 DEF StackTypeOK
  <2>2. DayInv'
    BY <1>1, <1>4 DEF DayInv, Sound, Whole, Work, Passed
  <2>3. GateInv'
    BY <1>1, <1>4 DEF GateInv, Sound, gateVars
  <2>. QED  BY <1>2, <2>1, <2>2, <2>3
<1>5. CASE day' = day /\ StackStep("day")
  <2>. DEFINE s == stacks["day"]
  <2>1. PICK t \in Integrations :
          /\ stacks' = [stacks EXCEPT !["day"] = t]
          /\ Sound(t) /\ s.status = "merging"
          /\ \/ t.status \in {"conflict", "error"} /\ t.head \in {None, s.head}
             \/ \E b \in s.todo : /\ t.status = "merging" /\ t.head = s.head \cup branch[b]
                                  /\ t.todo = s.todo \ {b}
             \/ t.status = "merged" /\ s.todo = {} /\ t.head = s.head
    BY <1>3, <1>5, StackAdvances DEF DayInv
  <2>2. StackTypeOK' /\ stacks'["day"] = t /\ stacks'["gate"] = stacks["gate"]
    BY <1>3, <2>1 DEF StackTypeOK
  <2>3. Whole(t)
    BY <2>1, WholeAdvances DEF DayInv, Sound
  <2>4. DayInv'
    BY <1>1, <1>5, <2>1, <2>2, <2>3 DEF DayInv, Sound, Whole, Work, Passed
  <2>5. GateInv'
    BY <1>1, <2>2 DEF GateInv, Sound, gateVars
  <2>. QED  BY <1>2, <2>2, <2>4, <2>5
<1>. QED  BY <1>1, <1>4, <1>5

LEMMA SettingAsideKeeps == ASSUME RepositoryInv, SetAside PROVE RepositoryInv'
<1>. USE DEF RepositoryInv
<1>1. Stackers = {"day", "gate"}
  BY FabricAssumption
<1>2. NoStack.head = None /\ NoStack.status = "none"
  BY DEF NoStack
<1>3. options' \in Options
  <2>1. options \in [{"parallel", "bus", "checked"} -> BOOLEAN]
    BY DEF LaneTypeOK, Options
  <2>2. options' = [option \in {"parallel", "bus", "checked"} |-> FALSE]
    BY <2>1 DEF SetAside
  <2>. QED  BY <2>2 DEF Options
<1>4. LaneTypeOK'
  BY <1>3 DEF SetAside, LaneTypeOK, Stages
<1>5. LanesOK'
  BY DEF SetAside, LanesOK, LaneOK, VouchedFor
<1>6. /\ StackTypeOK' /\ stacks'["day"] = NoStack /\ stacks'["gate"] = stacks["gate"]
  BY <1>1, NoStackIsSound DEF SetAside, StackTypeOK
<1>7. Sound(NoStack)'
  BY NoStackIsSound, <1>2 DEF Sound
<1>8. DayInv'
  BY <1>2, <1>6, <1>7 DEF SetAside, DayInv, Whole
<1>9. GateInv'
  BY <1>6 DEF SetAside, GateInv, Sound, gateVars
<1>. QED  BY <1>4, <1>5, <1>6, <1>8, <1>9

(* The gate's steps, on a day that is set aside.                           *)
LEMMA GateKeeps ==
  ASSUME RepositoryInv, day = "none", GateNext, UNCHANGED <<leaseVars, laneVars>>
  PROVE  RepositoryInv'
<1>. USE DEF RepositoryInv
<1>. DEFINE s == stacks["gate"]
<1>1. "gate" \in Stackers /\ "day" \in Stackers
  BY FabricAssumption
<1>2. UNCHANGED <<options, day, stage, result, receipts, outcome, posted, worktrees>>
  BY DEF laneVars
<1>12. NoStack.head = None /\ NoStack.status = "none"
  BY DEF NoStack
<1>3. ASSUME NEW t \in Integrations, stacks' = [stacks EXCEPT !["gate"] = t], UNCHANGED branch,
             target' \in Heads
      PROVE  /\ LaneTypeOK' /\ LanesOK' /\ StackTypeOK' /\ DayInv'
             /\ stacks'["gate"] = t
  <2>1. LaneTypeOK' /\ LanesOK'
    BY <1>2, <1>3, LanesStay
  <2>2. StackTypeOK' /\ stacks'["gate"] = t /\ stacks'["day"] = stacks["day"]
    BY <1>1, <1>3 DEF StackTypeOK
  <2>3. DayInv'
    BY <1>2, <1>3, <2>2, <1>12 DEF DayInv, Sound, Whole
  <2>. QED  BY <2>1, <2>2, <2>3
<1>4. ASSUME UNCHANGED <<stacks, branch>>, target' \in Heads
      PROVE  LaneTypeOK' /\ LanesOK' /\ StackTypeOK' /\ DayInv' /\ (Sound(s) => Sound(s)')
  <2>1. LaneTypeOK' /\ LanesOK'
    BY <1>2, <1>4, LanesStay
  <2>2. StackTypeOK'
    BY <1>4 DEF StackTypeOK
  <2>3. DayInv' /\ (Sound(s) => Sound(s)')
    BY <1>2, <1>4, <1>12 DEF DayInv, Sound, Whole
  <2>. QED  BY <2>1, <2>2, <2>3
<1>5. s \in Integrations /\ target \in Heads
  BY <1>1 DEF StackTypeOK, LaneTypeOK
<1>6. CASE MeasureBaseline
  BY <1>4, <1>5, <1>6 DEF MeasureBaseline, repository, GateInv
<1>7. CASE Integrate
  <2>1. CASE gate = "baseline" /\ gate' = "stacking"
    <3>1. PICK chosen \in SUBSET {b \in Branches : branch[b] # None} : Stack("gate", chosen)
      BY <1>7, <2>1 DEF Integrate
    <3>2. PICK t \in Integrations : /\ stacks' = [stacks EXCEPT !["gate"] = t]
                                    /\ UNCHANGED <<target, branch>> /\ Sound(t)
      BY <1>1, <3>1, StackStarts
    <3>. QED
      BY <1>3, <1>5, <1>7, <2>1, <3>2 DEF Integrate, GateInv, Sound
  <2>2. CASE gate = "stacking" /\ StackStep("gate") /\ UNCHANGED gate
    <3>1. PICK t \in Integrations : /\ stacks' = [stacks EXCEPT !["gate"] = t]
                                    /\ UNCHANGED <<target, branch>> /\ Sound(t)
      BY <1>1, <2>2, StackAdvances DEF GateInv
    <3>. QED
      BY <1>3, <1>5, <1>7, <2>2, <3>1 DEF Integrate, GateInv, Sound
  <2>. QED  BY <1>7, <2>1, <2>2 DEF Integrate
<1>8. CASE Judge
  <2>1. GateInv'
    BY <1>5, <1>8 DEF Judge, GateInv, Sound, Integrations, repository
  <2>. QED  BY <1>4, <1>5, <1>8, <2>1 DEF Judge, repository
<1>9. CASE Promote
  <2>1. /\ UNCHANGED <<promote, baseline, branch, stacks>> /\ gate = "promoting"
        /\ gate' \in {"error", "discarding"} /\ target' \in {target, s.head}
    BY <1>9 DEF Promote
  <2>2. target' \in Heads
    BY <1>5, <2>1 DEF GateInv, Integrations
  <2>. QED  BY <1>4, <2>1, <2>2 DEF GateInv
<1>10. CASE DiscardIntegration
  <2>. DEFINE t(left) == [Discarded(left) EXCEPT !.status = s.status]
  <2>1. \A left \in BOOLEAN : t(left) \in Integrations
    BY <1>5, NoStackIsSound DEF Integrations, Discarded
  <2>2. PICK left \in BOOLEAN : stacks' = [stacks EXCEPT !["gate"] = t(left)]
    BY <1>5, <1>10 DEF DiscardIntegration, Discard, Integrations
  <2>3. t(left) \in Integrations
    BY <2>1, <2>2
  <2>. HIDE DEF t
  <2>4. UNCHANGED branch /\ target' \in Heads /\ gate' = "done"
    BY <1>5, <1>10 DEF DiscardIntegration
  <2>. QED
    BY <1>3, <2>2, <2>3, <2>4 DEF GateInv
<1>11. CASE Push
  <2>1. target' \in Heads
    BY <1>5, <1>11 DEF Push, Heads
  <2>. QED  BY <1>4, <1>11, <2>1 DEF Push, gateVars, GateInv
<1>. QED  BY <1>6, <1>7, <1>8, <1>9, <1>10, <1>11 DEF GateNext

LEMMA RepositoryStep == RepositoryInv /\ [Next]_vars => RepositoryInv'
<1>. SUFFICES ASSUME RepositoryInv, [Next]_vars PROVE RepositoryInv'
  OBVIOUS
<1>1. ASSUME LanesNext, UNCHANGED gateVars PROVE RepositoryInv'
  BY <1>1, LaneKeeps, DayEnds, DayIntegrates DEF LanesNext
<1>2. ASSUME UNCHANGED vars PROVE RepositoryInv'
  BY <1>2
  DEF vars, laneVars, repository, gateVars, RepositoryInv, LaneTypeOK, StackTypeOK, LanesOK,
      LaneOK, VouchedFor, DayInv, GateInv, Sound, Whole, Work, Passed, Intent, Verdict
<1>. QED  BY <1>1, <1>2, SettingAsideKeeps, GateKeeps DEF Next

(* A lane acquires its lease before it does anything, and drops it after   *)
(* everything; agents drop only their own.                                 *)
LEMMA LeasedStep == RepositoryInv /\ LanesLeased /\ [Next]_vars => LanesLeased'
<1>. SUFFICES ASSUME RepositoryInv, LanesLeased, [Next]_vars, NEW l \in Lanes,
                     stage'[l] \in Leased
              PROVE  l \in holding'
  BY DEF LanesLeased
<1>1. LaneTypeOK /\ l \notin Agents
  BY LanesAssumption DEF RepositoryInv, Lanes
<1>2. ASSUME stage'[l] = stage[l], holding \ holding' \subseteq Runs \ {l} PROVE l \in holding'
  BY <1>2, LanesAssumption DEF LanesLeased, Lanes
<1>3. ASSUME NEW k \in Lanes, Lane(k), k # l PROVE l \in holding'
  <2>1. stage'[l] = stage[l]
    BY <1>1, <1>3, OthersUntouched DEF Untouched
  <2>2. holding \ holding' \subseteq {k}
    BY <1>3 DEF Lane, TakeLease, Announce, CreateWorktree, Run, Commit, Retire, DropLease, Report,
                Acquire, AcquireUnsure, ReleaseUnsure, leaseVars
  <2>. QED  BY <1>3, <2>1, <2>2 DEF LanesLeased
<1>4. ASSUME Lane(l) PROVE l \in holding'
  <2>1. CASE TakeLease(l)
    <3>1. l \in holding' \/ stage' = [stage EXCEPT ![l] = "done"]
      BY <2>1 DEF TakeLease, Acquire, AcquireUnsure, End, Go
    <3>. QED  BY <1>1, <3>1 DEF LaneTypeOK, Leased
  <2>2. CASE DropLease(l)
    <3>1. stage'[l] \in {"done", "report"}
      BY <1>1, <2>2 DEF DropLease, End, Go, LaneTypeOK
    <3>. QED  BY <3>1 DEF Leased
  <2>3. CASE Announce(l) \/ CreateWorktree(l) \/ Run(l) \/ Commit(l) \/ Retire(l)
    <3>1. stage[l] \in Leased /\ holding' = holding
      BY <2>3 DEF Announce, CreateWorktree, Run, Commit, Retire, At, Leased, leaseVars
    <3>. QED  BY <3>1 DEF LanesLeased
  <2>4. CASE Report(l)
    <3>1. stage'[l] = "done"
      BY <1>1, <2>4 DEF Report, End, Go, LaneTypeOK
    <3>. QED  BY <3>1 DEF Leased
  <2>. QED  BY <1>4, <2>1, <2>2, <2>3, <2>4 DEF Lane
<1>5. ASSUME NEW a \in Agents, Agent(a) PROVE l \in holding'
  <2>1. stage' = stage /\ holding \ holding' \subseteq {a}
    BY <1>5 DEF Agent, Acquire, AcquireUnsure, Release, Heartbeat, laneVars
  <2>. QED  BY <1>1, <2>1 DEF LanesLeased
<1>6. ASSUME UNCHANGED stage, UNCHANGED holding PROVE l \in holding'
  BY <1>6 DEF LanesLeased
<1>7. ASSUME SetAside PROVE FALSE
  <2>1. stage'[l] = "idle"
    BY <1>7 DEF SetAside
  <2>. QED  BY <2>1 DEF Leased
<1>8. ASSUME FinishLanes \/ IntegrateDay \/ Operator PROVE l \in holding'
  <2>1. stage' = stage /\ holding' = holding
    BY <1>8 DEF FinishLanes, IntegrateDay, Operator, Expire, leaseVars, laneVars
  <2>. QED  BY <1>6, <2>1
<1>9. ASSUME UNCHANGED <<leaseVars, laneVars>> \/ UNCHANGED vars PROVE l \in holding'
  BY <1>6, <1>9 DEF vars, laneVars, leaseVars
<1>10. CASE LanesNext
  <2>1. ASSUME NEW k \in Lanes, Lane(k) PROVE l \in holding'
    BY <1>3, <1>4, <2>1
  <2>. QED  BY <1>5, <1>8, <1>10, <2>1 DEF LanesNext
<1>. QED  BY <1>7, <1>9, <1>10 DEF Next

LEMMA LeasedAlways == Spec => [](LeaseInv /\ RepositoryInv /\ LanesLeased)
<1>1. Init => LeaseInv /\ RepositoryInv /\ LanesLeased
  BY LeaseInitially, RepositoryInitially DEF Init, LanesInit, LanesLeased, Leased
<1>. QED  BY <1>1, LeaseStep, RepositoryStep, LeasedStep, PTL DEF Spec

(* What each step of a lane leaves for the next one, and that no tree is   *)
(* discarded before it was of use, with the registry's own invariants.     *)
THEOREM FabricIsInOrder == Spec => []FabricInv
<1>1. LeaseInv /\ RepositoryInv /\ LanesLeased => FabricInv
  BY LaneFacts, NothingGoesEarly DEF LeaseInv, RepositoryInv, FabricInv
<1>. QED  BY <1>1, LeasedAlways, PTL

(* While a lane works, from its announcement to the release of its lease,  *)
(* no other lane or agent believes to hold what it claimed, but after one  *)
(* of the two leases was found stale.                                      *)
THEOREM LanesWorkApart ==
  Spec => [](\A l \in Lanes, r \in holding :
               /\ stage[l] \in Leased /\ r # l
               /\ registry[l].claims \cap registry[r].claims # {}
               => "expired" \in {registry[l].state, registry[r].state})
<1>. DEFINE Apart == \A l \in Lanes, r \in holding :
                       /\ stage[l] \in Leased /\ r # l
                       /\ registry[l].claims \cap registry[r].claims # {}
                       => "expired" \in {registry[l].state, registry[r].state}
<1>1. LeaseInv /\ LanesLeased => Apart
  BY LeaseShared DEF LanesLeased, SharedOnlyAfterExpiry
<1>. QED  BY <1>1, LeasedAlways, PTL

(* A lane that counts as passed is vouched for: its process passed, its    *)
(* worktree is gone and, with a bus, both of its rows are there.           *)
THEOREM PassedLanesAreVouchedFor == Spec => []PassedIsVouchedFor
<1>1. RepositoryInv => PassedIsVouchedFor
  BY LaneFacts DEF RepositoryInv
<1>. QED  BY <1>1, RepositoryInitially, RepositoryStep, PTL DEF Spec

(* The tree that the day integrates is the target with the branches of all *)
(* the lanes that passed, wherever those branches started, and no other.   *)
THEOREM DayIntegratesPassed == Spec => []OnlyPassedIntegrated
<1>1. RepositoryInv => OnlyPassedIntegrated
  BY DayStacksThePassed DEF RepositoryInv
<1>. QED  BY <1>1, RepositoryInitially, RepositoryStep, PTL DEF Spec

(* A delta is within the noise exactly where the candidate is no worse,    *)
(* and beyond it where it is better; a metric that one side lacks is       *)
(* decided by its direction alone.                                         *)
LEMMA DeltaSign ==
  ASSUME NEW b \in Snapshots, NEW c \in Snapshots, NEW m \in Metrics(b) \cup Metrics(c)
  PROVE  /\ Delta(m, b, c) \in Int
         /\ m \in Metrics(b) \cap Metrics(c) =>
              /\ Delta(m, b, c) >= -Epsilon <=>
                   IF Minimized(m, b, c) THEN c.metrics[m] <= b.metrics[m] + Epsilon
                                         ELSE c.metrics[m] >= b.metrics[m] - Epsilon
              /\ Delta(m, b, c) > Epsilon <=>
                   IF Minimized(m, b, c) THEN c.metrics[m] + Epsilon < b.metrics[m]
                                         ELSE c.metrics[m] > b.metrics[m] + Epsilon
         /\ m \in Metrics(b) \ Metrics(c) =>
              IF Minimized(m, b, c) THEN Delta(m, b, c) > Epsilon ELSE Delta(m, b, c) < -Epsilon
         /\ m \in Metrics(c) \ Metrics(b) =>
              IF Minimized(m, b, c) THEN Delta(m, b, c) < -Epsilon ELSE Delta(m, b, c) > Epsilon
<1>1. /\ NegativeInfinity \in Int /\ Epsilon \in Nat
      /\ m \in Metrics(b) => b.metrics[m] \in Int /\ b.metrics[m] > NegativeInfinity + Epsilon
      /\ m \in Metrics(c) => c.metrics[m] \in Int /\ c.metrics[m] > NegativeInfinity + Epsilon
  BY GateAssumption
<1>2. CASE m \in Metrics(b) \cap Metrics(c)
  BY <1>1, <1>2 DEF Delta, Value
<1>3. CASE m \in Metrics(b) \ Metrics(c)
  BY <1>1, <1>3 DEF Delta, Value
<1>4. CASE m \in Metrics(c) \ Metrics(b)
  BY <1>1, <1>4 DEF Delta, Value
<1>. QED  BY <1>2, <1>3, <1>4

(* The verdict "improved" says exactly this: the population did not        *)
(* collapse, no metric got worse by more than the noise, and one got       *)
(* better by more, or the reports name different metrics.  A metric to be  *)
(* minimized may be left out, which alone makes them differ.               *)
THEOREM ImprovedExactly ==
  ASSUME NEW b \in Snapshots, NEW c \in Snapshots
  PROVE  Evaluate(b, c) = "improved" <=> ~c.collapsed /\ NoWorse(b, c) /\ Better(b, c)
<1>0. Epsilon \in Nat /\ \A d \in Deltas(b, c) : d \in Int
  BY GateAssumption, DeltaSign DEF Deltas
<1>1. Evaluate(b, c) = "improved" <=>
        /\ ~c.collapsed /\ (\A d \in Deltas(b, c) : d >= -Epsilon)
        /\ (\E d \in Deltas(b, c) : d > Epsilon)
  BY <1>0 DEF Evaluate
<1>2. (\A d \in Deltas(b, c) : d >= -Epsilon) <=> NoWorse(b, c)
  <2>1. (\A d \in Deltas(b, c) : d >= -Epsilon) <=>
          \A m \in Metrics(b) \cup Metrics(c) : Delta(m, b, c) >= -Epsilon
    BY DEF Deltas
  <2>2. ASSUME NEW m \in Metrics(b) \cup Metrics(c)
        PROVE  Delta(m, b, c) >= -Epsilon <=>
                 /\ m \in Metrics(b) \cap Metrics(c) =>
                      IF Minimized(m, b, c) THEN c.metrics[m] <= b.metrics[m] + Epsilon
                                            ELSE c.metrics[m] >= b.metrics[m] - Epsilon
                 /\ m \in Metrics(b) \ Metrics(c) => Minimized(m, b, c)
                 /\ m \in Metrics(c) \ Metrics(b) => ~Minimized(m, b, c)
    BY <1>0, DeltaSign
  <2>. QED  BY <2>1, <2>2, Zenon DEF NoWorse
<1>3. ASSUME NoWorse(b, c)
      PROVE  (\E d \in Deltas(b, c) : d > Epsilon) <=> Better(b, c)
  <2>1. (\E d \in Deltas(b, c) : d > Epsilon) <=>
          \E m \in Metrics(b) \cup Metrics(c) : Delta(m, b, c) > Epsilon
    BY DEF Deltas
  <2>2. ASSUME NEW m \in Metrics(b) \cup Metrics(c)
        PROVE  Delta(m, b, c) > Epsilon <=>
                 (m \in Metrics(b) \cap Metrics(c) =>
                    IF Minimized(m, b, c) THEN c.metrics[m] + Epsilon < b.metrics[m]
                                          ELSE c.metrics[m] > b.metrics[m] + Epsilon)
    <3>1. /\ m \in Metrics(b) \ Metrics(c) => Minimized(m, b, c)
          /\ m \in Metrics(c) \ Metrics(b) => ~Minimized(m, b, c)
      BY <1>3 DEF NoWorse
    <3>. QED  BY <3>1, DeltaSign
  <2>3. Better(b, c) <=> \E m \in Metrics(b) \cup Metrics(c) :
                           (m \in Metrics(b) \cap Metrics(c) =>
                              IF Minimized(m, b, c) THEN c.metrics[m] + Epsilon < b.metrics[m]
                                                    ELSE c.metrics[m] > b.metrics[m] + Epsilon)
    <3>1. Metrics(b) # Metrics(c) <=>
            \E m \in Metrics(b) \cup Metrics(c) : m \notin Metrics(b) \cap Metrics(c)
      OBVIOUS
    <3>. QED  BY <3>1, Zenon DEF Better
  <2>. QED  BY <2>1, <2>2, <2>3
<1>. QED  BY <1>1, <1>2, <1>3

(* The target loses no change, and the gate moves it only to the tree that *)
(* it has measured and found improved.                                     *)
THEOREM TargetOnlyMovesForward == Spec => TargetMovesForward
<1>. DEFINE s == stacks["gate"]
            Forward == /\ target \subseteq target'
                       /\ target' # target /\ gate = "promoting" /\ gate' # "promoting" =>
                            /\ target' = s.head
                            /\ promote /\ s.snapshot # None /\ ~s.snapshot.collapsed
                            /\ NoWorse(baseline, s.snapshot) /\ Better(baseline, s.snapshot)
<1>1. ASSUME RepositoryInv, [Next]_vars PROVE [Forward]_<<target, gate>>
  <2>1. ASSUME LanesNext, UNCHANGED gateVars PROVE UNCHANGED <<target, gate>>
    BY <2>1
    DEF LanesNext, Lane, TakeLease, Announce, CreateWorktree, Run, Commit, Retire, DropLease,
        Report, FinishLanes, IntegrateDay, Agent, Operator, StackStep, Stack, Merge, Measure,
        SetStack, repository, laneVars, gateVars
  <2>2. ASSUME SetAside \/ UNCHANGED vars PROVE UNCHANGED <<target, gate>>
    BY <2>2 DEF SetAside, vars, repository, gateVars
  <2>3. ASSUME Promote PROVE Forward
    <3>1. gate = "promoting" /\ (target' = target \/ (target \subseteq s.head /\ target' = s.head))
      BY <2>3 DEF Promote
    <3>2. /\ promote /\ s.snapshot # None /\ ~s.snapshot.collapsed
          /\ NoWorse(baseline, s.snapshot) /\ Better(baseline, s.snapshot)
      BY <1>1, <3>1, ImprovedExactly DEF RepositoryInv, GateInv
    <3>. QED  BY <3>1, <3>2
  <2>4. ASSUME Push PROVE Forward
    BY <2>4 DEF Push, gateVars
  <2>5. ASSUME MeasureBaseline \/ Integrate \/ Judge \/ DiscardIntegration
        PROVE  UNCHANGED target
    BY <2>5 DEF MeasureBaseline, Integrate, Judge, DiscardIntegration, StackStep, Stack, Merge,
                Measure, SetStack, repository
  <2>. HIDE DEF Forward
  <2>6. ASSUME UNCHANGED target PROVE Forward
    BY <2>6 DEF Forward
  <2>. QED  BY <1>1, <2>1, <2>2, <2>3, <2>4, <2>5, <2>6 DEF Next, GateNext
<1>2. [Forward]_<<target, gate>> =>
      [/\ target \subseteq target'
       /\ target' # target /\ gate = "promoting" /\ gate' # "promoting" =>
            LET t == stacks["gate"] IN
            /\ target' = t.head
            /\ promote /\ t.snapshot # None /\ ~t.snapshot.collapsed
            /\ NoWorse(baseline, t.snapshot) /\ Better(baseline, t.snapshot)]_<<target, gate>>
  OBVIOUS
<1>. HIDE DEF Forward
<1>. QED
  BY <1>1, <1>2, RepositoryInitially, RepositoryStep, PTL DEF Spec, TargetMovesForward
=============================================================================
