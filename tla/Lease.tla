------------------------------- MODULE Lease -------------------------------
(***************************************************************************)
(* The lease registry of src/crates/leio-harness/src/lease.rs: one file,   *)
(* rewritten as a whole under an exclusive lock by every operation, in     *)
(* which a run holds its worktree, branch, deployment target, build group  *)
(* and scope keys -- here its claims, a set of resources.                  *)
(*                                                                         *)
(* The lock makes an operation one step.  A write may still fail before    *)
(* the rename, when nothing has changed, or after it, when the registry    *)
(* has changed and the caller is told that it has not.  Heartbeats are     *)
(* left out of the state: the caller of expire_stale chooses the age, so   *)
(* that any active lease may be found stale.                               *)
(***************************************************************************)
EXTENDS Naturals, FiniteSets

CONSTANTS Runs,       \* the runs, each with a run_id of its own
          Resources,  \* worktrees, branches, targets, groups and scope keys
          Claims      \* of each run: the sets of resources it may ask for

ASSUME LeaseAssumption == Claims \in [Runs -> SUBSET SUBSET Resources]

VARIABLES registry,   \* of each run: its lease in the file
          holding     \* the runs that believe they have a lease

leaseVars == <<registry, holding>>

NoLease == [state |-> "none", claims |-> {}]
Lease == [state : {"none", "active", "expired", "released"}, claims : SUBSET Resources]

LeaseInit ==
  /\ registry = [r \in Runs |-> NoLease]
  /\ holding = {}

Active(r) == registry[r].state = "active"

(* Claims are compared as a whole.                                         *)
ConflictOfWholes(r, claims) ==
  \E other \in Runs \ {r} : Active(other) /\ registry[other].claims = claims

Conflict(r, claims) ==
  \E other \in Runs \ {r} : Active(other) /\ registry[other].claims \cap claims # {}

-----------------------------------------------------------------------------
(* acquire: a lease of the same run is replaced.                           *)

Grant(r, claims) ==
  /\ ~Conflict(r, claims)
  /\ registry' = [registry EXCEPT ![r] = [state |-> "active", claims |-> claims]]

Acquire(r, claims) == Grant(r, claims) /\ holding' = holding \cup {r}

(* The directory cannot be flushed after the rename: the run has a lease   *)
(* in the registry, does not know, and never releases it.                  *)
AcquireUnsure(r, claims) == Grant(r, claims) /\ UNCHANGED holding

Mark(r, state) ==
  registry' = [registry EXCEPT ![r].state = IF @ = "none" THEN "none" ELSE state]

(* release, whatever the lease's state.                                    *)
Release(r) ==
  /\ holding' = holding \ {r}
  /\ Mark(r, "released")

(* The registry cannot be written, or only the flush of its directory      *)
(* fails: the owner does not try again.                                    *)
ReleaseUnsure(r) ==
  /\ holding' = holding \ {r}
  /\ Mark(r, "released") \/ UNCHANGED registry

(* heartbeat is refused: the owner learns that its lease has expired.      *)
Heartbeat(r) ==
  /\ r \in holding
  /\ ~Active(r)
  /\ holding' = holding \ {r}
  /\ UNCHANGED registry

Expire(late) ==
  /\ late # {}
  /\ \A r \in late : Active(r)
  /\ registry' = [r \in Runs |-> IF r \in late THEN [registry[r] EXCEPT !.state = "expired"]
                                 ELSE registry[r]]
  /\ UNCHANGED holding

-----------------------------------------------------------------------------
(* Properties.                                                             *)

LeaseTypeOK == registry \in [Runs -> Lease] /\ holding \subseteq Runs

(***************************************************************************)
(* No resource is in two active leases, although a run may ask again with  *)
(* other claims and leases expire and are released in any order.           *)
(***************************************************************************)
LeasesDisjoint ==
  \A r, q \in Runs : r # q /\ Active(r) /\ Active(q) =>
    registry[r].claims \cap registry[q].claims = {}

(***************************************************************************)
(* Two runs that both believe to hold a resource can only be told apart by *)
(* an expiry: the lease of one of them was found stale, and that one's     *)
(* next heartbeat is refused.                                              *)
(***************************************************************************)
SharedOnlyAfterExpiry ==
  \A r, q \in holding : r # q /\ registry[r].claims \cap registry[q].claims # {} =>
    "expired" \in {registry[r].state, registry[q].state}
=============================================================================
