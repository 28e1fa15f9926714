------------------------------ MODULE Delivery ------------------------------
(***************************************************************************)
(* Local delivery, crates/leio-harness/src/delivery.rs: revisions are      *)
(* staged into an immutable store, and deploy or rollback moves the target *)
(* to one of them.  A promotion is saved as pending first, because the     *)
(* runtime must already serve the revision to be verified over HTTP; it is *)
(* then saved as verified, or undone.  Every command is a process that     *)
(* holds the target's .lock; it may end between any two of its writes, by  *)
(* a crash or by an I/O error, and the lock goes with it.                  *)
(*                                                                         *)
(* An authorization digest is the record of what is hashed.  It is no      *)
(* secret, so a caller may present any of them, printed or not, current or *)
(* stale.  Of the history in state.jsonld the model keeps the verified     *)
(* events, each as the digest that authorized it, and the number of the    *)
(* failed ones.                                                            *)
(***************************************************************************)
EXTENDS Naturals, Sequences

CONSTANTS
  Revisions,   \* content-addressed revisions
  None,        \* Option::None
  Clients,     \* processes that run delivery commands
  Nobody,      \* the holder of the free lock
  MaxVerified, \* bound: verified transitions
  MaxFailed,   \* bound: failed transitions
  MayEnd       \* whether commands end half-way in this instance

(***************************************************************************)
(* What an authorization digest binds, and Pending.                        *)
(***************************************************************************)
Digest == [action : {"deploy", "rollback"}, revision : Revisions,
           active : Revisions \cup {None}, generation : Nat]

Pending == [action : {"deploy", "rollback"}, revision : Revisions,
            authorization : Digest, old_active : Revisions \cup {None},
            old_previous : Revisions \cup {None}]

ASSUME DeliveryAssumption ==
  /\ None \notin Revisions \cup Pending
  /\ Nobody \notin Clients
  /\ MaxVerified \in Nat /\ MaxFailed \in Nat
  /\ MayEnd \in BOOLEAN

VARIABLES
  state,     \* state.jsonld
  store,     \* what releases/ has of each revision
  lock,      \* the holder of .lock
  client     \* the commands in progress

vars == <<state, store, lock, client>>

Idle == [pc |-> "idle", action |-> None, id |-> None, approval |-> None]

Init ==
  /\ state = [active |-> None, previous |-> None, pending |-> None,
              verified |-> << >>, failed |-> 0]
  /\ store = [r \in Revisions |-> "absent"]
  /\ lock = Nobody
  /\ client = [c \in Clients |-> Idle]

At(c, step) == client[c].pc = step
Goto(c, step) == client' = [client EXCEPT ![c].pc = step]

(***************************************************************************)
(* A command ends, whatever its outcome; its lock is dropped.              *)
(***************************************************************************)
Return(c) ==
  /\ client' = [client EXCEPT ![c] = Idle]
  /\ lock' = IF lock = c THEN Nobody ELSE lock

(***************************************************************************)
(* authorization: the digest binds the action and the revision to the      *)
(* active revision and to the generation, the number of verified events.   *)
(* Faulty variant: the generation is left out.                             *)
(***************************************************************************)
UngeneratedAuthorization(action, id) ==
  [action |-> action, revision |-> id, active |-> state.active, generation |-> 0]

Authorization(action, id) ==
  [action |-> action, revision |-> id,
   active |-> state.active, generation |-> Len(state.verified)]

-----------------------------------------------------------------------------
(***************************************************************************)
(* prepare: a revision that is not released yet is staged and then renamed *)
(* into place.  An interrupted staging is left for the operator to remove, *)
(* and prepare refuses it until then.                                      *)
(***************************************************************************)
Stage(c, id) ==
  /\ At(c, "idle")
  /\ lock = Nobody
  /\ state.pending = None
  /\ store[id] = "absent"
  /\ lock' = c
  /\ store' = [store EXCEPT ![id] = "staging"]
  /\ client' = [client EXCEPT ![c].pc = "staged", ![c].id = id]
  /\ UNCHANGED state

Release(c) ==
  LET id == client[c].id
  IN  /\ At(c, "staged")
      /\ store' = [store EXCEPT ![id] = "released"]
      /\ Return(c)
      /\ UNCHANGED state

RemoveStaging(id) ==
  /\ lock = Nobody
  /\ store[id] = "staging"
  /\ store' = [store EXCEPT ![id] = "absent"]
  /\ UNCHANGED <<state, lock, client>>

-----------------------------------------------------------------------------
(***************************************************************************)
(* A call of promote: an action, a revision and a digest.  A digest of     *)
(* another action or another revision is refused like any that is stale.   *)
(***************************************************************************)
Call(step, act, r) ==
  {[pc |-> step, action |-> act, id |-> r,
    approval |-> [action |-> act, revision |-> r, active |-> x, generation |-> n]] :
     x \in Revisions \cup {None}, n \in 0 .. MaxVerified}

(***************************************************************************)
(* rollback finds its revision in state.jsonld, which it reads without the *)
(* lock, before it waits for it.                                           *)
(***************************************************************************)
RollbackTarget ==
  IF state.pending # None /\ state.pending.action = "rollback"
  THEN state.pending.revision ELSE state.previous

Rollback(c) ==
  /\ At(c, "idle")
  /\ RollbackTarget # None
  /\ \E call \in Call("rollback", "rollback", RollbackTarget) :
       client' = [client EXCEPT ![c] = call]
  /\ UNCHANGED <<state, store, lock>>

(***************************************************************************)
(* The calls of promote a client can make next.                            *)
(***************************************************************************)
Calls(c) ==
  CASE At(c, "idle")     -> UNION {Call("idle", "deploy", r) : r \in Revisions}
    [] At(c, "rollback") -> {client[c]}
    [] OTHER             -> {}

(***************************************************************************)
(* promote, under the lock: a pending promotion can only be resumed, with  *)
(* what it was started with.                                               *)
(***************************************************************************)
Resumable(call) ==
  /\ state.pending # None
  /\ state.pending.action = call.action
  /\ state.pending.revision = call.id
  /\ state.pending.authorization = call.approval

(***************************************************************************)
(* Otherwise the digest must be that of the current state.  Faulty         *)
(* variant: a pending promotion is overridden.                             *)
(***************************************************************************)
OverridingAuthorized(call) ==
  /\ call.approval = Authorization(call.action, call.id)
  /\ call.action = "rollback" => state.previous = call.id
  /\ store[call.id] = "released"

Authorized(call) ==
  /\ state.pending = None
  /\ call.approval = Authorization(call.action, call.id)
  /\ call.action = "rollback" => state.previous = call.id
  /\ store[call.id] = "released"

Resume(c, call) ==
  /\ lock = Nobody
  /\ Resumable(call)
  /\ lock' = c
  /\ client' = [client EXCEPT ![c] = [call EXCEPT !.pc = "fetch"]]
  /\ UNCHANGED <<state, store>>

Start(c, call) ==
  /\ lock = Nobody
  /\ Authorized(call)
  /\ state.active # call.id
  /\ Len(state.verified) < MaxVerified /\ state.failed < MaxFailed
  /\ lock' = c
  /\ state' = [state EXCEPT
       !.pending = [action |-> call.action, revision |-> call.id,
                    authorization |-> call.approval,
                    old_active |-> state.active, old_previous |-> state.previous],
       !.previous = state.active,
       !.active = call.id]
  /\ client' = [client EXCEPT ![c] = [call EXCEPT !.pc = "fetch"]]
  /\ UNCHANGED store

(***************************************************************************)
(* A rollback is refused, or the revision is active already and is only    *)
(* verified again, or an artifact does not match its manifest.  (A deploy  *)
(* that is refused leaves nothing behind.)                                 *)
(***************************************************************************)
Refuse(c) ==
  /\ At(c, "rollback") /\ lock = Nobody
  /\ ~Resumable(client[c])
  /\ Return(c)
  /\ UNCHANGED <<state, store>>

(***************************************************************************)
(* respond: the runtime serves the revision that is active in state.jsonld *)
(* at the time of each request, from the release of that revision.         *)
(***************************************************************************)
Serves(id) == state.active = id /\ store[id] = "released"

(***************************************************************************)
(* verify_revision: the identity and the files are fetched, and at the end *)
(* the identity again.  It may fail at any time.                           *)
(***************************************************************************)
Fetch(c) ==
  /\ At(c, "fetch")
  /\ Serves(client[c].id)
  /\ Goto(c, "fetched")
  /\ UNCHANGED <<state, store, lock>>

Verified(c) ==
  /\ At(c, "fetched")
  /\ Serves(client[c].id)
  /\ state' = [state EXCEPT !.pending = None,
                            !.verified = Append(@, client[c].approval)]
  /\ Return(c)
  /\ UNCHANGED store

(***************************************************************************)
(* What a failed verification leaves.  Faulty variant: the old revisions   *)
(* are restored the wrong way round.                                       *)
(***************************************************************************)
SwappedRestored(pending) ==
  [state EXCEPT !.active = pending.old_previous, !.previous = pending.old_active,
                !.pending = None, !.failed = @ + 1]

Restored(pending) ==
  [state EXCEPT !.active = pending.old_active, !.previous = pending.old_previous,
                !.pending = None, !.failed = @ + 1]

Failed(c) ==
  /\ client[c].pc \in {"fetch", "fetched"}
  /\ state' = Restored(state.pending)
  /\ Return(c)
  /\ UNCHANGED store

(***************************************************************************)
(* A command ends before its next write.                                   *)
(***************************************************************************)
End(c) ==
  /\ MayEnd
  /\ ~At(c, "idle")
  /\ Return(c)
  /\ UNCHANGED <<state, store>>

-----------------------------------------------------------------------------
Command(c) ==
  \/ \E id \in Revisions : Stage(c, id)
  \/ \E call \in Calls(c) : Resume(c, call) \/ Start(c, call)
  \/ Release(c) \/ Rollback(c) \/ Refuse(c)
  \/ Fetch(c) \/ Verified(c) \/ Failed(c) \/ End(c)

Next ==
  \/ \E c \in Clients : Command(c)
  \/ \E id \in Revisions : RemoveStaging(id)

Spec == Init /\ [][Next]_vars

-----------------------------------------------------------------------------
(***************************************************************************)
(* Every variable has its type.                                            *)
(***************************************************************************)
TypeOK ==
  /\ state \in [active : Revisions \cup {None}, previous : Revisions \cup {None},
                pending : Pending \cup {None}, verified : Seq(Digest), failed : Nat]
  /\ store \in [Revisions -> {"absent", "staging", "released"}]
  /\ lock \in Clients \cup {Nobody}
  /\ client \in [Clients ->
       [pc : {"idle", "staged", "rollback", "fetch", "fetched"},
        action : {"deploy", "rollback", None}, id : Revisions \cup {None},
        approval : Digest \cup {None}]]

(***************************************************************************)
(* What is active is what was verified last, and what was active before it *)
(* can be rolled back to; an unverified revision is active only as a       *)
(* pending promotion that knows how to undo itself.                        *)
(***************************************************************************)
RevisionAt(n) == IF n = 0 THEN None ELSE state.verified[n].revision
Current == RevisionAt(Len(state.verified))
Former  == IF Len(state.verified) < 2 THEN None ELSE RevisionAt(Len(state.verified) - 1)

ActiveIsVerified ==
  IF state.pending = None
  THEN state.active = Current /\ state.previous = Former
  ELSE /\ state.pending.old_active = Current
       /\ state.pending.old_previous = Former
       /\ state.active = state.pending.revision
       /\ state.previous = Current

(***************************************************************************)
(* An approval is spent by the transition it authorizes: it makes no       *)
(* second one, not even when the target has returned to the revision it    *)
(* was given for (A, then B, then A again).                                *)
(***************************************************************************)
ApprovalSpentOnce ==
  \A m, n \in 1 .. Len(state.verified) : m # n => state.verified[m] # state.verified[n]

(***************************************************************************)
(* A rollback goes to the revision that was verified before the one it     *)
(* replaces, whatever was tried, failed or abandoned in between.           *)
(***************************************************************************)
RollbackGoesBack ==
  \A n \in 1 .. Len(state.verified) :
    state.verified[n].action = "rollback" =>
      n > 2 /\ state.verified[n].revision = state.verified[n - 2].revision

(***************************************************************************)
(* The inductive invariant: who holds the lock; what the digest of a call, *)
(* of a verified event and of the pending promotion says of the log; and   *)
(* that the command past the first save is executing the pending promotion.*)
(***************************************************************************)
LockedSteps == {"staged", "fetch", "fetched"}

LockIsHeld == \A c \in Clients : client[c].pc \in LockedSteps <=> lock = c

CallsAreSound ==
  \A c \in Clients : client[c].pc \in {"rollback", "fetch", "fetched"} =>
    /\ client[c].id \in Revisions
    /\ client[c].approval \in Digest
    /\ client[c].approval.action = client[c].action
    /\ client[c].approval.revision = client[c].id

FitsLog(a, n) ==
  /\ a.generation = n
  /\ a.active = RevisionAt(n)
  /\ a.revision # RevisionAt(n)
  /\ a.action = "rollback" => n > 1 /\ a.revision = RevisionAt(n - 1)

LogIsSound == \A n \in 1 .. Len(state.verified) : FitsLog(state.verified[n], n - 1)

PendingIsSound ==
  state.pending # None =>
    /\ FitsLog(state.pending.authorization, Len(state.verified))
    /\ state.pending.authorization.action = state.pending.action
    /\ state.pending.authorization.revision = state.pending.revision

PromotingIsPending ==
  \A c \in Clients : client[c].pc \in {"fetch", "fetched"} =>
    /\ state.pending # None
    /\ client[c].approval = state.pending.authorization

NoPendingWhileStaging ==
  \A c \in Clients : client[c].pc = "staged" =>
    state.pending = None /\ client[c].id \in Revisions

DeliveryInv ==
  /\ LockIsHeld /\ CallsAreSound /\ ActiveIsVerified
  /\ LogIsSound /\ PendingIsSound /\ PromotingIsPending /\ NoPendingWhileStaging

(* With its types, it is preserved by every step.                          *)
IInv == TypeOK /\ DeliveryInv

(***************************************************************************)
(* A pending promotion is resolved as a whole and as what it was started   *)
(* as, by whoever resumes it: verified under its own authorization, or     *)
(* undone to the revisions it replaced.  Nothing overrides it.             *)
(***************************************************************************)
Resolved(pending) ==
  /\ state'.pending = None
  /\ \/ /\ state'.verified = Append(state.verified, pending.authorization)
        /\ state'.active = pending.revision
     \/ /\ state'.verified = state.verified
        /\ state'.active = pending.old_active /\ state'.previous = pending.old_previous

PendingIsResolved ==
  [][state.pending # None => state' = state \/ Resolved(state.pending)]_vars

(***************************************************************************)
(* Delivery implements the log of verified transitions: a transition takes *)
(* effect when it is saved as verified, and only then.                     *)
(***************************************************************************)
Log == INSTANCE DeliveryLog WITH log <- state.verified, NoRevision <- None

ImplementsLog == Log!Spec
=============================================================================
