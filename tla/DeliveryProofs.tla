--------------------------- MODULE DeliveryProofs ---------------------------
(***************************************************************************)
(* Proofs about local delivery, Delivery.tla, for every set of revisions,  *)
(* every set of clients and every bound.                                   *)
(***************************************************************************)
EXTENDS Delivery, TLAPS

ClientType ==
  [pc : {"idle", "staged", "rollback", "fetch", "fetched"},
   action : {"deploy", "rollback", None}, id : Revisions \cup {None},
   approval : Digest \cup {None}]

StateType ==
  [active : Revisions \cup {None}, previous : Revisions \cup {None},
   pending : Pending \cup {None}, verified : Seq(Digest), failed : Nat]

(* The type invariant, conjunct by conjunct.                               *)
LEMMA TypeParts ==
  TypeOK <=> /\ state \in StateType
             /\ store \in [Revisions -> {"absent", "staging", "released"}]
             /\ lock \in Clients \cup {Nobody}
             /\ client \in [Clients -> ClientType]
BY DEF TypeOK, StateType, ClientType

(* The same of the next state.                                             *)
LEMMA TypePartsPrimed ==
  TypeOK' <=> /\ state' \in StateType
              /\ store' \in [Revisions -> {"absent", "staging", "released"}]
              /\ lock' \in Clients \cup {Nobody}
              /\ client' \in [Clients -> ClientType]
BY DEF TypeOK, StateType, ClientType

(* A client without a call is well-typed.                                  *)
LEMMA IdleType == Idle \in ClientType
BY DEF Idle, ClientType

(***************************************************************************)
(* A call of promote is well-formed: its digest is about its own action    *)
(* and revision.  Only a client without the lock makes one.                *)
(***************************************************************************)
LEMMA CallType ==
  ASSUME NEW step \in {"idle", "rollback"}, NEW act \in {"deploy", "rollback"},
         NEW r \in Revisions, NEW call \in Call(step, act, r)
  PROVE  /\ call \in ClientType
         /\ call.pc = step /\ call.id = r /\ call.action = act
         /\ call.approval \in Digest
         /\ call.approval.action = act /\ call.approval.revision = r
<1>1. PICK x \in Revisions \cup {None}, n \in 0 .. MaxVerified :
        call = [pc |-> step, action |-> act, id |-> r,
                approval |-> [action |-> act, revision |-> r, active |-> x, generation |-> n]]
  BY DEF Call
<1>2. n \in Nat
  BY DeliveryAssumption
<1>3. [action |-> act, revision |-> r, active |-> x, generation |-> n] \in Digest
  BY <1>2 DEF Digest
<1>. QED  BY <1>1, <1>3 DEF ClientType

(* Any call a client may make now, deploy or rollback, is well-formed.     *)
LEMMA CallsType ==
  ASSUME TypeOK, CallsAreSound, NEW c \in Clients, NEW call \in Calls(c)
  PROVE  /\ client[c].pc \in {"idle", "rollback"}
         /\ call \in ClientType
         /\ call.id \in Revisions
         /\ call.approval \in Digest
         /\ call.approval.action = call.action
         /\ call.approval.revision = call.id
<1>1. CASE At(c, "idle")
  <2>1. PICK r \in Revisions : call \in Call("idle", "deploy", r)
    BY <1>1 DEF Calls, At
  <2>. QED  BY <2>1, <1>1, CallType DEF At
<1>2. CASE At(c, "rollback") /\ ~At(c, "idle")
  <2>1. call = client[c]
    BY <1>2 DEF Calls, At
  <2>. QED  BY <2>1, <1>2, TypeParts DEF At, CallsAreSound
<1>3. CASE ~At(c, "idle") /\ ~At(c, "rollback")
  BY <1>3 DEF Calls, At
<1>. QED  BY <1>1, <1>2, <1>3

-----------------------------------------------------------------------------
(***************************************************************************)
(* The inductive invariant holds at the start.                             *)
(***************************************************************************)
LEMMA InitIInv == Init => IInv
<1>. SUFFICES ASSUME Init PROVE IInv
  OBVIOUS
<1>1. TypeOK
  BY IdleType DEF Init, TypeOK, ClientType
<1>2. /\ Len(state.verified) = 0 /\ state.pending = None
      /\ \A c \in Clients : client[c].pc = "idle"
  BY DEF Init, Idle
<1>3. LockIsHeld /\ CallsAreSound /\ PromotingIsPending /\ NoPendingWhileStaging
  BY <1>2, DeliveryAssumption
     DEF Init, LockIsHeld, LockedSteps, CallsAreSound, PromotingIsPending,
         NoPendingWhileStaging
<1>4. ActiveIsVerified /\ LogIsSound /\ PendingIsSound
  BY <1>2 DEF Init, ActiveIsVerified, Current, Former, RevisionAt, LogIsSound, PendingIsSound
<1>. QED  BY <1>1, <1>3, <1>4 DEF IInv, DeliveryInv

(***************************************************************************)
(* A client that changes its own step and takes or leaves the lock         *)
(* accordingly keeps the lock with its holder.                             *)
(***************************************************************************)
LEMMA LockStep ==
  ASSUME TypeOK, LockIsHeld, NEW c \in Clients, NEW r \in ClientType,
         client' = [client EXCEPT ![c] = r],
         \/ lock \in {c, Nobody} /\ lock' = IF r.pc \in LockedSteps THEN c ELSE Nobody
         \/ lock' = lock /\ (r.pc \in LockedSteps <=> client[c].pc \in LockedSteps)
  PROVE  LockIsHeld'
BY DeliveryAssumption DEF LockIsHeld, TypeOK

(***************************************************************************)
(* A command that ends.                                                    *)
(***************************************************************************)
LEMMA ReturnStep ==
  ASSUME IInv, NEW c \in Clients, Return(c)
  PROVE  /\ lock' \in Clients \cup {Nobody}
         /\ client' \in [Clients -> ClientType]
         /\ LockIsHeld' /\ CallsAreSound'
<1>. USE DEF IInv, DeliveryInv, Return
<1>1. /\ lock' \in Clients \cup {Nobody}
      /\ client' \in [Clients -> ClientType]
  BY IdleType, TypeParts
<1>2. LockIsHeld'
  BY DeliveryAssumption, TypeParts DEF LockIsHeld, LockedSteps, Idle
<1>3. CallsAreSound'
  BY TypeParts DEF CallsAreSound, Idle
<1>. QED  BY <1>1, <1>2, <1>3

-----------------------------------------------------------------------------
(***************************************************************************)
(* The steps that leave state.jsonld alone keep what is said of it.        *)
(***************************************************************************)
LEMMA StateKept ==
  ASSUME ActiveIsVerified, LogIsSound, PendingIsSound, UNCHANGED state
  PROVE  ActiveIsVerified' /\ LogIsSound' /\ PendingIsSound'
<1>1. ActiveIsVerified'
  BY DEF ActiveIsVerified, Current, Former, RevisionAt
<1>2. LogIsSound' /\ PendingIsSound'
  BY DEF LogIsSound, PendingIsSound, FitsLog, RevisionAt
<1>. QED  BY <1>1, <1>2

(* prepare's copy into the staging directory preserves the invariant.      *)
LEMMA StageStep ==
  ASSUME IInv, NEW c \in Clients, NEW id \in Revisions, Stage(c, id)
  PROVE  IInv'
<1>. USE DEF IInv, DeliveryInv, Stage, At
<1>. DEFINE r == [client[c] EXCEPT !.pc = "staged", !.id = id]
<1>1. r \in ClientType /\ r.pc = "staged" /\ client' = [client EXCEPT ![c] = r]
  BY TypeParts DEF ClientType
<1>2. TypeOK'
  BY <1>1, TypePartsPrimed, TypeParts
<1>3. LockIsHeld'
  BY <1>1, LockStep DEF LockedSteps
<1>4. CallsAreSound' /\ PromotingIsPending' /\ NoPendingWhileStaging'
  BY <1>1, TypeParts DEF CallsAreSound, PromotingIsPending, NoPendingWhileStaging
<1>. QED  BY <1>2, <1>3, <1>4, StateKept

(***************************************************************************)
(* The commands that end without a word in state.jsonld.                   *)
(***************************************************************************)
LEMMA QuietReturnStep ==
  ASSUME IInv, NEW c \in Clients, Return(c), UNCHANGED state,
         store' \in [Revisions -> {"absent", "staging", "released"}]
  PROVE  IInv'
<1>. USE DEF IInv, DeliveryInv
<1>1. TypeOK' /\ LockIsHeld' /\ CallsAreSound'
  BY ReturnStep, TypePartsPrimed, TypeParts
<1>2. PromotingIsPending' /\ NoPendingWhileStaging'
  BY TypeParts DEF Return, Idle, PromotingIsPending, NoPendingWhileStaging
<1>. QED  BY <1>1, <1>2, StateKept

(* prepare's rename of the staging directory preserves the invariant.      *)
LEMMA ReleaseStep ==
  ASSUME IInv, NEW c \in Clients, Release(c)
  PROVE  IInv'
<1>1. store' \in [Revisions -> {"absent", "staging", "released"}]
  BY TypeParts DEF IInv, Release
<1>. QED  BY <1>1, QuietReturnStep DEF Release

(* The removal of an interrupted staging preserves the invariant.          *)
LEMMA RemoveStagingStep ==
  ASSUME IInv, NEW id \in Revisions, RemoveStaging(id)
  PROVE  IInv'
<1>. USE DEF IInv, DeliveryInv, RemoveStaging
<1>1. TypeOK'
  BY TypePartsPrimed, TypeParts
<1>2. LockIsHeld' /\ CallsAreSound' /\ PromotingIsPending' /\ NoPendingWhileStaging'
  BY DEF LockIsHeld, CallsAreSound, PromotingIsPending, NoPendingWhileStaging
<1>. QED  BY <1>1, <1>2, StateKept

(* The choice of a rollback's revision, made without the lock, preserves   *)
(* the invariant.                                                          *)
LEMMA RollbackStep ==
  ASSUME IInv, NEW c \in Clients, Rollback(c)
  PROVE  IInv'
<1>. USE DEF IInv, DeliveryInv, Rollback, At
<1>1. RollbackTarget \in Revisions
  BY TypeParts DEF RollbackTarget, StateType, Pending
<1>2. PICK call \in Call("rollback", "rollback", RollbackTarget) :
        client' = [client EXCEPT ![c] = call]
  OBVIOUS
<1>3. /\ call \in ClientType /\ call.pc = "rollback" /\ call.id \in Revisions
      /\ call.approval \in Digest /\ call.approval.action = call.action
      /\ call.approval.revision = call.id
  BY <1>1, CallType
<1>4. TypeOK'
  BY <1>2, <1>3, TypePartsPrimed, TypeParts
<1>5. LockIsHeld'
  BY <1>2, <1>3, LockStep DEF LockedSteps
<1>6. CallsAreSound' /\ PromotingIsPending' /\ NoPendingWhileStaging'
  BY <1>2, <1>3, TypeParts DEF CallsAreSound, PromotingIsPending, NoPendingWhileStaging
<1>. QED  BY <1>4, <1>5, <1>6, StateKept

(***************************************************************************)
(* What Resume and Start have in common: the call goes past the lock, and  *)
(* the pending promotion is its own.                                       *)
(***************************************************************************)
LEMMA CallTaken ==
  ASSUME IInv, NEW c \in Clients, NEW call \in Calls(c),
         lock = Nobody, lock' = c,
         client' = [client EXCEPT ![c] = [call EXCEPT !.pc = "fetch"]],
         state' \in StateType, UNCHANGED store,
         state'.pending # None, state'.pending.authorization = call.approval
  PROVE  /\ TypeOK' /\ LockIsHeld' /\ CallsAreSound'
         /\ PromotingIsPending' /\ NoPendingWhileStaging'
<1>. USE DEF IInv, DeliveryInv
<1>. DEFINE r == [call EXCEPT !.pc = "fetch"]
<1>1. /\ call \in ClientType /\ call.id \in Revisions /\ call.approval \in Digest
      /\ call.approval.action = call.action /\ call.approval.revision = call.id
  BY CallsType
<1>2. /\ r \in ClientType /\ r.pc = "fetch" /\ r.id = call.id
      /\ r.action = call.action /\ r.approval = call.approval
  BY <1>1 DEF ClientType
<1>. HIDE DEF r
<1>3. client' = [client EXCEPT ![c] = r]
  BY DEF r
<1>4. TypeOK'
  BY <1>2, <1>3, TypePartsPrimed, TypeParts
<1>5. LockIsHeld'
  BY <1>2, <1>3, LockStep DEF LockedSteps
<1>6. CallsAreSound'
  BY <1>1, <1>2, <1>3, TypeParts DEF CallsAreSound
<1>7. \A d \in Clients : d # c => client'[d] = client[d] /\ client[d].pc \notin LockedSteps
  BY <1>3, TypeParts, DeliveryAssumption DEF LockIsHeld
<1>8. PromotingIsPending' /\ NoPendingWhileStaging'
  BY <1>2, <1>3, <1>7, TypeParts DEF PromotingIsPending, NoPendingWhileStaging, LockedSteps
<1>. QED  BY <1>4, <1>5, <1>6, <1>8

(* Taking up a pending promotion again preserves the invariant.            *)
LEMMA ResumeStep ==
  ASSUME IInv, NEW c \in Clients, NEW call \in Calls(c), Resume(c, call)
  PROVE  IInv'
<1>1. state' \in StateType
  BY TypeParts DEF IInv, Resume
<1>2. /\ TypeOK' /\ LockIsHeld' /\ CallsAreSound'
      /\ PromotingIsPending' /\ NoPendingWhileStaging'
  BY <1>1, CallTaken DEF Resume, Resumable
<1>. QED  BY <1>2, StateKept DEF IInv, DeliveryInv, Resume

(* The save of a new pending promotion preserves the invariant.            *)
LEMMA StartStep ==
  ASSUME IInv, NEW c \in Clients, NEW call \in Calls(c), Start(c, call)
  PROVE  IInv'
<1>. USE DEF IInv, DeliveryInv
<1>. DEFINE p == [action |-> call.action, revision |-> call.id,
                  authorization |-> call.approval,
                  old_active |-> state.active, old_previous |-> state.previous]
<1>1. /\ call.id \in Revisions /\ call.approval \in Digest
      /\ call.approval.action = call.action /\ call.approval.revision = call.id
  BY CallsType
<1>2. state \in StateType
  BY TypeParts
<1>3. p \in Pending
  BY <1>1, <1>2 DEF Pending, Digest, StateType
<1>4. p # None
  BY <1>3, DeliveryAssumption
<1>5. /\ state'.pending = p /\ state'.active = call.id /\ state'.previous = state.active
      /\ state'.verified = state.verified
      /\ state' \in StateType
  BY <1>1, <1>2, <1>3 DEF Start, StateType
<1>6. /\ TypeOK' /\ LockIsHeld' /\ CallsAreSound'
      /\ PromotingIsPending' /\ NoPendingWhileStaging'
  <2>1. state'.pending # None /\ state'.pending.authorization = call.approval
    BY <1>4, <1>5
  <2>. QED  BY <2>1, <1>5, CallTaken DEF Start
<1>7. state.active = Current /\ state.previous = Former
  BY DEF ActiveIsVerified, Start, Authorized
<1>8. Current' = Current /\ Former' = Former
  BY <1>5 DEF Current, Former, RevisionAt
<1>9. ActiveIsVerified'
  BY <1>4, <1>5, <1>7, <1>8 DEF ActiveIsVerified
<1>10. LogIsSound'
  BY <1>5 DEF LogIsSound, FitsLog, RevisionAt
<1>11. FitsLog(call.approval, Len(state.verified))
  <2>1. /\ call.approval.generation = Len(state.verified)
        /\ call.approval.active = Current
        /\ call.approval.revision # Current
        /\ call.action = "rollback" => call.id = Former
    BY <1>1, <1>7 DEF Start, Authorized, Authorization
  <2>2. Former \in Revisions => Len(state.verified) > 1 /\ Former = RevisionAt(Len(state.verified) - 1)
    BY <1>2, DeliveryAssumption DEF Former, StateType
  <2>. QED  BY <2>1, <2>2, <1>1 DEF FitsLog, Current
<1>12. PendingIsSound'
  BY <1>1, <1>5, <1>11 DEF PendingIsSound, FitsLog, RevisionAt
<1>. QED  BY <1>6, <1>9, <1>10, <1>12

(* verify_revision's requests preserve the invariant.                      *)
LEMMA FetchStep ==
  ASSUME IInv, NEW c \in Clients, Fetch(c)
  PROVE  IInv'
<1>. USE DEF IInv, DeliveryInv, Fetch, Goto, At
<1>. DEFINE r == [client[c] EXCEPT !.pc = "fetched"]
<1>1. /\ r \in ClientType /\ r.pc = "fetched" /\ client' = [client EXCEPT ![c] = r]
      /\ r.id = client[c].id /\ r.approval = client[c].approval
      /\ r.action = client[c].action
  BY TypeParts DEF ClientType
<1>. HIDE DEF r
<1>2. TypeOK'
  BY <1>1, TypePartsPrimed, TypeParts
<1>3. LockIsHeld'
  BY <1>1, LockStep DEF LockedSteps
<1>4. CallsAreSound' /\ PromotingIsPending' /\ NoPendingWhileStaging'
  BY <1>1, TypeParts DEF CallsAreSound, PromotingIsPending, NoPendingWhileStaging
<1>. QED  BY <1>2, <1>3, <1>4, StateKept

(***************************************************************************)
(* While a client promotes, nobody else is past the lock.                  *)
(***************************************************************************)
LEMMA Alone ==
  ASSUME IInv, NEW c \in Clients, client[c].pc \in LockedSteps, Return(c)
  PROVE  \A d \in Clients : client'[d].pc \notin LockedSteps
BY TypeParts, DeliveryAssumption
   DEF IInv, DeliveryInv, LockIsHeld, Return, Idle, LockedSteps

(***************************************************************************)
(* The promotion is verified: its digest fits the end of the log, where it *)
(* is appended, and what was active becomes what can be rolled back to.    *)
(***************************************************************************)
LEMMA VerifiedStep ==
  ASSUME IInv, NEW c \in Clients, Verified(c)
  PROVE  IInv'
<1>. USE DEF IInv, DeliveryInv
<1>. DEFINE a == client[c].approval
            len == Len(state.verified)
<1>1. /\ client[c].pc = "fetched" /\ Return(c) /\ UNCHANGED store
      /\ state.pending # None /\ a = state.pending.authorization
      /\ a \in Digest /\ a.action = client[c].action /\ a.revision = client[c].id
      /\ state.active = client[c].id
  BY DEF Verified, At, PromotingIsPending, CallsAreSound, Serves
<1>2. state \in StateType
  BY TypeParts
<1>3. /\ state' \in StateType
      /\ state'.pending = None /\ state'.verified = Append(state.verified, a)
      /\ state'.active = state.active /\ state'.previous = state.previous
  <2>. DEFINE v == Append(state.verified, a)
  <2>1. v \in Seq(Digest)
    BY <1>1, <1>2 DEF StateType
  <2>2. state' = [state EXCEPT !.pending = None, !.verified = v]
    BY DEF Verified
  <2>. HIDE DEF v
  <2>3. /\ state' \in StateType /\ state'.pending = None /\ state'.verified = v
        /\ state'.active = state.active /\ state'.previous = state.previous
    BY <1>2, <2>1, <2>2 DEF StateType
  <2>. QED  BY <2>3 DEF v
<1>4. /\ len \in Nat /\ Len(state'.verified) = len + 1
      /\ state'.verified[len + 1] = a
      /\ \A n \in 1 .. len : state'.verified[n] = state.verified[n]
  BY <1>1, <1>2, <1>3 DEF StateType
<1>5. \A n \in 0 .. len : RevisionAt(n)' = RevisionAt(n)
  BY <1>4 DEF RevisionAt
<1>6. TypeOK' /\ LockIsHeld' /\ CallsAreSound'
  BY <1>1, <1>3, ReturnStep, TypePartsPrimed, TypeParts
<1>7. PromotingIsPending' /\ NoPendingWhileStaging'
  BY <1>1, Alone DEF PromotingIsPending, NoPendingWhileStaging, LockedSteps
<1>8. FitsLog(a, len)
  BY <1>1 DEF PendingIsSound
<1>9. LogIsSound'
  <2>. SUFFICES ASSUME NEW n \in 1 .. len + 1
                PROVE  FitsLog(state.verified[n], n - 1)'
    BY <1>4 DEF LogIsSound
  <2>1. FitsLog(IF n = len + 1 THEN a ELSE state.verified[n], n - 1)
    BY <1>4, <1>8 DEF LogIsSound
  <2>2. n - 1 \in 0 .. len /\ (n - 1 > 1 => n - 1 - 1 \in 0 .. len) /\ n - 1 <= len
    BY <1>4
  <2>3. RevisionAt(n - 1)' = RevisionAt(n - 1)
    BY <2>2, <1>5
  <2>4. n - 1 > 1 => RevisionAt(n - 1 - 1)' = RevisionAt(n - 1 - 1)
    BY <2>2, <1>5
  <2>5. state'.verified[n] = IF n = len + 1 THEN a ELSE state.verified[n]
    BY <1>4
  <2>. QED  BY <2>1, <2>3, <2>4, <2>5 DEF FitsLog
<1>10. Current' = a.revision /\ (IF len = 0 THEN None ELSE Current) = Former'
  BY <1>4, <1>5 DEF Current, Former, RevisionAt
<1>11. len = 0 => Current = None
  BY DEF Current, RevisionAt
<1>12. ActiveIsVerified'
  BY <1>1, <1>3, <1>10, <1>11 DEF ActiveIsVerified
<1>13. PendingIsSound'
  BY <1>3 DEF PendingIsSound
<1>. QED  BY <1>6, <1>7, <1>9, <1>12, <1>13

(* Undoing a promotion whose verification failed preserves the invariant.  *)
LEMMA FailedStep ==
  ASSUME IInv, NEW c \in Clients, Failed(c)
  PROVE  IInv'
<1>. USE DEF IInv, DeliveryInv
<1>1. /\ client[c].pc \in {"fetch", "fetched"} /\ Return(c) /\ UNCHANGED store
      /\ state.pending # None
  BY DEF Failed, PromotingIsPending
<1>2. state \in StateType /\ state.pending \in Pending
  BY <1>1, TypeParts DEF StateType
<1>3. /\ state' \in StateType /\ state'.pending = None
      /\ state'.verified = state.verified
      /\ state'.active = state.pending.old_active
      /\ state'.previous = state.pending.old_previous
  <2>. DEFINE x == state.pending.old_active
              y == state.pending.old_previous
              z == state.failed + 1
  <2>1. /\ x \in Revisions \cup {None} /\ y \in Revisions \cup {None} /\ z \in Nat
    BY <1>2 DEF StateType, Pending
  <2>2. state' = [state EXCEPT !.active = x, !.previous = y, !.pending = None, !.failed = z]
    BY DEF Failed, Restored
  <2>. HIDE DEF x, y, z
  <2>3. /\ state' \in StateType /\ state'.pending = None
        /\ state'.verified = state.verified
        /\ state'.active = x /\ state'.previous = y
    BY <1>2, <2>1, <2>2 DEF StateType
  <2>. QED  BY <2>3 DEF x, y
<1>4. TypeOK' /\ LockIsHeld' /\ CallsAreSound'
  BY <1>1, <1>3, ReturnStep, TypePartsPrimed, TypeParts
<1>5. PromotingIsPending' /\ NoPendingWhileStaging'
  BY <1>1, Alone DEF PromotingIsPending, NoPendingWhileStaging, LockedSteps
<1>6. ActiveIsVerified'
  BY <1>1, <1>3 DEF ActiveIsVerified, Current, Former, RevisionAt
<1>7. LogIsSound' /\ PendingIsSound'
  BY <1>3 DEF LogIsSound, PendingIsSound, FitsLog, RevisionAt
<1>. QED  BY <1>4, <1>5, <1>6, <1>7

-----------------------------------------------------------------------------
(***************************************************************************)
(* Every step keeps the inductive invariant.                               *)
(***************************************************************************)
LEMMA NextIInv == IInv /\ [Next]_vars => IInv'
<1>. SUFFICES ASSUME IInv, [Next]_vars PROVE IInv'
  OBVIOUS
<1>1. ASSUME NEW c \in Clients, Command(c) PROVE IInv'
  <2>1. ASSUME NEW id \in Revisions, Stage(c, id) PROVE IInv'
    BY <2>1, StageStep
  <2>2. ASSUME NEW call \in Calls(c), Resume(c, call) PROVE IInv'
    BY <2>2, ResumeStep
  <2>3. ASSUME NEW call \in Calls(c), Start(c, call) PROVE IInv'
    BY <2>3, StartStep
  <2>4. CASE Release(c)
    BY <2>4, ReleaseStep
  <2>5. CASE Rollback(c)
    BY <2>5, RollbackStep
  <2>6. CASE Refuse(c) \/ End(c)
    <3>1. store' \in [Revisions -> {"absent", "staging", "released"}]
      BY <2>6, TypeParts DEF IInv, Refuse, End
    <3>. QED  BY <2>6, <3>1, QuietReturnStep DEF Refuse, End
  <2>7. CASE Fetch(c)
    BY <2>7, FetchStep
  <2>8. CASE Verified(c)
    BY <2>8, VerifiedStep
  <2>9. CASE Failed(c)
    BY <2>9, FailedStep
  <2>. QED  BY <1>1, <2>1, <2>2, <2>3, <2>4, <2>5, <2>6, <2>7, <2>8, <2>9 DEF Command
<1>2. ASSUME NEW id \in Revisions, RemoveStaging(id) PROVE IInv'
  BY <1>2, RemoveStagingStep
<1>3. CASE UNCHANGED vars
  <2>1. TypeOK'
    BY <1>3, TypePartsPrimed, TypeParts DEF IInv, vars
  <2>2. LockIsHeld' /\ CallsAreSound' /\ PromotingIsPending' /\ NoPendingWhileStaging'
    BY <1>3 DEF IInv, DeliveryInv, vars, LockIsHeld, CallsAreSound, PromotingIsPending,
                NoPendingWhileStaging
  <2>. QED  BY <1>3, <2>1, <2>2, StateKept DEF IInv, DeliveryInv, vars
<1>. QED  BY <1>1, <1>2, <1>3 DEF Next

(* The inductive invariant holds in every reachable state.                 *)
THEOREM InductiveInvariant == Spec => []IInv
BY InitIInv, NextIInv, PTL DEF Spec

(***************************************************************************)
(* Every variable keeps its type.                                          *)
(***************************************************************************)
THEOREM TypeCorrect == Spec => []TypeOK
<1>1. IInv => TypeOK
  BY DEF IInv
<1>. QED  BY <1>1, InductiveInvariant, PTL

(* The lock, the calls, the log's digests and the pending promotion of     *)
(* delivery.rs stay in step.                                               *)
THEOREM DeliveryInvariant == Spec => []DeliveryInv
<1>1. IInv => DeliveryInv
  BY DEF IInv
<1>. QED  BY <1>1, InductiveInvariant, PTL

(***************************************************************************)
(* The active revision is the last verified one, or a pending promotion    *)
(* that can undo itself.                                                   *)
(***************************************************************************)
THEOREM ActiveStaysVerified == Spec => []ActiveIsVerified
<1>1. IInv => ActiveIsVerified
  BY DEF IInv, DeliveryInv
<1>. QED  BY <1>1, InductiveInvariant, PTL

(***************************************************************************)
(* No approval makes two transitions: two events of the log were made at   *)
(* different generations.                                                  *)
(***************************************************************************)
THEOREM ApprovalsAreSpent == Spec => []ApprovalSpentOnce
<1>1. IInv => ApprovalSpentOnce
  <2>. SUFFICES ASSUME IInv, NEW m \in 1 .. Len(state.verified),
                       NEW n \in 1 .. Len(state.verified), m # n
                PROVE  state.verified[m] # state.verified[n]
    BY DEF ApprovalSpentOnce
  <2>1. Len(state.verified) \in Nat
    BY TypeParts DEF IInv, StateType
  <2>2. state.verified[m].generation = m - 1 /\ state.verified[n].generation = n - 1
    BY DEF IInv, DeliveryInv, LogIsSound, FitsLog
  <2>. QED  BY <2>1, <2>2
<1>. QED  BY <1>1, InductiveInvariant, PTL

(***************************************************************************)
(* A rollback goes back by one verified revision.                          *)
(***************************************************************************)
THEOREM RollbacksGoBack == Spec => []RollbackGoesBack
<1>1. IInv => RollbackGoesBack
  <2>. SUFFICES ASSUME IInv, NEW n \in 1 .. Len(state.verified),
                       state.verified[n].action = "rollback"
                PROVE  n > 2 /\ state.verified[n].revision = state.verified[n - 2].revision
    BY DEF RollbackGoesBack
  <2>1. Len(state.verified) \in Nat
    BY TypeParts DEF IInv, StateType
  <2>2. n - 1 > 1 /\ state.verified[n].revision = RevisionAt(n - 1 - 1)
    BY DEF IInv, DeliveryInv, LogIsSound, FitsLog
  <2>3. n - 1 - 1 = n - 2 /\ n - 2 # 0
    BY <2>1, <2>2
  <2>. QED  BY <2>1, <2>2, <2>3 DEF RevisionAt
<1>. QED  BY <1>1, InductiveInvariant, PTL

-----------------------------------------------------------------------------
(***************************************************************************)
(* How state.jsonld can change in one step.                                *)
(***************************************************************************)
Starts ==
  /\ state.pending = None
  /\ state'.verified = state.verified

Succeeds ==
  /\ state.pending # None
  /\ state'.pending = None
  /\ state'.verified = Append(state.verified, state.pending.authorization)
  /\ state'.active = state.pending.revision

Undoes ==
  /\ state.pending # None
  /\ state'.pending = None
  /\ state'.verified = state.verified
  /\ state'.active = state.pending.old_active
  /\ state'.previous = state.pending.old_previous

(* state.jsonld changes in three ways only: a promotion starts, succeeds   *)
(* or is undone.                                                           *)
LEMMA StateChanges ==
  ASSUME IInv, [Next]_vars
  PROVE  UNCHANGED state \/ Starts \/ Succeeds \/ Undoes
<1>. USE DEF IInv, DeliveryInv
<1>1. state \in StateType
  BY TypeParts
<1>2. ASSUME NEW c \in Clients, NEW call \in Calls(c), Start(c, call) PROVE Starts
  BY <1>1, <1>2 DEF Start, Starts, Authorized, StateType
<1>3. ASSUME NEW c \in Clients, Verified(c) PROVE Succeeds
  <2>1. /\ client[c].pc = "fetched" /\ state.active = client[c].id
        /\ state' = [state EXCEPT !.pending = None,
                                  !.verified = Append(@, client[c].approval)]
    BY <1>3 DEF Verified, At, Serves
  <2>2. state.pending # None /\ client[c].approval = state.pending.authorization
    BY <2>1 DEF PromotingIsPending
  <2>3. state.active = state.pending.revision
    BY <2>2 DEF ActiveIsVerified
  <2>. QED  BY <1>1, <2>1, <2>2, <2>3 DEF Succeeds, StateType
<1>4. ASSUME NEW c \in Clients, Failed(c) PROVE Undoes
  <2>1. state.pending # None
    BY <1>4 DEF Failed, PromotingIsPending
  <2>2. state' = Restored(state.pending)
    BY <1>4 DEF Failed
  <2>. QED  BY <1>1, <2>1, <2>2 DEF Undoes, Restored, StateType
<1>5. ASSUME NEW c \in Clients, Command(c)
      PROVE  UNCHANGED state \/ Starts \/ Succeeds \/ Undoes
  BY <1>2, <1>3, <1>4, <1>5
     DEF Command, Stage, Release, Rollback, Refuse, Resume, Fetch, End
<1>. QED  BY <1>5 DEF Next, RemoveStaging, vars

(***************************************************************************)
(* A pending promotion is resolved as a whole and as what it was started   *)
(* as.                                                                     *)
(***************************************************************************)
THEOREM PendingResolved == Spec => PendingIsResolved
<1>1. IInv /\ [Next]_vars => [state.pending # None => state' = state \/ Resolved(state.pending)]_vars
  BY StateChanges DEF Starts, Succeeds, Undoes, Resolved
<1>. QED  BY <1>1, InductiveInvariant, PTL DEF Spec, PendingIsResolved

-----------------------------------------------------------------------------
(***************************************************************************)
(* Delivery implements the log: the save of a verified promotion is the    *)
(* transition of its digest, and every other step is a stutter.            *)
(***************************************************************************)
LEMMA BeforeIsRevisionAt == \A n : Log!Before(n) = RevisionAt(n)
BY DEF Log!Before, RevisionAt

(* A digest is determined by the four fields that authorization hashes.    *)
LEMMA DigestOfFields ==
  ASSUME NEW a \in Digest
  PROVE  a = [action |-> a.action, revision |-> a.revision,
              active |-> a.active, generation |-> a.generation]
BY DEF Digest

(* The save that verifies a promotion is a transition of the abstract log. *)
LEMMA SucceedsIsTransition ==
  ASSUME IInv, Succeeds
  PROVE  Log!Next
<1>. DEFINE a == state.pending.authorization
            len == Len(state.verified)
<1>1. a \in Digest /\ len \in Nat
  BY TypeParts DEF IInv, Succeeds, StateType, Pending
<1>2. FitsLog(a, len)
  BY DEF IInv, DeliveryInv, PendingIsSound, Succeeds
<1>3. a.action \in {"deploy", "rollback"} /\ a.revision \in Revisions
  BY <1>1 DEF Digest
<1>4. a = [action |-> a.action, revision |-> a.revision,
           active |-> Log!Before(len), generation |-> len]
  BY <1>1, <1>2, DigestOfFields, BeforeIsRevisionAt DEF FitsLog
<1>5. /\ a.revision # Log!Before(len)
      /\ a.action = "rollback" => len > 1 /\ a.revision = Log!Before(len - 1)
  BY <1>2, BeforeIsRevisionAt DEF FitsLog
<1>6. Log!Transition(a.action, a.revision)
  BY <1>4, <1>5 DEF Log!Transition, Succeeds
<1>. QED  BY <1>3, <1>6 DEF Log!Next

(* delivery.rs implements the log of approved, verified transitions.       *)
THEOREM ImplementsTheLog == Spec => ImplementsLog
<1>1. Init => Log!Init
  BY DEF Init, Log!Init
<1>2. IInv /\ [Next]_vars => [Log!Next]_(state.verified)
  BY StateChanges, SucceedsIsTransition DEF Starts, Undoes
<1>. QED  BY <1>1, <1>2, InductiveInvariant, PTL DEF Spec, ImplementsLog, Log!Spec
=============================================================================
