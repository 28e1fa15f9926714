------------------------------ MODULE ShmRing ------------------------------
(***************************************************************************)
(* The shared-memory ring of crates/leio-harness/src/shm.rs: processes     *)
(* attached to one segment push proposals, verify them with a SwarmCritic  *)
(* and pop them.  Every access to the segment is made under the mutation   *)
(* gate (header.mutation_owner), but the writes an operation makes there   *)
(* are separate steps here, because a process can die between any two of   *)
(* them.  The gate is never taken from its owner, dead or alive.           *)
(*                                                                         *)
(* A handle is one attached ShmRingBuffer; it runs one call at a time, and *)
(* its claims map is its own.  Its critic's verifier_id is the handle.     *)
(***************************************************************************)
EXTENDS Integers, Sequences, SwarmAudit

CONSTANTS
  Capacity,   \* the number of slots
  Handles,    \* the attached handles
  NoHandle,   \* an unowned gate, a zeroed verifier_id
  Payloads,   \* the payloads a proposer may write
  MaxSeq,     \* bound: the pushes of a behaviour
  MayCrash,   \* whether processes die in this instance
  MayGiveUp   \* whether 256 attempts on the gate may not be enough

ASSUME RingAssumption ==
  /\ Capacity \in Nat \ {0}
  /\ MaxSeq \in Nat
  /\ NoHandle \notin Handles
  /\ Payloads \subseteq Payload
  /\ MayCrash \in BOOLEAN /\ MayGiveUp \in BOOLEAN

VARIABLES
  owner,      \* header.mutation_owner
  head, tail, \* header.head, header.tail
  slot,       \* the slots
  claims,     \* claims[h][i]: the generation h claimed in slot i, 0 for none
  pc,         \* the next step of the call each handle is in
  at,         \* the slot_index argument of that call
  seen,       \* the payload verify_slot copied with peek_slot
  dead,       \* the handles whose process died
  pushed,     \* history: what each successful push wrote
  taken       \* history: what the pops returned

shared == <<owner, head, tail, slot>>
local  == <<claims, pc, at, seen, dead>>
history == <<pushed, taken>>
vars == <<shared, local, history>>

Idx == 0 .. Capacity - 1

(***************************************************************************)
(* index & mask, the capacity being a power of two.                        *)
(***************************************************************************)
SlotOf(n) == n % Capacity

EmptySlot ==
  [state |-> "free", seq |-> 0, item |-> UnwrittenPayload,
   by |-> NoHandle, reason |-> "none"]

Init ==
  /\ owner = NoHandle
  /\ head = 0
  /\ tail = 0
  /\ slot = [i \in Idx |-> EmptySlot]
  /\ claims = [h \in Handles |-> [i \in Idx |-> 0]]
  /\ pc = [h \in Handles |-> "idle"]
  /\ at = [h \in Handles |-> 0]
  /\ seen = [h \in Handles |-> UnwrittenPayload]
  /\ dead = {}
  /\ pushed = << >>
  /\ taken = << >>

-----------------------------------------------------------------------------
(***************************************************************************)
(* The steps of a handle.  Outside the gate it is between calls ("idle")   *)
(* or inside verify_slot, about to make the next of its three calls.       *)
(***************************************************************************)
Outside == {"idle", "peek_want", "finish_want"}
Inside  == {"push_check", "push_write", "push_seal", "push_head",
            "claim_check", "claim_record", "peek",
            "finish_check", "finish_reason", "finish_state",
            "pop_check", "pop_tail",
            "unlock_idle", "unlock_peek", "unlock_finish"}

At(h, step) == h \notin dead /\ pc[h] = step

Goto(h, step) == pc' = [pc EXCEPT ![h] = step]

(***************************************************************************)
(* lock_slots succeeds: compare_exchange(0, pid) on the owner.             *)
(***************************************************************************)
LockSlots(h) ==
  /\ owner = NoHandle
  /\ owner' = h

(***************************************************************************)
(* The arguments and locals of a call go out of scope when it returns.     *)
(***************************************************************************)
Return(h) ==
  /\ Goto(h, "idle")
  /\ at' = [at EXCEPT ![h] = 0]
  /\ seen' = [seen EXCEPT ![h] = UnwrittenPayload]

(***************************************************************************)
(* SlotGuard::drop at the end of a call; verify_slot goes on to its next.  *)
(***************************************************************************)
Unlock(h) ==
  /\ \/ At(h, "unlock_idle") /\ Return(h)
     \/ At(h, "unlock_peek") /\ Goto(h, "peek_want") /\ UNCHANGED <<at, seen>>
     \/ At(h, "unlock_finish") /\ Goto(h, "finish_want") /\ UNCHANGED <<at, seen>>
  /\ owner' = NoHandle
  /\ UNCHANGED <<head, tail, slot, claims, dead, history>>

(***************************************************************************)
(* lock_slots fails: the owner kept the gate for 256 attempts.  From idle  *)
(* the call just fails; inside verify_slot the error leaves the claim      *)
(* standing, and nothing resumes it.                                       *)
(***************************************************************************)
GiveUp(h) ==
  /\ MayGiveUp
  /\ owner # NoHandle
  /\ At(h, "peek_want") \/ At(h, "finish_want")
  /\ Return(h)
  /\ UNCHANGED <<shared, claims, dead, history>>

-----------------------------------------------------------------------------
(***************************************************************************)
(* push_with_consensus.                                                    *)
(***************************************************************************)
PushLock(h) ==
  /\ head < MaxSeq
  /\ At(h, "idle") /\ Goto(h, "push_check")
  /\ LockSlots(h)
  /\ UNCHANGED <<head, tail, slot, claims, at, seen, dead, history>>

(***************************************************************************)
(* Faulty variant of IsFull: one push too many.                            *)
(***************************************************************************)
LateIsFull == head - tail > Capacity

IsFull == head - tail >= Capacity

PushCheck(h) ==
  /\ At(h, "push_check")
  /\ IF IsFull
     THEN /\ Goto(h, "unlock_idle")
          /\ UNCHANGED slot
     ELSE /\ Goto(h, "push_write")
          /\ slot' = [slot EXCEPT ![SlotOf(head)].state = "tentative"]
  /\ UNCHANGED <<owner, head, tail, claims, at, seen, dead, history>>

(***************************************************************************)
(* Faulty variant of Written: a verifier_id that survives the recycling of *)
(* the slot.                                                               *)
(***************************************************************************)
KeepVerifierWritten(old, p) ==
  [state |-> old.state, seq |-> head + 1, item |-> p,
   by |-> old.by, reason |-> "none"]

(***************************************************************************)
(* What a push leaves in the slot it writes, whatever was there before.    *)
(***************************************************************************)
Written(old, p) ==
  [state |-> old.state, seq |-> head + 1, item |-> p,
   by |-> NoHandle, reason |-> "none"]

PushWrite(h) ==
  /\ At(h, "push_write") /\ Goto(h, "push_seal")
  /\ \E p \in Payloads : slot' = [slot EXCEPT ![SlotOf(head)] = Written(@, p)]
  /\ UNCHANGED <<owner, head, tail, claims, at, seen, dead, history>>

PushSeal(h) ==
  /\ At(h, "push_seal") /\ Goto(h, "push_head")
  /\ \E state \in {"tentative", "committed"} :
       slot' = [slot EXCEPT ![SlotOf(head)].state = state]
  /\ UNCHANGED <<owner, head, tail, claims, at, seen, dead, history>>

PushHead(h) ==
  /\ At(h, "push_head") /\ Goto(h, "unlock_idle")
  /\ head' = head + 1
  /\ LET s == slot[SlotOf(head)]
     IN  pushed' = Append(pushed, [item |-> s.item, auto |-> s.state = "committed"])
  /\ UNCHANGED <<owner, tail, slot, claims, at, seen, dead, taken>>

-----------------------------------------------------------------------------
(***************************************************************************)
(* try_claim_verification, the first call of verify_slot.  The index may   *)
(* be any slot: the code asks only that its state be Tentative.            *)
(***************************************************************************)
ClaimLock(h, i) ==
  /\ At(h, "idle") /\ Goto(h, "claim_check")
  /\ LockSlots(h)
  /\ at' = [at EXCEPT ![h] = i]
  /\ UNCHANGED <<head, tail, slot, claims, seen, dead, history>>

ClaimCheck(h) ==
  /\ At(h, "claim_check")
  /\ IF slot[at[h]].state # "tentative"
     THEN /\ Goto(h, "unlock_idle")
          /\ UNCHANGED slot
     ELSE /\ Goto(h, "claim_record")
          /\ slot' = [slot EXCEPT ![at[h]].state = "reflecting"]
  /\ UNCHANGED <<owner, head, tail, claims, at, seen, dead, history>>

(***************************************************************************)
(* Faulty variant of ClaimRecord: the claim is not entered in the map.     *)
(***************************************************************************)
ForgetfulClaimRecord(h) ==
  /\ At(h, "claim_record") /\ Goto(h, "unlock_peek")
  /\ slot' = [slot EXCEPT ![at[h]].by = h]
  /\ UNCHANGED <<owner, head, tail, claims, at, seen, dead, history>>

ClaimRecord(h) ==
  /\ At(h, "claim_record") /\ Goto(h, "unlock_peek")
  /\ slot' = [slot EXCEPT ![at[h]].by = h]
  /\ claims' = [claims EXCEPT ![h][at[h]] = slot[at[h]].seq]
  /\ UNCHANGED <<owner, head, tail, at, seen, dead, history>>

(***************************************************************************)
(* peek_slot, the second call.                                             *)
(***************************************************************************)
PeekLock(h) ==
  /\ At(h, "peek_want") /\ Goto(h, "peek")
  /\ LockSlots(h)
  /\ UNCHANGED <<head, tail, slot, claims, at, seen, dead, history>>

Peek(h) ==
  /\ At(h, "peek")
  /\ IF slot[at[h]].state = "free"
     THEN /\ Goto(h, "unlock_idle")
          /\ UNCHANGED seen
     ELSE /\ Goto(h, "unlock_finish")
          /\ seen' = [seen EXCEPT ![h] = slot[at[h]].item]
  /\ UNCHANGED <<shared, claims, at, dead, history>>

(***************************************************************************)
(* finish_verification, the third call, with the verdict of audit_slot on  *)
(* the copy; and the same call made by a handle without a claim.           *)
(***************************************************************************)
FinishLock(h) ==
  /\ At(h, "finish_want") /\ Goto(h, "finish_check")
  /\ LockSlots(h)
  /\ UNCHANGED <<head, tail, slot, claims, at, seen, dead, history>>

ForeignFinishLock(h, i, p) ==
  /\ claims[h][i] = 0
  /\ At(h, "idle") /\ Goto(h, "finish_check")
  /\ LockSlots(h)
  /\ at' = [at EXCEPT ![h] = i]
  /\ seen' = [seen EXCEPT ![h] = p]
  /\ UNCHANGED <<head, tail, slot, claims, dead, history>>

(***************************************************************************)
(* Faulty variant of OwnsClaim: whoever asks, if the slot is reflecting.   *)
(***************************************************************************)
AnyoneOwnsClaim(h, i) == slot[i].state = "reflecting"

OwnsClaim(h, i) ==
  /\ claims[h][i] # 0
  /\ slot[i].state = "reflecting"
  /\ slot[i].seq = claims[h][i]

FinishCheck(h) ==
  /\ At(h, "finish_check")
  /\ Goto(h, IF OwnsClaim(h, at[h]) THEN "finish_reason" ELSE "unlock_idle")
  /\ UNCHANGED <<shared, claims, at, seen, dead, history>>

FinishReason(h) ==
  /\ At(h, "finish_reason") /\ Goto(h, "finish_state")
  /\ slot' = [slot EXCEPT ![at[h]].reason = Audit(seen[h])]
  /\ UNCHANGED <<owner, head, tail, claims, at, seen, dead, history>>

FinishState(h) ==
  /\ At(h, "finish_state") /\ Goto(h, "unlock_idle")
  /\ slot' = [slot EXCEPT ![at[h]].state = Verdict(Audit(seen[h]))]
  /\ claims' = [claims EXCEPT ![h][at[h]] = 0]
  /\ UNCHANGED <<owner, head, tail, at, seen, dead, history>>

-----------------------------------------------------------------------------
(***************************************************************************)
(* pop and pop_any.                                                        *)
(***************************************************************************)
PopLock(h) ==
  /\ At(h, "idle") /\ Goto(h, "pop_check")
  /\ LockSlots(h)
  /\ UNCHANGED <<head, tail, slot, claims, at, seen, dead, history>>

(***************************************************************************)
(* Faulty variant of CanTake: an empty ring is taken for one with a slot.  *)
(***************************************************************************)
EmptyCanTake(via) ==
  /\ tail <= head
  /\ IF via = "pop" THEN slot[SlotOf(tail)].state = "committed"
                    ELSE slot[SlotOf(tail)].state # "reflecting"

CanTake(via) ==
  /\ tail < head
  /\ IF via = "pop" THEN slot[SlotOf(tail)].state = "committed"
                    ELSE slot[SlotOf(tail)].state # "reflecting"

PopTake(h, via) ==
  /\ At(h, "pop_check") /\ Goto(h, "pop_tail")
  /\ CanTake(via)
  /\ taken' = Append(taken, [entry |-> slot[SlotOf(tail)], via |-> via])
  /\ slot' = [slot EXCEPT ![SlotOf(tail)].state = "free"]
  /\ UNCHANGED <<owner, head, tail, claims, at, seen, dead, pushed>>

PopNone(h, via) ==
  /\ At(h, "pop_check") /\ Goto(h, "unlock_idle")
  /\ ~CanTake(via)
  /\ UNCHANGED <<shared, claims, at, seen, dead, history>>

PopTail(h) ==
  /\ At(h, "pop_tail") /\ Goto(h, "unlock_idle")
  /\ tail' = tail + 1
  /\ UNCHANGED <<owner, head, slot, claims, at, seen, dead, history>>

-----------------------------------------------------------------------------
(***************************************************************************)
(* A process dies between two steps; shared memory keeps what it wrote.    *)
(* A new process may attach in its place, with an empty claims map, unless *)
(* the dead one's pid is the owner of the gate.                            *)
(***************************************************************************)
Crash(h) ==
  /\ MayCrash
  /\ h \notin dead
  /\ dead' = dead \cup {h}
  /\ UNCHANGED <<shared, claims, pc, at, seen, history>>

Attach(h) ==
  /\ h \in dead
  /\ owner # h
  /\ dead' = dead \ {h}
  /\ claims' = [claims EXCEPT ![h] = [i \in Idx |-> 0]]
  /\ Return(h)
  /\ UNCHANGED <<shared, history>>

Push(h)   == PushLock(h) \/ PushCheck(h) \/ PushWrite(h) \/ PushSeal(h) \/ PushHead(h)
Verify(h) == \/ \E i \in Idx : ClaimLock(h, i)
             \/ ClaimCheck(h) \/ ClaimRecord(h)
             \/ PeekLock(h) \/ Peek(h)
             \/ \E i \in Idx, p \in Payloads : ForeignFinishLock(h, i, p)
             \/ FinishLock(h) \/ FinishCheck(h) \/ FinishReason(h) \/ FinishState(h)
Pop(h)    == \/ PopLock(h)
             \/ \E via \in {"pop", "pop_any"} : PopTake(h, via) \/ PopNone(h, via)
             \/ PopTail(h)

Next == \E h \in Handles : \/ Push(h) \/ Verify(h) \/ Pop(h)
                           \/ Unlock(h) \/ GiveUp(h)
                           \/ Crash(h) \/ Attach(h)

Spec == Init /\ [][Next]_vars

(***************************************************************************)
(* The scheduling the code relies on: a live process finishes the call it  *)
(* is in, a verifier inside verify_slot gets the gate when it is free      *)
(* again and again, and some consumer keeps draining with pop_any.         *)
(***************************************************************************)
InGateStep(h) ==
  \/ PushCheck(h) \/ PushWrite(h) \/ PushSeal(h) \/ PushHead(h)
  \/ ClaimCheck(h) \/ ClaimRecord(h) \/ Peek(h)
  \/ FinishCheck(h) \/ FinishReason(h) \/ FinishState(h)
  \/ PopTake(h, "pop_any") \/ PopNone(h, "pop_any") \/ PopTail(h)
  \/ Unlock(h)

Fairness ==
  \A h \in Handles :
    /\ WF_vars(InGateStep(h))
    /\ SF_vars(PeekLock(h))
    /\ SF_vars(FinishLock(h))
    /\ SF_vars(PopLock(h))
    /\ SF_vars(PopTake(h, "pop_any"))

FairSpec == Spec /\ Fairness

-----------------------------------------------------------------------------
(***************************************************************************)
(* Every variable has its type.                                            *)
(***************************************************************************)
Slot == [state : SwarmState, seq : 0 .. MaxSeq,
         item : Payloads \cup {UnwrittenPayload},
         by : Handles \cup {NoHandle}, reason : Reason]

TypeOK ==
  /\ owner \in Handles \cup {NoHandle}
  /\ head \in 0 .. MaxSeq
  /\ tail \in 0 .. MaxSeq
  /\ slot \in [Idx -> Slot]
  /\ claims \in [Handles -> [Idx -> 0 .. MaxSeq]]
  /\ pc \in [Handles -> Outside \cup Inside]
  /\ at \in [Handles -> Idx]
  /\ seen \in [Handles -> Payloads \cup {UnwrittenPayload}]
  /\ dead \subseteq Handles
  /\ pushed \in Seq([item : Payloads \cup {UnwrittenPayload}, auto : BOOLEAN])
  /\ taken \in Seq([entry : Slot, via : {"pop", "pop_any"}])

(***************************************************************************)
(* Where the owner of the gate, dead or alive, is in its operation.        *)
(***************************************************************************)
OwnerAt(steps) == owner # NoHandle /\ pc[owner] \in steps
Writing == {"push_write", "push_seal", "push_head"}

InRing(i) == \E n \in tail .. head - 1 : SlotOf(n) = i

(***************************************************************************)
(* The gate excludes: a handle is inside an operation exactly when it is   *)
(* the mutation owner.                                                     *)
(***************************************************************************)
GateExclusion == \A h \in Handles : pc[h] \in Inside <=> owner = h

(***************************************************************************)
(* The ring is never over-full; the slots from tail to head hold the       *)
(* generations tail + 1 .. head, and the others are free, except for the   *)
(* one slot that the owner of the gate is writing or freeing.              *)
(***************************************************************************)
Window ==
  /\ tail <= head
  /\ head - tail <= Capacity
  /\ OwnerAt(Writing \cup {"push_check"}) => head < MaxSeq
  /\ OwnerAt(Writing) => head - tail < Capacity
  /\ OwnerAt({"pop_tail"}) => tail < head
  /\ \A n \in tail .. head - 1 :
       /\ slot[SlotOf(n)].seq = n + 1
       /\ slot[SlotOf(n)].state = "free" <=> n = tail /\ OwnerAt({"pop_tail"})
  /\ \A i \in Idx :
       slot[i].state # "free" => InRing(i) \/ (OwnerAt(Writing) /\ i = SlotOf(head))
  /\ OwnerAt({"push_write", "push_seal"}) => slot[SlotOf(head)].state = "tentative"
  /\ OwnerAt({"push_head"}) => slot[SlotOf(head)].state \in {"tentative", "committed"}
  /\ OwnerAt({"push_seal", "push_head"}) =>
       /\ slot[SlotOf(head)].seq = head + 1
       /\ slot[SlotOf(head)].by = NoHandle
       /\ slot[SlotOf(head)].reason = "none"

(***************************************************************************)
(* What the verifier and the reason of a slot say in each of its states.   *)
(***************************************************************************)
SlotMeans(i) ==
  LET s == slot[i]
  IN  /\ s.state = "tentative" /\ ~(OwnerAt({"push_write"}) /\ i = SlotOf(head)) =>
           s.by = NoHandle /\ s.reason = "none"
      /\ s.state = "reflecting" =>
           /\ s.by = NoHandle => OwnerAt({"claim_record"}) /\ at[owner] = i
           /\ s.reason # "none" => OwnerAt({"finish_state"}) /\ at[owner] = i
      /\ s.state = "committed" =>
           s.reason = "none" /\ (s.by = NoHandle \/ Audit(s.item) = "none")
      /\ s.state = "aborted" =>
           s.by # NoHandle /\ s.reason = Audit(s.item) /\ s.reason # "none"

SlotMeaning == \A i \in Idx : SlotMeans(i)

(***************************************************************************)
(* A claim is never stale and never shared: what a handle holds a claim on *)
(* is still being verified, is the generation it claimed, and names it.    *)
(* So no verdict can land on a proposal that recycled the slot meanwhile.  *)
(***************************************************************************)
ClaimsCurrent ==
  \A h \in Handles, i \in Idx :
    claims[h][i] # 0 =>
      /\ slot[i].state = "reflecting"
      /\ slot[i].seq = claims[h][i]
      /\ slot[i].by = h

(***************************************************************************)
(* Inside verify_slot the handle holds the claim on the slot it works on,  *)
(* and once it has peeked, its copy is the payload it will be judged on.   *)
(***************************************************************************)
Verifying == {"unlock_peek", "peek_want", "peek"}
Judging   == {"unlock_finish", "finish_want", "finish_reason", "finish_state"}

CallHolds(h) ==
  /\ pc[h] = "claim_record" =>
       slot[at[h]].state = "reflecting" /\ slot[at[h]].by = NoHandle
  /\ pc[h] \in Verifying \cup Judging => claims[h][at[h]] # 0
  /\ pc[h] \in Judging => seen[h] = slot[at[h]].item
  /\ pc[h] = "finish_check" /\ claims[h][at[h]] # 0 => seen[h] = slot[at[h]].item
  /\ pc[h] = "finish_state" => slot[at[h]].reason = Audit(seen[h])

CallsHoldClaims == \A h \in Handles : CallHolds(h)

(***************************************************************************)
(* The cursors count the pushes and the pops, and what is in the ring is   *)
(* what was pushed.                                                        *)
(***************************************************************************)
FirstInQueue == IF OwnerAt({"pop_tail"}) THEN tail + 1 ELSE tail

CursorsCount ==
  /\ Len(pushed) = head
  /\ Len(taken) = FirstInQueue
  /\ \A n \in tail .. head - 1 :
       LET s == slot[SlotOf(n)]
       IN  /\ s.item = pushed[n + 1].item
           /\ s.state = "committed" /\ s.by = NoHandle => pushed[n + 1].auto

(***************************************************************************)
(* The inductive invariant of the ring, before the histories.              *)
(***************************************************************************)
RingInv == GateExclusion /\ Window /\ SlotMeaning /\ ClaimsCurrent
             /\ CallsHoldClaims /\ CursorsCount

(* With its types, it is preserved by every step.                          *)
IInv == TypeOK /\ RingInv

(***************************************************************************)
(* Consumers see every proposal exactly once, in the order of the pushes,  *)
(* with the payload its proposer wrote: nothing lost, repeated, reordered  *)
(* or torn, whatever the interleaving and whoever dies where.              *)
(***************************************************************************)
ExactlyOnceInOrder ==
  \A k \in 1 .. Len(taken) :
    /\ k <= Len(pushed)
    /\ taken[k].entry.seq = k
    /\ taken[k].entry.item = pushed[k].item

(***************************************************************************)
(* What pop returns is committed; what is committed was auto-committed by  *)
(* its own push or has a payload the critic approves; what was rejected    *)
(* comes out of pop_any only, with its own verifier and its own reason,    *)
(* never those of an earlier proposal in the same slot.                    *)
(***************************************************************************)
OnlyVerifiedDelivered ==
  \A k \in 1 .. Len(taken) :
    LET e == taken[k].entry
    IN  /\ taken[k].via = "pop" => e.state = "committed"
        /\ e.state = "committed" =>
             /\ e.reason = "none"
             /\ IF e.by = NoHandle THEN pushed[k].auto ELSE Audit(e.item) = "none"
        /\ e.state = "aborted" =>
             e.by # NoHandle /\ e.reason = Audit(e.item) /\ e.reason # "none"

(***************************************************************************)
(* One generation of a slot moves only along Free -> Tentative ->          *)
(* Reflecting -> Committed or Aborted (push may seal it Committed at once) *)
(* and its verdict, payload and verifier are immutable until it is popped. *)
(***************************************************************************)
Arrows == { <<"free", "tentative">>, <<"tentative", "committed">>,
            <<"tentative", "reflecting">>, <<"reflecting", "committed">>,
            <<"reflecting", "aborted">>, <<"tentative", "free">>,
            <<"committed", "free">>, <<"aborted", "free">> }

SlotLifecycle(i) ==
  LET old == slot[i]
      new == slot'[i]
  IN  /\ old.state = new.state \/ <<old.state, new.state>> \in Arrows
      /\ old.state \in {"committed", "aborted"} =>
           \A f \in {"seq", "item", "by", "reason"} : new[f] = old[f]

Lifecycle == [][\A i \in Idx : SlotLifecycle(i)]_vars

(***************************************************************************)
(* A process that dies inside the gate fails the ring closed: nobody ever  *)
(* reads or writes the segment again, so no half-made write is observed.   *)
(***************************************************************************)
StaysClosed ==
  owner \in dead => UNCHANGED <<shared, history>> /\ owner \in dead'

FailsClosed == [][StaysClosed]_vars

(***************************************************************************)
(* Without crashes and with a patient gate, every proposal that was pushed *)
(* leaves the ring: no verifier keeps the tail for ever.  In particular a  *)
(* proposal that is committed while an earlier one at the tail is not yet, *)
(* so that pop returns nothing, does not stay behind it.                   *)
(***************************************************************************)
HeldBack(n) ==
  /\ tail + 1 < n /\ n <= head
  /\ slot[(n - 1) % Capacity].state = "committed"
  /\ slot[tail % Capacity].state # "committed"

EveryProposalLeaves ==
  \A n \in 1 .. MaxSeq : (head >= n ~> tail >= n) /\ (HeldBack(n) ~> tail >= n)

(***************************************************************************)
(* The ring implements the queue of proposals.  A push is visible when     *)
(* head moves, a claim when the verifier's name is written, a verdict when *)
(* the state is, and a pop when the slot is freed.                         *)
(***************************************************************************)
AbstractEntry(s) ==
  LET unclaimed == s.state = "reflecting" /\ s.by = NoHandle
  IN  [item   |-> s.item,
       by     |-> s.by,
       state  |-> IF unclaimed THEN "tentative" ELSE s.state,
       reason |-> IF s.state = "aborted" THEN s.reason ELSE "none"]

AbstractQueue ==
  [k \in 1 .. head - FirstInQueue |-> AbstractEntry(slot[SlotOf(FirstInQueue + k - 1)])]

AbstractTaken ==
  [k \in 1 .. Len(taken) |->
     [entry |-> AbstractEntry(taken[k].entry), via |-> taken[k].via]]

Queue == INSTANCE ConsensusQueue WITH queue <- AbstractQueue, taken <- AbstractTaken

ImplementsQueue == Queue!Spec
=============================================================================
