--------------------------- MODULE ShmRingProofs ---------------------------
(***************************************************************************)
(* Proofs about the shared-memory ring of ShmRing, for every capacity,     *)
(* every set of handles, every set of payloads and every bound.            *)
(***************************************************************************)
EXTENDS ShmRing, SequenceTheorems, TLAPS

(***************************************************************************)
(* index & mask is a slot of the ring, and two positions less than a       *)
(* capacity apart are in different slots.                                  *)
(***************************************************************************)
LEMMA SlotOfType == \A n \in Nat : SlotOf(n) \in Idx
BY RingAssumption DEF SlotOf, Idx

(* Two positions less than a capacity apart have different slots.          *)
LEMMA SlotOfInjective ==
  ASSUME NEW m \in Nat, NEW n \in Nat, m < n, n - m < Capacity
  PROVE  SlotOf(m) # SlotOf(n)
<1> DEFINE a == m \div Capacity
           b == n \div Capacity
<1>1. /\ m = Capacity * a + (m % Capacity)
      /\ n = Capacity * b + (n % Capacity)
      /\ a \in Int /\ b \in Int
  BY RingAssumption
<1>2. SUFFICES ASSUME m % Capacity = n % Capacity PROVE FALSE
  BY DEF SlotOf
<1>3. n - m = Capacity * (b - a)
  BY <1>1, <1>2, RingAssumption
<1>4. CASE b <= a
  <2>1. Capacity * (b - a) <= 0
    BY <1>4, <1>1, RingAssumption
  <2>. QED  BY <2>1, <1>3
<1>5. CASE b >= a + 1
  <2>1. Capacity * (b - a) >= Capacity
    BY <1>5, <1>1, RingAssumption
  <2>. QED  BY <2>1, <1>3, RingAssumption
<1>. QED  BY <1>4, <1>5, <1>1

(***************************************************************************)
(* An audit gives one of the typed reasons and a verdict a terminal state. *)
(***************************************************************************)
LEMMA AuditType == \A p : Audit(p) \in Reason
BY DEF Audit, Reason

(* A verdict is a commit or an abort.                                      *)
LEMMA VerdictType == \A r : Verdict(r) \in {"committed", "aborted"}
BY DEF Verdict

(* The payload of a slot that was never written is a payload.              *)
LEMMA UnwrittenType == UnwrittenPayload \in Payload
BY DEF UnwrittenPayload, Payload

-----------------------------------------------------------------------------
(***************************************************************************)
(* Type correctness.  Writing one field of one slot keeps the slots typed. *)
(***************************************************************************)
LEMMA SlotUpdateType ==
  ASSUME slot \in [Idx -> Slot], NEW i \in Idx
  PROVE  /\ \A st \in SwarmState : [slot EXCEPT ![i].state = st] \in [Idx -> Slot]
         /\ \A b \in Handles : [slot EXCEPT ![i].by = b] \in [Idx -> Slot]
         /\ \A r \in Reason : [slot EXCEPT ![i].reason = r] \in [Idx -> Slot]
         /\ \A s \in Slot : [slot EXCEPT ![i] = s] \in [Idx -> Slot]
BY DEF Slot

(* A created segment is well-typed.                                        *)
LEMMA InitType == Init => TypeOK
<1> SUFFICES ASSUME Init PROVE TypeOK
  OBVIOUS
<1>1. EmptySlot \in Slot
  BY RingAssumption DEF EmptySlot, Slot, SwarmState, Reason
<1>2. 0 \in Idx /\ 0 \in 0 .. MaxSeq
  BY RingAssumption DEF Idx
<1>. QED  BY <1>1, <1>2 DEF Init, TypeOK, Outside

(***************************************************************************)
(* The position a push may write at is below the bound.                    *)
(***************************************************************************)
LEMMA PushBounded ==
  ASSUME TypeOK, Window, GateExclusion, NEW h \in Handles,
         pc[h] \in Writing \cup {"push_check"}
  PROVE  /\ owner = h /\ OwnerAt(Writing \cup {"push_check"})
         /\ head \in Nat /\ tail \in Nat
         /\ head + 1 \in 0 .. MaxSeq
         /\ SlotOf(head) \in Idx
<1>1. owner = h
  BY DEF GateExclusion, Inside, Writing
<1>2. OwnerAt(Writing \cup {"push_check"})
  BY <1>1, RingAssumption DEF OwnerAt
<1>3. head \in Nat /\ tail \in Nat /\ head < MaxSeq
  BY <1>2, RingAssumption DEF Window, TypeOK
<1>. QED  BY <1>1, <1>2, <1>3, RingAssumption, SlotOfType

(* push_with_consensus preserves the type invariant.                       *)
LEMMA PushType ==
  ASSUME TypeOK, Window, GateExclusion, NEW h \in Handles, Push(h)
  PROVE  TypeOK'
<1> USE DEF At, Goto, LockSlots, Outside, Inside, history
<1>1. CASE PushLock(h)
  BY <1>1 DEF PushLock, TypeOK
<1>2. CASE PushCheck(h)
  <2>1. SlotOf(head) \in Idx
    BY <1>2, PushBounded DEF PushCheck
  <2>2. [slot EXCEPT ![SlotOf(head)].state = "tentative"] \in [Idx -> Slot]
    BY <2>1, SlotUpdateType DEF TypeOK, SwarmState
  <2>3. slot' \in [Idx -> Slot]
    BY <1>2, <2>2 DEF PushCheck, TypeOK
  <2>. QED  BY <1>2, <2>3 DEF PushCheck, TypeOK
<1>3. CASE PushWrite(h)
  <2>1. SlotOf(head) \in Idx /\ head + 1 \in 0 .. MaxSeq
    BY <1>3, PushBounded DEF PushWrite, Writing
  <2>2. PICK p \in Payloads :
          slot' = [slot EXCEPT ![SlotOf(head)] = Written(slot[SlotOf(head)], p)]
    BY <1>3 DEF PushWrite
  <2>3. Written(slot[SlotOf(head)], p) \in Slot
    BY <2>1 DEF Written, TypeOK, Slot, Reason
  <2>4. slot' \in [Idx -> Slot]
    BY <2>1, <2>2, <2>3, SlotUpdateType DEF TypeOK
  <2>. QED  BY <1>3, <2>4 DEF PushWrite, TypeOK
<1>4. CASE PushSeal(h)
  <2>1. SlotOf(head) \in Idx
    BY <1>4, PushBounded DEF PushSeal, Writing
  <2>2. \A st \in {"tentative", "committed"} :
          [slot EXCEPT ![SlotOf(head)].state = st] \in [Idx -> Slot]
    BY <2>1, SlotUpdateType DEF TypeOK, SwarmState
  <2>3. slot' \in [Idx -> Slot]
    BY <1>4, <2>2 DEF PushSeal
  <2>. QED  BY <1>4, <2>3 DEF PushSeal, TypeOK
<1>5. CASE PushHead(h)
  <2>1. SlotOf(head) \in Idx /\ head + 1 \in 0 .. MaxSeq
    BY <1>5, PushBounded DEF PushHead, Writing
  <2> DEFINE new == [item |-> slot[SlotOf(head)].item,
                     auto |-> slot[SlotOf(head)].state = "committed"]
  <2>2. new \in [item : Payloads \cup {UnwrittenPayload}, auto : BOOLEAN]
    BY <2>1 DEF TypeOK, Slot
  <2>3. pushed' \in Seq([item : Payloads \cup {UnwrittenPayload}, auto : BOOLEAN])
    BY <1>5, <2>2 DEF PushHead, TypeOK
  <2>. QED  BY <1>5, <2>1, <2>3 DEF PushHead, TypeOK
<1>. QED  BY <1>1, <1>2, <1>3, <1>4, <1>5 DEF Push

(* verify_slot preserves the type invariant.                               *)
LEMMA VerifyType ==
  ASSUME TypeOK, NEW h \in Handles, Verify(h)
  PROVE  TypeOK'
<1> USE DEF At, Goto, LockSlots, Outside, Inside, history, shared
<1>0. at[h] \in Idx /\ slot[at[h]] \in Slot
  BY DEF TypeOK
<1>1. CASE \E i \in Idx : ClaimLock(h, i)
  BY <1>1 DEF ClaimLock, TypeOK
<1>2. CASE ClaimCheck(h)
  <2>1. [slot EXCEPT ![at[h]].state = "reflecting"] \in [Idx -> Slot]
    BY <1>0, SlotUpdateType DEF TypeOK, SwarmState
  <2>2. slot' \in [Idx -> Slot]
    BY <1>2, <2>1 DEF ClaimCheck, TypeOK
  <2>. QED  BY <1>2, <2>2 DEF ClaimCheck, TypeOK
<1>3. CASE ClaimRecord(h)
  <2>1. slot' \in [Idx -> Slot]
    BY <1>0, <1>3, SlotUpdateType DEF ClaimRecord, TypeOK
  <2>2. slot[at[h]].seq \in 0 .. MaxSeq
    BY <1>0 DEF Slot
  <2>3. claims' \in [Handles -> [Idx -> 0 .. MaxSeq]]
    BY <1>0, <1>3, <2>2 DEF ClaimRecord, TypeOK
  <2>. QED  BY <1>3, <2>1, <2>3 DEF ClaimRecord, TypeOK
<1>4. CASE PeekLock(h)
  BY <1>4 DEF PeekLock, TypeOK
<1>5. CASE Peek(h)
  <2>1. slot[at[h]].item \in Payloads \cup {UnwrittenPayload}
    BY <1>0 DEF Slot
  <2>2. seen' \in [Handles -> Payloads \cup {UnwrittenPayload}]
    BY <1>5, <2>1 DEF Peek, TypeOK
  <2>. QED  BY <1>5, <2>2 DEF Peek, TypeOK
<1>6. CASE \E i \in Idx, p \in Payloads : ForeignFinishLock(h, i, p)
  BY <1>6 DEF ForeignFinishLock, TypeOK
<1>7. CASE FinishLock(h)
  BY <1>7 DEF FinishLock, TypeOK
<1>8. CASE FinishCheck(h)
  BY <1>8 DEF FinishCheck, TypeOK
<1>9. CASE FinishReason(h)
  <2>1. slot' \in [Idx -> Slot]
    BY <1>0, <1>9, SlotUpdateType, AuditType DEF FinishReason, TypeOK
  <2>. QED  BY <1>9, <2>1 DEF FinishReason, TypeOK
<1>10. CASE FinishState(h)
  <2>1. Verdict(Audit(seen[h])) \in SwarmState
    BY VerdictType DEF SwarmState
  <2>2. slot' \in [Idx -> Slot]
    BY <1>0, <1>10, <2>1, SlotUpdateType DEF FinishState, TypeOK
  <2>3. claims' \in [Handles -> [Idx -> 0 .. MaxSeq]]
    BY <1>0, <1>10, RingAssumption DEF FinishState, TypeOK
  <2>. QED  BY <1>10, <2>2, <2>3 DEF FinishState, TypeOK
<1>. QED
  BY <1>1, <1>2, <1>3, <1>4, <1>5, <1>6, <1>7, <1>8, <1>9, <1>10 DEF Verify

(* pop and pop_any preserve the type invariant.                            *)
LEMMA PopType ==
  ASSUME TypeOK, Window, GateExclusion, NEW h \in Handles, Pop(h)
  PROVE  TypeOK'
<1> USE DEF At, Goto, LockSlots, Outside, Inside, history, shared
<1>1. CASE PopLock(h)
  BY <1>1 DEF PopLock, TypeOK
<1>2. CASE \E via \in {"pop", "pop_any"} : PopTake(h, via)
  <2>1. PICK via \in {"pop", "pop_any"} : PopTake(h, via)
    BY <1>2
  <2>2. SlotOf(tail) \in Idx
    BY RingAssumption, SlotOfType DEF TypeOK
  <2>3. [slot EXCEPT ![SlotOf(tail)].state = "free"] \in [Idx -> Slot]
    BY <2>2, SlotUpdateType DEF TypeOK, SwarmState
  <2>4. [entry |-> slot[SlotOf(tail)], via |-> via]
          \in [entry : Slot, via : {"pop", "pop_any"}]
    BY <2>2 DEF TypeOK
  <2>5. taken' \in Seq([entry : Slot, via : {"pop", "pop_any"}])
    BY <2>1, <2>4 DEF PopTake, TypeOK
  <2>6. slot' \in [Idx -> Slot]
    BY <2>1, <2>3 DEF PopTake
  <2>. QED  BY <2>1, <2>5, <2>6 DEF PopTake, TypeOK
<1>3. CASE \E via \in {"pop", "pop_any"} : PopNone(h, via)
  BY <1>3 DEF PopNone, TypeOK
<1>4. CASE PopTail(h)
  <2>1. owner = h /\ OwnerAt({"pop_tail"})
    BY <1>4, RingAssumption DEF PopTail, GateExclusion, OwnerAt
  <2>2. tail + 1 \in 0 .. MaxSeq
    BY <2>1, RingAssumption DEF Window, TypeOK
  <2>. QED  BY <1>4, <2>2 DEF PopTail, TypeOK
<1>. QED  BY <1>1, <1>2, <1>3, <1>4 DEF Pop

(* The end of an operation leaves its handle well-typed.                   *)
LEMMA ReturnType ==
  ASSUME TypeOK, NEW h \in Handles, Return(h)
  PROVE  /\ pc' \in [Handles -> Outside \cup Inside]
         /\ at' \in [Handles -> Idx]
         /\ seen' \in [Handles -> Payloads \cup {UnwrittenPayload}]
BY RingAssumption DEF Return, Goto, TypeOK, Outside, Idx

(* Leaving the gate, giving up, dying and attaching preserve the type      *)
(* invariant.                                                              *)
LEMMA OtherType ==
  ASSUME TypeOK, NEW h \in Handles, Unlock(h) \/ GiveUp(h) \/ Crash(h) \/ Attach(h)
  PROVE  TypeOK'
<1> USE DEF history, shared
<1>1. CASE Unlock(h)
  <2>1. CASE At(h, "unlock_idle") /\ Return(h)
    BY <1>1, <2>1, ReturnType DEF Unlock, TypeOK
  <2>2. CASE ~(At(h, "unlock_idle") /\ Return(h))
    BY <1>1, <2>2 DEF Unlock, TypeOK, Goto, Outside
  <2>. QED  BY <2>1, <2>2
<1>2. CASE GiveUp(h)
  BY <1>2, ReturnType DEF GiveUp, TypeOK
<1>3. CASE Crash(h)
  BY <1>3 DEF Crash, TypeOK
<1>4. CASE Attach(h)
  <2>1. claims' \in [Handles -> [Idx -> 0 .. MaxSeq]]
    BY <1>4, RingAssumption DEF Attach, TypeOK
  <2>. QED  BY <1>4, <2>1, ReturnType DEF Attach, TypeOK
<1>. QED  BY <1>1, <1>2, <1>3, <1>4

(* Every step preserves the type invariant, given the ring invariant.      *)
LEMMA TypeStep ==
  ASSUME TypeOK, RingInv, [Next]_vars
  PROVE  TypeOK'
<1>1. ASSUME NEW h \in Handles,
             \/ Push(h) \/ Verify(h) \/ Pop(h)
             \/ Unlock(h) \/ GiveUp(h) \/ Crash(h) \/ Attach(h)
      PROVE  TypeOK'
  BY <1>1, PushType, VerifyType, PopType, OtherType DEF RingInv
<1>2. CASE UNCHANGED vars
  BY <1>2 DEF vars, shared, local, history, TypeOK
<1>. QED  BY <1>1, <1>2 DEF Next

-----------------------------------------------------------------------------
(***************************************************************************)
(* The slots of the window are distinct, and the slot a push writes is not *)
(* one of them.                                                            *)
(***************************************************************************)
LEMMA WindowDistinct ==
  ASSUME TypeOK, Window
  PROVE  /\ head \in Nat /\ tail \in Nat
         /\ \A n \in tail .. head : n \in Nat /\ SlotOf(n) \in Idx
         /\ \A m, n \in tail .. head - 1 : SlotOf(m) = SlotOf(n) => m = n
         /\ head - tail < Capacity => \A n \in tail .. head - 1 : SlotOf(n) # SlotOf(head)
<1>1. head \in Nat /\ tail \in Nat /\ head - tail <= Capacity
  BY RingAssumption DEF TypeOK, Window
<1>2. \A n \in tail .. head : n \in Nat /\ SlotOf(n) \in Idx
  BY <1>1, SlotOfType
<1>3. \A m, n \in tail .. head - 1 : SlotOf(m) = SlotOf(n) => m = n
  <2> SUFFICES ASSUME NEW m \in tail .. head - 1, NEW n \in tail .. head - 1,
                      SlotOf(m) = SlotOf(n)
               PROVE  m = n
    OBVIOUS
  <2>1. m \in Nat /\ n \in Nat /\ Capacity \in Nat
    BY <1>1, RingAssumption
  <2>2. ~(m < n)
    BY <1>1, <2>1, SlotOfInjective
  <2>3. ~(n < m)
    BY <1>1, <2>1, SlotOfInjective
  <2>. QED  BY <2>1, <2>2, <2>3
<1>4. ASSUME head - tail < Capacity, NEW n \in tail .. head - 1
      PROVE  SlotOf(n) # SlotOf(head)
  <2>1. n \in Nat /\ n < head /\ head - n < Capacity
    BY <1>1, <1>4, RingAssumption
  <2>. QED  BY <1>1, <2>1, SlotOfInjective
<1>. QED  BY <1>1, <1>2, <1>3, <1>4

(***************************************************************************)
(* Steps that write nothing: the invariants about the slots hold after     *)
(* them if the owner of the gate is at no step the invariants mention, or  *)
(* at the same step as before.                                             *)
(***************************************************************************)
Sensitive == Writing \cup {"pop_tail", "claim_record", "finish_state"}

(* A step that changes no cursor, slot or history, of an owner whose step  *)
(* means nothing to the slots, preserves what the slots mean.              *)
LEMMA QuietStep ==
  ASSUME Window, SlotMeaning, CursorsCount, UNCHANGED <<head, tail, slot, history>>,
         ~OwnerAt(Sensitive), ~OwnerAt(Sensitive)',
         OwnerAt({"push_check"})' => head < MaxSeq
  PROVE  Window' /\ SlotMeaning' /\ CursorsCount'
<1>2. /\ ~OwnerAt(Writing) /\ ~OwnerAt(Writing)'
      /\ ~OwnerAt({"pop_tail"}) /\ ~OwnerAt({"pop_tail"})'
      /\ ~OwnerAt({"push_write"}) /\ ~OwnerAt({"push_write"})'
      /\ ~OwnerAt({"push_write", "push_seal"})'
      /\ ~OwnerAt({"push_seal", "push_head"})'
      /\ ~OwnerAt({"push_head"})'
      /\ ~OwnerAt({"claim_record"}) /\ ~OwnerAt({"claim_record"})'
      /\ ~OwnerAt({"finish_state"}) /\ ~OwnerAt({"finish_state"})'
  BY DEF OwnerAt, Sensitive, Writing
<1>3. OwnerAt(Writing \cup {"push_check"})' => head' < MaxSeq
  BY <1>2 DEF OwnerAt
<1>4. Window'
  BY <1>2, <1>3 DEF Window, InRing
<1>5. SlotMeaning'
  BY <1>2 DEF SlotMeaning, SlotMeans
<1>6. CursorsCount'
  BY <1>2 DEF CursorsCount, FirstInQueue, history
<1>. QED  BY <1>4, <1>5, <1>6

(* A step of a handle that does not own the gate preserves what the slots  *)
(* mean.                                                                   *)
LEMMA BystanderStep ==
  ASSUME Window, SlotMeaning, CursorsCount, UNCHANGED <<shared, history>>,
         owner # NoHandle => pc'[owner] = pc[owner] /\ at'[owner] = at[owner]
  PROVE  Window' /\ SlotMeaning' /\ CursorsCount'
<1>1. Window'
  BY DEF Window, InRing, OwnerAt, shared
<1>2. SlotMeaning'
  BY DEF SlotMeaning, SlotMeans, OwnerAt, shared
<1>3. CursorsCount'
  BY DEF CursorsCount, FirstInQueue, OwnerAt, shared, history
<1>. QED  BY <1>1, <1>2, <1>3

(***************************************************************************)
(* What a step of h does to the gate: it takes it, keeps it, or gives it   *)
(* back, and no other handle notices.                                      *)
(***************************************************************************)
OthersKeep(h) ==
  \A k \in Handles \ {h} : pc'[k] = pc[k] /\ at'[k] = at[k] /\ seen'[k] = seen[k]

(* Taking, keeping and leaving the gate preserve its exclusion.            *)
LEMMA GateStep ==
  ASSUME TypeOK, GateExclusion, NEW h \in Handles, OthersKeep(h),
         \/ owner = NoHandle /\ owner' = h /\ pc'[h] \in Inside
         \/ owner' = owner /\ (pc[h] \in Inside <=> pc'[h] \in Inside)
         \/ owner = h /\ owner' = NoHandle /\ pc'[h] \notin Inside
  PROVE  GateExclusion'
BY RingAssumption DEF GateExclusion, OthersKeep, TypeOK

(***************************************************************************)
(* A step of h that leaves the slots and the claims alone disturbs neither *)
(* the claims nor the other calls.                                         *)
(***************************************************************************)
LEMMA QuietCalls ==
  ASSUME ClaimsCurrent, CallsHoldClaims, NEW h \in Handles,
         OthersKeep(h), UNCHANGED <<slot, claims>>, CallHolds(h)'
  PROVE  ClaimsCurrent' /\ CallsHoldClaims'
<1>1. ClaimsCurrent'
  BY DEF ClaimsCurrent
<1>2. ASSUME NEW k \in Handles \ {h} PROVE CallHolds(k)'
  BY DEF CallsHoldClaims, CallHolds, OthersKeep
<1>. QED  BY <1>1, <1>2 DEF CallsHoldClaims

(***************************************************************************)
(* A step that moves the control of h and writes no local of another.      *)
(***************************************************************************)
LEMMA GotoKeeps ==
  ASSUME TypeOK, NEW h \in Handles, NEW step, Goto(h, step)
  PROVE  /\ pc'[h] = step
         /\ \A k \in Handles \ {h} : pc'[k] = pc[k]
BY DEF Goto, TypeOK

-----------------------------------------------------------------------------
(***************************************************************************)
(* The five calls that take the gate.                                      *)
(***************************************************************************)
LEMMA LockInv ==
  ASSUME TypeOK, RingInv, NEW h \in Handles,
         \/ PushLock(h) \/ PopLock(h) \/ PeekLock(h) \/ FinishLock(h)
         \/ \E i \in Idx : ClaimLock(h, i)
         \/ \E i \in Idx, p \in Payloads : ForeignFinishLock(h, i, p)
  PROVE  RingInv'
<1> DEFINE Entry == {"push_check", "pop_check", "peek", "finish_check", "claim_check"}
<1>1. /\ owner = NoHandle /\ owner' = h
      /\ UNCHANGED <<head, tail, slot, history, claims>>
      /\ pc'[h] \in Entry
      /\ pc'[h] = "push_check" => head < MaxSeq
      /\ OthersKeep(h)
      /\ pc'[h] = "peek" => pc[h] = "peek_want" /\ UNCHANGED <<at, seen>>
      /\ pc'[h] = "finish_check" =>
           \/ pc[h] = "finish_want" /\ UNCHANGED <<at, seen>>
           \/ claims[h][at'[h]] = 0
  <2> USE DEF At, LockSlots, OthersKeep
  <2>1. CASE PushLock(h)
    BY <2>1, GotoKeeps DEF PushLock
  <2>2. CASE PopLock(h)
    BY <2>2, GotoKeeps DEF PopLock
  <2>3. CASE PeekLock(h)
    BY <2>3, GotoKeeps DEF PeekLock
  <2>4. CASE FinishLock(h)
    BY <2>4, GotoKeeps DEF FinishLock
  <2>5. CASE \E i \in Idx : ClaimLock(h, i)
    BY <2>5, GotoKeeps DEF ClaimLock, TypeOK
  <2>6. CASE \E i \in Idx, p \in Payloads : ForeignFinishLock(h, i, p)
    BY <2>6, GotoKeeps DEF ForeignFinishLock, TypeOK
  <2>. QED  BY <2>1, <2>2, <2>3, <2>4, <2>5, <2>6
<1>2. GateExclusion'
  BY <1>1, GateStep DEF RingInv, Inside
<1>3. /\ ~OwnerAt(Sensitive) /\ ~OwnerAt(Sensitive)'
      /\ OwnerAt({"push_check"})' => head < MaxSeq
  BY <1>1 DEF OwnerAt, Sensitive, Writing
<1>4. Window' /\ SlotMeaning' /\ CursorsCount'
  BY <1>1, <1>3, QuietStep DEF RingInv
<1>5. CallHolds(h)'
  BY <1>1 DEF RingInv, CallsHoldClaims, CallHolds, Verifying, Judging
<1>6. ClaimsCurrent' /\ CallsHoldClaims'
  BY <1>1, <1>5, QuietCalls DEF RingInv
<1>. QED  BY <1>2, <1>4, <1>6 DEF RingInv

(***************************************************************************)
(* The steps inside the gate that write no slot, and the release.          *)
(***************************************************************************)
LEMMA ReadInv ==
  ASSUME TypeOK, RingInv, NEW h \in Handles,
         \/ PushCheck(h) /\ IsFull
         \/ ClaimCheck(h) /\ slot[at[h]].state # "tentative"
         \/ Peek(h) \/ FinishCheck(h) \/ Unlock(h)
         \/ \E via \in {"pop", "pop_any"} : PopNone(h, via)
  PROVE  RingInv'
<1> DEFINE Before == {"push_check", "claim_check", "peek", "finish_check", "pop_check",
                      "unlock_idle", "unlock_peek", "unlock_finish"}
           Unlocks == {"unlock_idle", "unlock_peek", "unlock_finish"}
<1>0. CallHolds(h)
  BY DEF RingInv, CallsHoldClaims
<1>1. /\ pc[h] \in Before
      /\ UNCHANGED <<head, tail, slot, history, claims>>
      /\ OthersKeep(h)
      /\ \/ owner' = owner /\ pc'[h] \in Unlocks \cup {"finish_reason"}
         \/ owner' = NoHandle /\ pc'[h] \in Outside
      /\ CallHolds(h)'
  <2> USE DEF At, OthersKeep, Outside
  <2>1. CASE PushCheck(h) /\ IsFull
    BY <2>1, GotoKeeps DEF PushCheck, CallHolds, Verifying, Judging
  <2>2. CASE ClaimCheck(h) /\ slot[at[h]].state # "tentative"
    BY <2>2, GotoKeeps DEF ClaimCheck, CallHolds, Verifying, Judging
  <2>3. CASE Peek(h)
    <3>1. CASE slot[at[h]].state = "free"
      BY <2>3, <3>1, GotoKeeps DEF Peek, shared, CallHolds, Verifying, Judging
    <3>2. CASE slot[at[h]].state # "free"
      <4>1. /\ pc[h] = "peek" /\ pc'[h] = "unlock_finish"
            /\ seen' = [seen EXCEPT ![h] = slot[at[h]].item]
            /\ UNCHANGED <<shared, claims, at, dead, history>>
            /\ \A k \in Handles \ {h} : pc'[k] = pc[k]
        BY <2>3, <3>2, GotoKeeps DEF Peek
      <4>2. claims[h][at[h]] # 0
        BY <4>1, <1>0 DEF CallHolds, Verifying
      <4>3. seen'[h] = slot'[at'[h]].item
        BY <4>1 DEF shared, TypeOK
      <4>4. CallHolds(h)'
        BY <4>1, <4>2, <4>3 DEF CallHolds, Verifying, Judging
      <4>. QED  BY <4>1, <4>4 DEF shared, TypeOK
    <3>. QED  BY <3>1, <3>2
  <2>4. CASE FinishCheck(h)
    <3>1. /\ pc[h] = "finish_check"
          /\ pc'[h] = IF OwnsClaim(h, at[h]) THEN "finish_reason" ELSE "unlock_idle"
          /\ \A k \in Handles \ {h} : pc'[k] = pc[k]
          /\ UNCHANGED <<shared, claims, at, seen, dead, history>>
      BY <2>4, GotoKeeps DEF FinishCheck
    <3>2. CallHolds(h)'
      BY <3>1, <1>0 DEF CallHolds, OwnsClaim, Verifying, Judging, shared
    <3>. QED  BY <3>1, <3>2 DEF shared
  <2>5. CASE Unlock(h)
    <3>1. CASE At(h, "unlock_idle") /\ Return(h)
      BY <2>5, <3>1, GotoKeeps
         DEF Unlock, Return, TypeOK, CallHolds, Verifying, Judging
    <3>2. CASE At(h, "unlock_peek") /\ Goto(h, "peek_want") /\ UNCHANGED <<at, seen>>
      BY <2>5, <3>2, <1>0, GotoKeeps DEF Unlock, CallHolds, Verifying, Judging
    <3>3. CASE At(h, "unlock_finish") /\ Goto(h, "finish_want") /\ UNCHANGED <<at, seen>>
      BY <2>5, <3>3, <1>0, GotoKeeps DEF Unlock, CallHolds, Verifying, Judging
    <3>. QED  BY <2>5, <3>1, <3>2, <3>3 DEF Unlock
  <2>6. CASE \E via \in {"pop", "pop_any"} : PopNone(h, via)
    BY <2>6, GotoKeeps DEF PopNone, shared, CallHolds, Verifying, Judging
  <2>. QED  BY <2>1, <2>2, <2>3, <2>4, <2>5, <2>6
<1>2. owner = h /\ owner # NoHandle
  BY <1>1, RingAssumption DEF RingInv, GateExclusion, Inside
<1>3. GateExclusion'
  BY <1>1, <1>2, GateStep DEF RingInv, Inside, Outside
<1>4. /\ ~OwnerAt(Sensitive) /\ ~OwnerAt(Sensitive)'
      /\ ~OwnerAt({"push_check"})'
  BY <1>1, <1>2 DEF OwnerAt, Sensitive, Writing
<1>5. Window' /\ SlotMeaning' /\ CursorsCount'
  BY <1>1, <1>4, QuietStep DEF RingInv
<1>6. ClaimsCurrent' /\ CallsHoldClaims'
  BY <1>1, QuietCalls DEF RingInv
<1>. QED  BY <1>3, <1>5, <1>6 DEF RingInv

(***************************************************************************)
(* Giving up, dying, and attaching in the place of the dead.               *)
(***************************************************************************)
LEMMA OutsideInv ==
  ASSUME TypeOK, RingInv, NEW h \in Handles, GiveUp(h) \/ Crash(h) \/ Attach(h)
  PROVE  RingInv'
<1>1. CASE Crash(h)
  BY <1>1 DEF Crash, shared, history, RingInv, GateExclusion, Window, InRing, OwnerAt,
       SlotMeaning, SlotMeans, ClaimsCurrent, CallsHoldClaims, CallHolds, CursorsCount, FirstInQueue
<1>2. CASE GiveUp(h) \/ Attach(h)
  <2>1. /\ UNCHANGED <<shared, history>>
        /\ pc[h] \notin Inside
        /\ pc'[h] = "idle"
        /\ OthersKeep(h)
        /\ owner # h
    <3>1. CASE GiveUp(h)
      BY <3>1, GotoKeeps DEF GiveUp, Return, At, OthersKeep, TypeOK, RingInv,
           GateExclusion, Inside
    <3>2. CASE Attach(h)
      BY <3>2, GotoKeeps DEF Attach, Return, OthersKeep, TypeOK, RingInv, GateExclusion
    <3>. QED  BY <1>2, <3>1, <3>2
  <2>2. GateExclusion'
    BY <2>1, GateStep DEF RingInv, Inside, shared
  <2>3. Window' /\ SlotMeaning' /\ CursorsCount'
    <3>1. owner # NoHandle => owner \in Handles \ {h}
      BY <2>1 DEF TypeOK
    <3>2. owner # NoHandle => pc'[owner] = pc[owner] /\ at'[owner] = at[owner]
      BY <2>1, <3>1 DEF OthersKeep
    <3>. QED  BY <2>1, <3>2, BystanderStep DEF RingInv
  <2>4. /\ \A k \in Handles \ {h} : claims'[k] = claims[k]
        /\ \A i \in Idx : claims'[h][i] # 0 => claims'[h][i] = claims[h][i]
    BY <1>2 DEF GiveUp, Attach, TypeOK
  <2>5. ClaimsCurrent'
    <3> SUFFICES ASSUME NEW k \in Handles, NEW i \in Idx, claims'[k][i] # 0
                 PROVE  /\ slot'[i].state = "reflecting"
                        /\ slot'[i].seq = claims'[k][i]
                        /\ slot'[i].by = k
      BY DEF ClaimsCurrent
    <3>1. claims[k][i] = claims'[k][i]
      BY <2>4
    <3>. QED  BY <2>1, <3>1 DEF shared, RingInv, ClaimsCurrent
  <2>6. CallsHoldClaims'
    <3>1. CallHolds(h)'
      BY <2>1 DEF CallHolds, Verifying, Judging
    <3>2. ASSUME NEW k \in Handles \ {h} PROVE CallHolds(k)'
      BY <2>1, <2>4 DEF RingInv, CallsHoldClaims, CallHolds, OthersKeep, shared
    <3>. QED  BY <3>1, <3>2 DEF CallsHoldClaims
  <2>. QED  BY <2>2, <2>3, <2>5, <2>6 DEF RingInv
<1>. QED  BY <1>1, <1>2

-----------------------------------------------------------------------------
(***************************************************************************)
(* The steps that write a slot.  The owner of the gate is the only one     *)
(* inside, so the calls of the others rest on their claims alone.          *)
(***************************************************************************)
LEMMA SoleInside ==
  ASSUME TypeOK, RingInv, NEW h \in Handles, pc[h] \in Inside
  PROVE  /\ owner = h /\ owner # NoHandle
         /\ \A k \in Handles \ {h} : pc[k] \in Outside
BY RingAssumption DEF RingInv, GateExclusion, TypeOK

(***************************************************************************)
(* A write to slot j keeps what the others claim, unless it is j.          *)
(***************************************************************************)
LEMMA OthersUntouched ==
  ASSUME TypeOK, RingInv, NEW h \in Handles, pc[h] \in Inside, NEW j \in Idx,
         OthersKeep(h), \A k \in Handles \ {h} : claims'[k] = claims[k],
         \A i \in Idx \ {j} : slot'[i] = slot[i],
         \A k \in Handles \ {h} : claims[k][j] = 0
  PROVE  /\ \A k \in Handles \ {h} : CallHolds(k)'
         /\ \A k \in Handles \ {h}, i \in Idx : claims'[k][i] # 0 =>
               slot'[i].state = "reflecting" /\ slot'[i].seq = claims'[k][i] /\ slot'[i].by = k
<1>1. ASSUME NEW k \in Handles \ {h} PROVE CallHolds(k)'
  <2>1. pc[k] \in Outside /\ at[k] \in Idx
    BY SoleInside DEF TypeOK
  <2>2. CASE pc[k] = "idle"
    BY <2>2 DEF CallHolds, OthersKeep, Verifying, Judging
  <2>3. CASE pc[k] \in {"peek_want", "finish_want"}
    <3>1. claims[k][at[k]] # 0
      BY <2>3 DEF RingInv, CallsHoldClaims, CallHolds, Verifying, Judging
    <3>2. slot'[at[k]] = slot[at[k]]
      BY <2>1, <3>1
    <3>. QED
      BY <2>3, <3>1, <3>2
         DEF RingInv, CallsHoldClaims, CallHolds, OthersKeep, Verifying, Judging
  <2>. QED  BY <2>1, <2>2, <2>3 DEF Outside
<1>2. ASSUME NEW k \in Handles \ {h}, NEW i \in Idx, claims'[k][i] # 0
      PROVE  slot'[i].state = "reflecting" /\ slot'[i].seq = claims'[k][i] /\ slot'[i].by = k
  BY <1>2 DEF RingInv, ClaimsCurrent
<1>. QED  BY <1>1, <1>2

(***************************************************************************)
(* The slot a push writes is outside the window and nobody claims it.      *)
(***************************************************************************)
LEMMA PushSlot ==
  ASSUME TypeOK, RingInv, NEW h \in Handles,
         pc[h] \in Writing \/ (pc[h] = "push_check" /\ ~IsFull)
  PROVE  /\ owner = h /\ owner # NoHandle /\ head \in Nat /\ tail \in Nat
         /\ head - tail < Capacity /\ head < MaxSeq
         /\ SlotOf(head) \in Idx
         /\ \A n \in tail .. head - 1 : SlotOf(n) \in Idx \ {SlotOf(head)}
         /\ slot[SlotOf(head)].state \in
              (IF pc[h] = "push_check" THEN {"free"} ELSE {"tentative", "committed"})
         /\ \A k \in Handles : claims[k][SlotOf(head)] = 0
<1>1. owner = h /\ owner # NoHandle
  BY SoleInside DEF Writing, Inside
<1>2. head \in Nat /\ tail \in Nat /\ SlotOf(head) \in Idx
  BY WindowDistinct DEF RingInv, Window
<1>3. head - tail < Capacity /\ head < MaxSeq
  BY <1>1, <1>2, RingAssumption DEF RingInv, Window, OwnerAt, IsFull
<1>4. \A n \in tail .. head - 1 : SlotOf(n) \in Idx \ {SlotOf(head)}
  BY <1>2, <1>3, WindowDistinct DEF RingInv
<1>5. ~InRing(SlotOf(head))
  BY <1>4 DEF InRing
<1>6. slot[SlotOf(head)].state \in
        (IF pc[h] = "push_check" THEN {"free"} ELSE {"tentative", "committed"})
  <2>1. CASE pc[h] = "push_check"
    <3>1. ~OwnerAt(Writing)
      BY <1>1, <2>1 DEF OwnerAt, Writing
    <3>. QED  BY <1>2, <1>5, <2>1, <3>1 DEF RingInv, Window
  <2>2. CASE pc[h] \in Writing
    BY <1>1, <2>2 DEF RingInv, Window, OwnerAt, Writing
  <2>. QED  BY <2>1, <2>2
<1>7. \A k \in Handles : claims[k][SlotOf(head)] = 0
  BY <1>2, <1>6 DEF RingInv, ClaimsCurrent
<1>. QED  BY <1>1, <1>2, <1>3, <1>4, <1>6, <1>7

(***************************************************************************)
(* A slot on which the owner of the gate is not at work speaks for itself. *)
(***************************************************************************)
Sound(s) ==
  /\ s.state = "tentative" => s.by = NoHandle /\ s.reason = "none"
  /\ s.state = "reflecting" => s.by # NoHandle /\ s.reason = "none"
  /\ s.state = "committed" =>
       s.reason = "none" /\ (s.by = NoHandle \/ Audit(s.item) = "none")
  /\ s.state = "aborted" =>
       s.by # NoHandle /\ s.reason = Audit(s.item) /\ s.reason # "none"

(* A slot is sound when it means what its state says and no operation is   *)
(* in the middle of writing it.                                            *)
LEMMA SoundSlot ==
  ASSUME NEW i \in Idx
  PROVE  /\ Sound(slot[i]) => SlotMeans(i)
         /\ Sound(slot'[i]) => SlotMeans(i)'
         /\ SlotMeans(i)
            /\ ~(OwnerAt({"push_write"}) /\ i = SlotOf(head))
            /\ ~(OwnerAt({"claim_record"}) /\ at[owner] = i)
            /\ ~(OwnerAt({"finish_state"}) /\ at[owner] = i)
            => Sound(slot[i])
BY DEF Sound, SlotMeans

(* The three writes of a push to its slot preserve the ring invariant.     *)
LEMMA PushWriteInv ==
  ASSUME TypeOK, RingInv, NEW h \in Handles,
         (PushCheck(h) /\ ~IsFull) \/ PushWrite(h) \/ PushSeal(h)
  PROVE  RingInv'
<1> DEFINE j == SlotOf(head)
<1>1. /\ pc[h] \in {"push_check", "push_write", "push_seal"}
      /\ pc'[h] \in Writing
      /\ UNCHANGED <<owner, head, tail, claims, at, seen, dead, history>>
      /\ OthersKeep(h)
  <2> USE DEF At, OthersKeep, Writing
  <2>1. CASE PushCheck(h) /\ ~IsFull
    BY <2>1, GotoKeeps DEF PushCheck
  <2>2. CASE PushWrite(h)
    BY <2>2, GotoKeeps DEF PushWrite
  <2>3. CASE PushSeal(h)
    BY <2>3, GotoKeeps DEF PushSeal
  <2>. QED  BY <2>1, <2>2, <2>3
<1>2. /\ owner = h /\ owner # NoHandle /\ head \in Nat /\ tail \in Nat
      /\ head - tail < Capacity /\ head < MaxSeq
      /\ j \in Idx
      /\ \A n \in tail .. head - 1 : SlotOf(n) \in Idx \ {j}
      /\ slot[j].state \in {"free", "tentative", "committed"}
      /\ \A k \in Handles : claims[k][j] = 0
  <2>1. pc[h] \in Writing \/ (pc[h] = "push_check" /\ ~IsFull)
    BY <1>1 DEF PushCheck, PushWrite, PushSeal, At, Writing
  <2>. QED  BY <2>1, PushSlot
<1>3. /\ \A i \in Idx \ {j} : slot'[i] = slot[i]
      /\ pc'[h] \in {"push_write", "push_seal"} => slot'[j].state = "tentative"
      /\ slot'[j].state \in {"tentative", "committed"}
      /\ pc'[h] \in {"push_seal", "push_head"} =>
           slot'[j].seq = head + 1 /\ slot'[j].by = NoHandle /\ slot'[j].reason = "none"
  <2> USE DEF At, TypeOK, Slot
  <2>1. CASE PushCheck(h) /\ ~IsFull
    BY <1>2, <2>1, GotoKeeps DEF PushCheck
  <2>2. CASE PushWrite(h)
    <3>1. slot[j].state = "tentative"
      BY <1>2, <2>2 DEF PushWrite, RingInv, Window, OwnerAt
    <3>2. PICK p \in Payloads : slot' = [slot EXCEPT ![j] = Written(slot[j], p)]
      BY <2>2 DEF PushWrite
    <3>3. slot'[j] = Written(slot[j], p) /\ \A i \in Idx \ {j} : slot'[i] = slot[i]
      BY <1>2, <3>2
    <3>. QED  BY <3>1, <3>3 DEF Written
  <2>3. CASE PushSeal(h)
    <3>1. /\ slot[j].seq = head + 1 /\ slot[j].by = NoHandle /\ slot[j].reason = "none"
      BY <1>2, <2>3 DEF PushSeal, RingInv, Window, OwnerAt
    <3>2. pc'[h] = "push_head"
      BY <2>3, GotoKeeps DEF PushSeal
    <3>3. PICK st \in {"tentative", "committed"} : slot' = [slot EXCEPT ![j].state = st]
      BY <2>3 DEF PushSeal
    <3>4. /\ \A i \in Idx \ {j} : slot'[i] = slot[i]
          /\ slot'[j] = [slot[j] EXCEPT !.state = st]
      BY <1>2, <3>3
    <3>5. slot[j] \in Slot
      BY <1>2
    <3>. QED  BY <3>1, <3>2, <3>4, <3>5
  <2>. QED  BY <2>1, <2>2, <2>3
<1>4. GateExclusion'
  BY <1>1, GateStep DEF RingInv, Writing, Inside
<1>5. /\ OwnerAt(Writing)' /\ ~OwnerAt({"pop_tail"}) /\ ~OwnerAt({"pop_tail"})'
      /\ ~OwnerAt({"claim_record"}) /\ ~OwnerAt({"finish_state"})
  BY <1>1, <1>2 DEF OwnerAt, Writing
<1>6. Window'
  <2>1. \A n \in tail .. head - 1 : slot'[SlotOf(n)] = slot[SlotOf(n)]
    BY <1>2, <1>3
  <2>2. \A n \in tail .. head - 1 :
          slot'[SlotOf(n)].seq = n + 1 /\ slot'[SlotOf(n)].state # "free"
    BY <1>5, <2>1 DEF RingInv, Window
  <2>3. \A i \in Idx : slot'[i].state # "free" => InRing(i) \/ i = j
    BY <1>3 DEF RingInv, Window
  <2>4. InRing(j)' = InRing(j) /\ \A i \in Idx : InRing(i)' = InRing(i)
    BY <1>1 DEF InRing
  <2>5. tail <= head /\ head - tail <= Capacity
    BY DEF RingInv, Window
  <2>. QED
    BY <1>1, <1>2, <1>3, <1>5, <2>2, <2>3, <2>4, <2>5 DEF Window, OwnerAt
<1>7. SlotMeaning'
  <2>1. SlotMeans(j)'
    BY <1>1, <1>2, <1>3 DEF SlotMeans, OwnerAt, Writing
  <2>2. ASSUME NEW i \in Idx \ {j} PROVE SlotMeans(i)'
    <3>1. SlotMeans(i) /\ slot'[i] = slot[i]
      BY <1>3 DEF RingInv, SlotMeaning
    <3>2. Sound(slot[i])
      BY <3>1, <1>5, SoundSlot DEF OwnerAt
    <3>. QED  BY <3>1, <3>2, SoundSlot
  <2>. QED  BY <1>1, <2>1, <2>2 DEF SlotMeaning
<1>8. ClaimsCurrent' /\ CallsHoldClaims'
  <2>1. /\ \A k \in Handles \ {h} : CallHolds(k)'
        /\ \A k \in Handles \ {h}, i \in Idx : claims'[k][i] # 0 =>
              slot'[i].state = "reflecting" /\ slot'[i].seq = claims'[k][i] /\ slot'[i].by = k
    BY <1>1, <1>2, <1>3, OthersUntouched DEF Inside
  <2>2. CallHolds(h)'
    BY <1>1 DEF CallHolds, Writing, Verifying, Judging
  <2>3. \A i \in Idx : claims'[h][i] # 0 =>
          slot'[i].state = "reflecting" /\ slot'[i].seq = claims'[h][i] /\ slot'[i].by = h
    BY <1>1, <1>2, <1>3 DEF RingInv, ClaimsCurrent
  <2>. QED  BY <2>1, <2>2, <2>3 DEF ClaimsCurrent, CallsHoldClaims
<1>9. CursorsCount'
  <2>1. \A n \in tail .. head - 1 : slot'[SlotOf(n)] = slot[SlotOf(n)]
    BY <1>2, <1>3
  <2>. QED  BY <1>1, <1>5, <2>1 DEF RingInv, CursorsCount, FirstInQueue, history
<1>. QED  BY <1>4, <1>6, <1>7, <1>8, <1>9 DEF RingInv

(***************************************************************************)
(* head moves: the written slot joins the window, its payload the history. *)
(***************************************************************************)
LEMMA PushHeadInv ==
  ASSUME TypeOK, RingInv, NEW h \in Handles, PushHead(h)
  PROVE  RingInv'
<1> DEFINE j == SlotOf(head)
<1>1. /\ pc[h] = "push_head" /\ pc'[h] = "unlock_idle"
      /\ UNCHANGED <<owner, tail, slot, claims, at, seen, dead, taken>>
      /\ OthersKeep(h)
      /\ head' = head + 1
      /\ pushed' = Append(pushed, [item |-> slot[j].item, auto |-> slot[j].state = "committed"])
  BY GotoKeeps DEF PushHead, At, OthersKeep
<1>2. /\ owner = h /\ owner # NoHandle /\ head \in Nat /\ tail \in Nat
      /\ head - tail < Capacity
      /\ j \in Idx
      /\ \A n \in tail .. head - 1 : SlotOf(n) \in Idx \ {j}
  BY <1>1, PushSlot DEF Writing
<1>3. /\ slot[j].state \in {"tentative", "committed"}
      /\ slot[j].seq = head + 1 /\ slot[j].by = NoHandle /\ slot[j].reason = "none"
  BY <1>1, <1>2 DEF RingInv, Window, OwnerAt
<1>4. GateExclusion'
  BY <1>1, GateStep DEF RingInv, Inside
<1>5. /\ ~OwnerAt({"pop_tail"}) /\ ~OwnerAt({"push_write"})
      /\ ~OwnerAt({"claim_record"}) /\ ~OwnerAt({"finish_state"})
      /\ \A S \in {Writing, Writing \cup {"push_check"}, {"pop_tail"}, {"push_head"},
                   {"push_write", "push_seal"}, {"push_seal", "push_head"}} : ~OwnerAt(S)'
  BY <1>1, <1>2 DEF OwnerAt, Writing
<1>6. tail <= head /\ Capacity \in Nat
  BY RingAssumption DEF RingInv, Window
<1>7. Window'
  <2>1. \A n \in tail .. head :
          slot[SlotOf(n)].seq = n + 1 /\ slot[SlotOf(n)].state # "free"
    <3> SUFFICES ASSUME NEW n \in tail .. head
                 PROVE  slot[SlotOf(n)].seq = n + 1 /\ slot[SlotOf(n)].state # "free"
      OBVIOUS
    <3>1. CASE n = head
      BY <1>3, <3>1
    <3>2. CASE n \in tail .. head - 1
      BY <1>5, <3>2 DEF RingInv, Window
    <3>. QED  BY <1>2, <3>1, <3>2
  <2>2. \A i \in Idx : InRing(i) \/ i = j => InRing(i)'
    BY <1>1, <1>2, <1>6 DEF InRing
  <2>3. \A i \in Idx : slot[i].state # "free" => InRing(i)'
    BY <2>2 DEF RingInv, Window
  <2>4. head' - 1 = head
    BY <1>1, <1>2
  <2>5. /\ head' \in Nat /\ tail' <= head' /\ head' - tail' <= Capacity
        /\ \A n \in tail' .. head' - 1 : n \in tail .. head
    BY <1>1, <1>2, <1>6, <2>4
  <2>6. \A n \in tail' .. head' - 1 :
          slot'[SlotOf(n)].seq = n + 1 /\ slot'[SlotOf(n)].state # "free"
    BY <1>1, <2>1, <2>5
  <2>. QED  BY <1>1, <1>5, <2>3, <2>5, <2>6 DEF Window
<1>8. SlotMeaning'
  <2> SUFFICES ASSUME NEW i \in Idx PROVE SlotMeans(i)'
    BY DEF SlotMeaning
  <2>1. Sound(slot[i])
    BY <1>5, SoundSlot DEF RingInv, SlotMeaning
  <2>. QED  BY <1>1, <2>1, SoundSlot
<1>9. ClaimsCurrent' /\ CallsHoldClaims'
  <2>1. CallHolds(h)'
    BY <1>1 DEF CallHolds, Verifying, Judging
  <2>. QED  BY <1>1, <2>1, QuietCalls DEF RingInv
<1>10. CursorsCount'
  <2>1. /\ Len(pushed) = head /\ Len(taken) = tail
        /\ \A n \in tail .. head - 1 :
             /\ slot[SlotOf(n)].item = pushed[n + 1].item
             /\ slot[SlotOf(n)].state = "committed" /\ slot[SlotOf(n)].by = NoHandle
                  => pushed[n + 1].auto
    BY <1>5 DEF RingInv, CursorsCount, FirstInQueue
  <2>2. /\ Len(pushed') = head + 1
        /\ pushed'[head + 1] = [item |-> slot[j].item, auto |-> slot[j].state = "committed"]
        /\ \A n \in tail .. head - 1 : pushed'[n + 1] = pushed[n + 1]
    BY <1>1, <1>2, <2>1 DEF TypeOK
  <2>3. ASSUME NEW n \in tail .. head
        PROVE  /\ slot[SlotOf(n)].item = pushed'[n + 1].item
               /\ slot[SlotOf(n)].state = "committed" /\ slot[SlotOf(n)].by = NoHandle
                    => pushed'[n + 1].auto
    <3>1. CASE n = head
      <4>1. /\ pushed'[n + 1].item = slot[SlotOf(n)].item
            /\ pushed'[n + 1].auto = (slot[SlotOf(n)].state = "committed")
        BY <2>2, <3>1
      <4>. QED  BY <4>1, Zenon
    <3>2. CASE n \in tail .. head - 1
      BY <2>1, <2>2, <3>2
    <3>. QED  BY <1>2, <3>1, <3>2
  <2>4. head' - 1 = head /\ Len(taken') = FirstInQueue'
    BY <1>1, <1>2, <1>5, <2>1 DEF FirstInQueue
  <2>. QED  BY <1>1, <2>2, <2>3, <2>4 DEF CursorsCount
<1>. QED  BY <1>4, <1>7, <1>8, <1>9, <1>10 DEF RingInv

(***************************************************************************)
(* The steps of a verifier that write its slot: the slot stays occupied,   *)
(* its generation and payload stay, and it does not become auto-committed. *)
(***************************************************************************)
VerifierSteps == {"claim_check", "claim_record", "finish_reason", "finish_state"}
VerifierNexts == {"claim_record", "unlock_peek", "finish_state", "unlock_idle"}

VerifierWrites(h) ==
  LET j == at[h]
  IN  /\ pc[h] \in VerifierSteps /\ pc'[h] \in VerifierNexts
      /\ UNCHANGED <<owner, head, tail, at, seen, dead, history>>
      /\ OthersKeep(h)
      /\ \A i \in Idx \ {j} : slot'[i] = slot[i]
      /\ slot[j].state # "free" /\ slot'[j].state # "free"
      /\ slot'[j].seq = slot[j].seq /\ slot'[j].item = slot[j].item
      /\ slot'[j].state = "committed" => slot'[j].by # NoHandle

(* What the writes of a verifier to its slot leave alone.                  *)
LEMMA VerifierWriteInv ==
  ASSUME TypeOK, RingInv, NEW h \in Handles, VerifierWrites(h)
  PROVE  /\ GateExclusion' /\ Window' /\ CursorsCount'
         /\ at[h] \in Idx /\ owner = h /\ owner # NoHandle
         /\ \A i \in Idx \ {at[h]} : SlotMeans(i)'
<1> DEFINE j == at[h]
<1>1. /\ owner = h /\ owner # NoHandle /\ j \in Idx
      /\ UNCHANGED <<owner, head, tail, at, seen, dead, history>>
      /\ \A i \in Idx \ {j} : slot'[i] = slot[i]
  BY SoleInside DEF VerifierWrites, VerifierSteps, Inside, TypeOK
<1>2. GateExclusion'
  BY GateStep DEF VerifierWrites, VerifierSteps, VerifierNexts, RingInv, Inside
<1>3. \A S \in {Writing, Writing \cup {"push_check"}, {"pop_tail"}, {"push_write"},
               {"push_head"}, {"push_write", "push_seal"}, {"push_seal", "push_head"}} :
        ~OwnerAt(S) /\ ~OwnerAt(S)'
  BY <1>1 DEF OwnerAt, Writing, VerifierWrites, VerifierSteps, VerifierNexts
<1>4. \A n \in tail .. head - 1 :
        /\ SlotOf(n) \in Idx
        /\ slot'[SlotOf(n)].seq = slot[SlotOf(n)].seq
        /\ slot'[SlotOf(n)].item = slot[SlotOf(n)].item
        /\ slot'[SlotOf(n)].state = "free" <=> slot[SlotOf(n)].state = "free"
        /\ slot'[SlotOf(n)].state = "committed" /\ slot'[SlotOf(n)].by = NoHandle
             => slot[SlotOf(n)].state = "committed" /\ slot[SlotOf(n)].by = NoHandle
  <2> SUFFICES ASSUME NEW n \in tail .. head - 1, NEW i \in Idx, i = SlotOf(n)
               PROVE  /\ slot'[i].seq = slot[i].seq
                      /\ slot'[i].item = slot[i].item
                      /\ slot'[i].state = "free" <=> slot[i].state = "free"
                      /\ slot'[i].state = "committed" /\ slot'[i].by = NoHandle
                           => slot[i].state = "committed" /\ slot[i].by = NoHandle
    BY WindowDistinct DEF RingInv
  <2>. QED  BY <1>1 DEF VerifierWrites
<1>5. Window'
  <2>1. \A i \in Idx : slot'[i].state # "free" => InRing(i)
    BY <1>1, <1>3 DEF VerifierWrites, RingInv, Window
  <2>2. \A i \in Idx : InRing(i)' = InRing(i)
    BY <1>1 DEF InRing
  <2>3. \A n \in tail .. head - 1 :
          slot'[SlotOf(n)].seq = n + 1 /\ slot'[SlotOf(n)].state # "free"
    BY <1>3, <1>4 DEF RingInv, Window
  <2>4. tail <= head /\ head - tail <= Capacity
    BY DEF RingInv, Window
  <2>. QED  BY <1>1, <1>3, <2>1, <2>2, <2>3, <2>4 DEF Window
<1>6. CursorsCount'
  <2>1. FirstInQueue' = FirstInQueue
    BY <1>1, <1>3 DEF FirstInQueue
  <2>. QED  BY <1>1, <1>4, <2>1 DEF RingInv, CursorsCount, history
<1>7. ASSUME NEW i \in Idx \ {j} PROVE SlotMeans(i)'
  <2>1. SlotMeans(i) /\ slot'[i] = slot[i]
    BY <1>1 DEF RingInv, SlotMeaning
  <2>2. Sound(slot[i])
    BY <1>1, <1>3, <2>1, SoundSlot
  <2>. QED  BY <2>1, <2>2, SoundSlot
<1>. QED  BY <1>1, <1>2, <1>5, <1>6, <1>7

(***************************************************************************)
(* The claim: first the state, then the verifier and the claims map.       *)
(***************************************************************************)
LEMMA ClaimCheckInv ==
  ASSUME TypeOK, RingInv, NEW h \in Handles, ClaimCheck(h), slot[at[h]].state = "tentative"
  PROVE  RingInv'
<1> DEFINE j == at[h]
<1>1. /\ pc[h] = "claim_check" /\ pc'[h] = "claim_record"
      /\ UNCHANGED <<owner, head, tail, claims, at, seen, dead, history>>
      /\ OthersKeep(h)
      /\ slot' = [slot EXCEPT ![j].state = "reflecting"]
      /\ j \in Idx
  BY GotoKeeps DEF ClaimCheck, At, OthersKeep, TypeOK
<1>2. owner = h /\ owner # NoHandle
  BY <1>1, SoleInside DEF Inside
<1>3. Sound(slot[j])
  <2>1. SlotMeans(j)
    BY <1>1 DEF RingInv, SlotMeaning
  <2>. QED  BY <1>1, <1>2, <2>1, SoundSlot DEF OwnerAt
<1>4. /\ \A i \in Idx \ {j} : slot'[i] = slot[i]
      /\ slot'[j].state = "reflecting" /\ slot'[j].by = NoHandle /\ slot'[j].reason = "none"
      /\ slot'[j].seq = slot[j].seq /\ slot'[j].item = slot[j].item
  <2>1. slot \in [Idx -> Slot]
    BY DEF TypeOK
  <2>. QED  BY <1>1, <1>3, <2>1 DEF Sound, Slot
<1>5. VerifierWrites(h)
  BY <1>1, <1>4 DEF VerifierWrites, VerifierSteps, VerifierNexts
<1>6. SlotMeaning'
  <2>1. OwnerAt({"claim_record"})' /\ at'[owner'] = j
    BY <1>1, <1>2 DEF OwnerAt
  <2>2. SlotMeans(j)'
    BY <1>1, <1>4, <2>1 DEF SlotMeans
  <2>. QED  BY <1>1, <1>5, <2>2, VerifierWriteInv DEF SlotMeaning
<1>7. \A k \in Handles : claims[k][j] = 0
  BY <1>1 DEF RingInv, ClaimsCurrent
<1>8. ClaimsCurrent' /\ CallsHoldClaims'
  <2>1. /\ \A k \in Handles \ {h} : CallHolds(k)'
        /\ \A k \in Handles \ {h}, i \in Idx : claims'[k][i] # 0 =>
              slot'[i].state = "reflecting" /\ slot'[i].seq = claims'[k][i] /\ slot'[i].by = k
    BY <1>1, <1>4, <1>7, OthersUntouched DEF Inside
  <2>2. CallHolds(h)'
    BY <1>1, <1>4 DEF CallHolds, Verifying, Judging
  <2>3. \A i \in Idx : claims'[h][i] # 0 =>
          slot'[i].state = "reflecting" /\ slot'[i].seq = claims'[h][i] /\ slot'[i].by = h
    BY <1>1, <1>4, <1>7 DEF RingInv, ClaimsCurrent
  <2>. QED  BY <2>1, <2>2, <2>3 DEF ClaimsCurrent, CallsHoldClaims
<1>. QED  BY <1>5, <1>6, <1>8, VerifierWriteInv DEF RingInv

(* Recording a claim in the handle's map preserves the ring invariant.     *)
LEMMA ClaimRecordInv ==
  ASSUME TypeOK, RingInv, NEW h \in Handles, ClaimRecord(h)
  PROVE  RingInv'
<1> DEFINE j == at[h]
<1>1. /\ pc[h] = "claim_record" /\ pc'[h] = "unlock_peek"
      /\ UNCHANGED <<owner, head, tail, at, seen, dead, history>>
      /\ OthersKeep(h)
      /\ slot' = [slot EXCEPT ![j].by = h]
      /\ claims' = [claims EXCEPT ![h][j] = slot[j].seq]
      /\ j \in Idx
  BY GotoKeeps DEF ClaimRecord, At, OthersKeep, TypeOK
<1>2. owner = h /\ owner # NoHandle
  BY <1>1, SoleInside DEF Inside
<1>3. /\ slot[j].state = "reflecting" /\ slot[j].by = NoHandle
      /\ slot[j].reason = "none"
  <2>1. slot[j].state = "reflecting" /\ slot[j].by = NoHandle
    BY <1>1 DEF RingInv, CallsHoldClaims, CallHolds
  <2>2. ~OwnerAt({"finish_state"}) /\ SlotMeans(j)
    BY <1>1, <1>2 DEF OwnerAt, RingInv, SlotMeaning
  <2>. QED  BY <2>1, <2>2 DEF SlotMeans
<1>4. /\ \A i \in Idx \ {j} : slot'[i] = slot[i]
      /\ slot'[j].state = "reflecting" /\ slot'[j].by = h /\ slot'[j].reason = "none"
      /\ slot'[j].seq = slot[j].seq /\ slot'[j].item = slot[j].item
  <2>1. slot \in [Idx -> Slot]
    BY DEF TypeOK
  <2>. QED  BY <1>1, <1>3, <2>1 DEF Slot
<1>5. VerifierWrites(h)
  BY <1>1, <1>3, <1>4 DEF VerifierWrites, VerifierSteps, VerifierNexts
<1>6. SlotMeaning'
  <2>1. Sound(slot'[j])
    BY <1>2, <1>4 DEF Sound
  <2>2. SlotMeans(j)'
    BY <1>1, <2>1, SoundSlot
  <2>. QED  BY <1>1, <1>5, <2>2, VerifierWriteInv DEF SlotMeaning
<1>7. \A k \in Handles : claims[k][j] = 0
  BY <1>1, <1>3, RingAssumption DEF RingInv, ClaimsCurrent
<1>8. /\ claims'[h][j] = slot[j].seq
      /\ \A i \in Idx \ {j} : claims'[h][i] = claims[h][i]
      /\ \A k \in Handles \ {h} : claims'[k] = claims[k]
  BY <1>1 DEF TypeOK
<1>9. slot[j].seq # 0
  <2>1. InRing(j)
    BY <1>1, <1>2, <1>3 DEF RingInv, Window, OwnerAt, Writing
  <2>2. PICK n \in tail .. head - 1 : SlotOf(n) = j
    BY <2>1 DEF InRing
  <2>3. slot[j].seq = n + 1 /\ n \in Nat
    BY <2>2, WindowDistinct DEF RingInv, Window
  <2>. QED  BY <2>3
<1>10. ClaimsCurrent' /\ CallsHoldClaims'
  <2>1. /\ \A k \in Handles \ {h} : CallHolds(k)'
        /\ \A k \in Handles \ {h}, i \in Idx : claims'[k][i] # 0 =>
              slot'[i].state = "reflecting" /\ slot'[i].seq = claims'[k][i] /\ slot'[i].by = k
    BY <1>1, <1>4, <1>7, <1>8, OthersUntouched DEF Inside
  <2>2. CallHolds(h)'
    BY <1>1, <1>8, <1>9 DEF CallHolds, Verifying, Judging
  <2>3. \A i \in Idx : claims'[h][i] # 0 =>
          slot'[i].state = "reflecting" /\ slot'[i].seq = claims'[h][i] /\ slot'[i].by = h
    BY <1>4, <1>8 DEF RingInv, ClaimsCurrent
  <2>. QED  BY <2>1, <2>2, <2>3 DEF ClaimsCurrent, CallsHoldClaims
<1>. QED  BY <1>5, <1>6, <1>10, VerifierWriteInv DEF RingInv

(***************************************************************************)
(* The verdict: first the reason, then the state, and the claim is over.   *)
(***************************************************************************)
LEMMA JudgingSlot ==
  ASSUME TypeOK, RingInv, NEW h \in Handles, pc[h] \in {"finish_reason", "finish_state"}
  PROVE  /\ owner = h /\ owner # NoHandle /\ at[h] \in Idx
         /\ slot[at[h]] \in Slot
         /\ slot[at[h]].state = "reflecting" /\ slot[at[h]].by = h
         /\ slot[at[h]].seq = claims[h][at[h]]
         /\ slot[at[h]].item = seen[h]
         /\ claims[h][at[h]] # 0
         /\ \A k \in Handles \ {h} : claims[k][at[h]] = 0
<1>1. owner = h /\ owner # NoHandle /\ at[h] \in Idx /\ slot[at[h]] \in Slot
  BY SoleInside DEF Inside, TypeOK
<1>2. claims[h][at[h]] # 0 /\ slot[at[h]].item = seen[h]
  BY DEF RingInv, CallsHoldClaims, CallHolds, Judging
<1>3. \A k \in Handles : claims[k][at[h]] # 0 =>
        slot[at[h]].state = "reflecting" /\ slot[at[h]].seq = claims[k][at[h]] /\ slot[at[h]].by = k
  BY <1>1 DEF RingInv, ClaimsCurrent
<1>. QED  BY <1>1, <1>2, <1>3

(* Writing the reasons of a verdict preserves the ring invariant.          *)
LEMMA FinishReasonInv ==
  ASSUME TypeOK, RingInv, NEW h \in Handles, FinishReason(h)
  PROVE  RingInv'
<1> DEFINE j == at[h]
<1>1. /\ pc[h] = "finish_reason" /\ pc'[h] = "finish_state"
      /\ UNCHANGED <<owner, head, tail, claims, at, seen, dead, history>>
      /\ OthersKeep(h)
      /\ slot' = [slot EXCEPT ![j].reason = Audit(seen[h])]
  BY GotoKeeps DEF FinishReason, At, OthersKeep, TypeOK
<1>2. /\ owner = h /\ owner # NoHandle /\ j \in Idx /\ slot[j] \in Slot
      /\ slot[j].state = "reflecting" /\ slot[j].by = h
      /\ slot[j].seq = claims[h][j] /\ slot[j].item = seen[h] /\ claims[h][j] # 0
      /\ \A k \in Handles \ {h} : claims[k][j] = 0
  BY <1>1, JudgingSlot
<1>3. /\ \A i \in Idx \ {j} : slot'[i] = slot[i]
      /\ slot'[j].state = "reflecting" /\ slot'[j].by = h
      /\ slot'[j].reason = Audit(seen[h])
      /\ slot'[j].seq = slot[j].seq /\ slot'[j].item = slot[j].item
  <2>1. slot \in [Idx -> Slot]
    BY DEF TypeOK
  <2>. QED  BY <1>1, <1>2, <2>1 DEF Slot
<1>4. VerifierWrites(h)
  BY <1>1, <1>2, <1>3 DEF VerifierWrites, VerifierSteps, VerifierNexts
<1>5. SlotMeaning'
  <2>1. OwnerAt({"finish_state"})' /\ at'[owner'] = j
    BY <1>1, <1>2 DEF OwnerAt
  <2>2. SlotMeans(j)'
    BY <1>1, <1>2, <1>3, <2>1 DEF SlotMeans
  <2>. QED  BY <1>1, <1>4, <2>2, VerifierWriteInv DEF SlotMeaning
<1>6. ClaimsCurrent' /\ CallsHoldClaims'
  <2>1. /\ \A k \in Handles \ {h} : CallHolds(k)'
        /\ \A k \in Handles \ {h}, i \in Idx : claims'[k][i] # 0 =>
              slot'[i].state = "reflecting" /\ slot'[i].seq = claims'[k][i] /\ slot'[i].by = k
    BY <1>1, <1>2, <1>3, OthersUntouched DEF Inside
  <2>2. CallHolds(h)'
    BY <1>1, <1>2, <1>3 DEF CallHolds, Verifying, Judging
  <2>3. \A i \in Idx : claims'[h][i] # 0 =>
          slot'[i].state = "reflecting" /\ slot'[i].seq = claims'[h][i] /\ slot'[i].by = h
    BY <1>1, <1>2, <1>3 DEF RingInv, ClaimsCurrent
  <2>. QED  BY <2>1, <2>2, <2>3 DEF ClaimsCurrent, CallsHoldClaims
<1>. QED  BY <1>4, <1>5, <1>6, VerifierWriteInv DEF RingInv

(* Writing the state of a verdict preserves the ring invariant.            *)
LEMMA FinishStateInv ==
  ASSUME TypeOK, RingInv, NEW h \in Handles, FinishState(h)
  PROVE  RingInv'
<1> DEFINE j == at[h]
<1>1. /\ pc[h] = "finish_state" /\ pc'[h] = "unlock_idle"
      /\ UNCHANGED <<owner, head, tail, at, seen, dead, history>>
      /\ OthersKeep(h)
      /\ slot' = [slot EXCEPT ![j].state = Verdict(Audit(seen[h]))]
      /\ claims' = [claims EXCEPT ![h][j] = 0]
  BY GotoKeeps DEF FinishState, At, OthersKeep, TypeOK
<1>2. /\ owner = h /\ owner # NoHandle /\ j \in Idx /\ slot[j] \in Slot
      /\ slot[j].state = "reflecting" /\ slot[j].by = h
      /\ slot[j].seq = claims[h][j] /\ slot[j].item = seen[h] /\ claims[h][j] # 0
      /\ \A k \in Handles \ {h} : claims[k][j] = 0
  BY <1>1, JudgingSlot
<1>3. slot[j].reason = Audit(seen[h])
  BY <1>1 DEF RingInv, CallsHoldClaims, CallHolds
<1>4. /\ \A i \in Idx \ {j} : slot'[i] = slot[i]
      /\ slot'[j].state = Verdict(slot[j].reason)
      /\ slot'[j].by = h /\ slot'[j].reason = slot[j].reason
      /\ slot'[j].seq = slot[j].seq /\ slot'[j].item = slot[j].item
  <2>1. slot \in [Idx -> Slot]
    BY DEF TypeOK
  <2>. QED  BY <1>1, <1>2, <1>3, <2>1 DEF Slot
<1>5. VerifierWrites(h)
  BY <1>1, <1>2, <1>4, VerdictType DEF VerifierWrites, VerifierSteps, VerifierNexts
<1>6. SlotMeaning'
  <2>1. slot'[j].reason = Audit(slot'[j].item)
    BY <1>2, <1>3, <1>4
  <2>2. Sound(slot'[j])
    BY <1>2, <1>4, <2>1 DEF Sound, Verdict
  <2>3. SlotMeans(j)'
    BY <1>1, <1>2, <2>2, SoundSlot
  <2>. QED  BY <1>1, <1>5, <2>3, VerifierWriteInv DEF SlotMeaning
<1>7. /\ claims'[h][j] = 0
      /\ \A i \in Idx \ {j} : claims'[h][i] = claims[h][i]
      /\ \A k \in Handles \ {h} : claims'[k] = claims[k]
  BY <1>1, <1>2 DEF TypeOK
<1>8. ClaimsCurrent' /\ CallsHoldClaims'
  <2>1. /\ \A k \in Handles \ {h} : CallHolds(k)'
        /\ \A k \in Handles \ {h}, i \in Idx : claims'[k][i] # 0 =>
              slot'[i].state = "reflecting" /\ slot'[i].seq = claims'[k][i] /\ slot'[i].by = k
    BY <1>1, <1>2, <1>4, <1>7, OthersUntouched DEF Inside
  <2>2. CallHolds(h)'
    BY <1>1 DEF CallHolds, Verifying, Judging
  <2>3. \A i \in Idx : claims'[h][i] # 0 =>
          slot'[i].state = "reflecting" /\ slot'[i].seq = claims'[h][i] /\ slot'[i].by = h
    BY <1>4, <1>7 DEF RingInv, ClaimsCurrent
  <2>. QED  BY <2>1, <2>2, <2>3 DEF ClaimsCurrent, CallsHoldClaims
<1>. QED  BY <1>5, <1>6, <1>8, VerifierWriteInv DEF RingInv

-----------------------------------------------------------------------------
(***************************************************************************)
(* A pop frees the oldest slot, then moves tail past it.  What it takes is *)
(* not under verification, so nobody claims it.                            *)
(***************************************************************************)
LEMMA TakenSlot ==
  ASSUME TypeOK, RingInv, NEW h \in Handles, NEW via \in {"pop", "pop_any"}, PopTake(h, via)
  PROVE  LET j == SlotOf(tail)
         IN  /\ owner = h /\ owner # NoHandle /\ head \in Nat /\ tail \in Nat
             /\ tail < head /\ tail \in tail .. head - 1
             /\ j \in Idx /\ slot[j] \in Slot /\ Sound(slot[j])
             /\ slot[j].state \notin {"reflecting", "free"}
             /\ slot[j].seq = tail + 1
             /\ slot[j].item = pushed[tail + 1].item
             /\ slot[j].state = "committed" /\ slot[j].by = NoHandle => pushed[tail + 1].auto
             /\ Len(taken) = tail /\ Len(pushed) = head
             /\ \A k \in Handles : claims[k][j] = 0
             /\ via = "pop" => slot[j].state = "committed"
<1> DEFINE j == SlotOf(tail)
<1>1. pc[h] = "pop_check"
  BY DEF PopTake, At
<1>2. owner = h /\ owner # NoHandle
  BY <1>1, SoleInside DEF Inside
<1>3. /\ head \in Nat /\ tail \in Nat /\ tail < head /\ tail \in tail .. head - 1
      /\ j \in Idx /\ slot[j] \in Slot
  <2>1. tail < head /\ head \in Nat /\ tail \in Nat
    BY WindowDistinct DEF RingInv, PopTake, CanTake
  <2>2. tail \in tail .. head - 1 /\ j \in Idx
    BY <2>1, SlotOfType
  <2>. QED  BY <2>1, <2>2 DEF TypeOK
<1>4. /\ ~OwnerAt({"pop_tail"}) /\ ~OwnerAt({"push_write"})
      /\ ~OwnerAt({"claim_record"}) /\ ~OwnerAt({"finish_state"})
  BY <1>1, <1>2 DEF OwnerAt
<1>5. slot[j].seq = tail + 1 /\ slot[j].state # "free"
  BY <1>3, <1>4 DEF RingInv, Window
<1>6. /\ slot[j].state # "reflecting"
      /\ via = "pop" => slot[j].state = "committed"
  BY DEF PopTake, CanTake
<1>7. Sound(slot[j])
  BY <1>3, <1>4, SoundSlot DEF RingInv, SlotMeaning
<1>8. \A k \in Handles : claims[k][j] = 0
  BY <1>3, <1>6 DEF RingInv, ClaimsCurrent
<1>9. /\ slot[j].item = pushed[tail + 1].item
      /\ slot[j].state = "committed" /\ slot[j].by = NoHandle => pushed[tail + 1].auto
      /\ Len(taken) = tail /\ Len(pushed) = head
  BY <1>3, <1>4 DEF RingInv, CursorsCount, FirstInQueue
<1>. QED  BY <1>2, <1>3, <1>5, <1>6, <1>7, <1>8, <1>9

(* Freeing the oldest slot preserves the ring invariant.                   *)
LEMMA PopTakeInv ==
  ASSUME TypeOK, RingInv, NEW h \in Handles, NEW via \in {"pop", "pop_any"}, PopTake(h, via)
  PROVE  RingInv'
<1> DEFINE j == SlotOf(tail)
<1>1. /\ pc[h] = "pop_check" /\ pc'[h] = "pop_tail"
      /\ UNCHANGED <<owner, head, tail, claims, at, seen, dead, pushed>>
      /\ OthersKeep(h)
      /\ slot' = [slot EXCEPT ![j].state = "free"]
      /\ taken' = Append(taken, [entry |-> slot[j], via |-> via])
  BY GotoKeeps DEF PopTake, At, OthersKeep
<1>2. /\ owner = h /\ owner # NoHandle /\ head \in Nat /\ tail \in Nat
      /\ tail < head /\ tail \in tail .. head - 1
      /\ j \in Idx /\ slot[j] \in Slot
      /\ slot[j].seq = tail + 1
      /\ Len(taken) = tail /\ Len(pushed) = head
      /\ \A k \in Handles : claims[k][j] = 0
  BY TakenSlot
<1>3. /\ \A i \in Idx \ {j} : slot'[i] = slot[i]
      /\ slot'[j].state = "free" /\ slot'[j].seq = slot[j].seq
      /\ slot'[j].item = slot[j].item
  <2>1. slot \in [Idx -> Slot]
    BY DEF TypeOK
  <2>. QED  BY <1>1, <1>2, <2>1 DEF Slot
<1>4. GateExclusion'
  BY <1>1, GateStep DEF RingInv, Inside
<1>5. /\ OwnerAt({"pop_tail"})'
      /\ \A S \in {Writing, Writing \cup {"push_check"}, {"push_write"}, {"push_head"},
                   {"push_write", "push_seal"}, {"push_seal", "push_head"},
                   {"claim_record"}, {"finish_state"}} : ~OwnerAt(S) /\ ~OwnerAt(S)'
      /\ ~OwnerAt({"pop_tail"})
  BY <1>1, <1>2 DEF OwnerAt, Writing
<1>6. \A n \in tail .. head - 1 :
        /\ SlotOf(n) = j <=> n = tail
        /\ SlotOf(n) \in Idx
        /\ slot'[SlotOf(n)].seq = n + 1
        /\ slot'[SlotOf(n)].state = "free" <=> n = tail
        /\ slot'[SlotOf(n)].item = slot[SlotOf(n)].item
        /\ n # tail => slot'[SlotOf(n)] = slot[SlotOf(n)]
  <2> SUFFICES ASSUME NEW n \in tail .. head - 1
               PROVE  /\ SlotOf(n) = j <=> n = tail
                      /\ SlotOf(n) \in Idx
                      /\ slot'[SlotOf(n)].seq = n + 1
                      /\ slot'[SlotOf(n)].state = "free" <=> n = tail
                      /\ slot'[SlotOf(n)].item = slot[SlotOf(n)].item
                      /\ n # tail => slot'[SlotOf(n)] = slot[SlotOf(n)]
    OBVIOUS
  <2>1. SlotOf(n) = j <=> n = tail
    BY <1>2, WindowDistinct DEF RingInv
  <2>2. SlotOf(n) \in Idx
    BY <1>2, WindowDistinct DEF RingInv
  <2>3. slot[SlotOf(n)].seq = n + 1 /\ slot[SlotOf(n)].state # "free"
    BY <1>5 DEF RingInv, Window
  <2>. QED  BY <1>3, <2>1, <2>2, <2>3
<1>7. Window'
  <2>1. \A i \in Idx : slot'[i].state # "free" => InRing(i)
    BY <1>3, <1>5 DEF RingInv, Window
  <2>2. \A i \in Idx : InRing(i)' = InRing(i)
    BY <1>1 DEF InRing
  <2>3. tail <= head /\ head - tail <= Capacity
    BY DEF RingInv, Window
  <2>. QED  BY <1>1, <1>2, <1>5, <1>6, <2>1, <2>2, <2>3 DEF Window
<1>8. SlotMeaning'
  <2> SUFFICES ASSUME NEW i \in Idx PROVE SlotMeans(i)'
    BY DEF SlotMeaning
  <2>1. CASE i = j
    <3>1. Sound(slot'[i])
      BY <1>3, <2>1 DEF Sound
    <3>. QED  BY <3>1, SoundSlot
  <2>2. CASE i # j
    <3>1. Sound(slot[i])
      BY <1>5, SoundSlot DEF RingInv, SlotMeaning
    <3>2. slot'[i] = slot[i]
      BY <1>3, <2>2
    <3>. QED  BY <3>1, <3>2, SoundSlot
  <2>. QED  BY <2>1, <2>2
<1>9. ClaimsCurrent' /\ CallsHoldClaims'
  <2>0. /\ pc[h] \in Inside /\ j \in Idx /\ OthersKeep(h)
        /\ \A k \in Handles \ {h} : claims'[k] = claims[k]
        /\ \A k \in Handles \ {h} : claims[k][j] = 0
    BY <1>1, <1>2 DEF Inside
  <2>1. /\ \A k \in Handles \ {h} : CallHolds(k)'
        /\ \A k \in Handles \ {h}, i \in Idx : claims'[k][i] # 0 =>
              slot'[i].state = "reflecting" /\ slot'[i].seq = claims'[k][i] /\ slot'[i].by = k
    <3> HIDE DEF j
    <3>. QED  BY <1>3, <2>0, OthersUntouched
  <2>2. CallHolds(h)'
    BY <1>1 DEF CallHolds, Verifying, Judging
  <2>3. \A i \in Idx : claims'[h][i] # 0 =>
          slot'[i].state = "reflecting" /\ slot'[i].seq = claims'[h][i] /\ slot'[i].by = h
    BY <1>1, <1>2, <1>3 DEF RingInv, ClaimsCurrent
  <2>. QED  BY <2>1, <2>2, <2>3 DEF ClaimsCurrent, CallsHoldClaims
<1>10. CursorsCount'
  <2>1. Len(taken') = tail + 1 /\ FirstInQueue' = tail + 1
    BY <1>1, <1>2, <1>5 DEF FirstInQueue, TypeOK
  <2>2. \A n \in tail .. head - 1 :
          /\ slot[SlotOf(n)].item = pushed[n + 1].item
          /\ slot[SlotOf(n)].state = "committed" /\ slot[SlotOf(n)].by = NoHandle
               => pushed[n + 1].auto
    BY DEF RingInv, CursorsCount
  <2>3. \A n \in tail .. head - 1 :
          /\ slot'[SlotOf(n)].item = pushed[n + 1].item
          /\ slot'[SlotOf(n)].state = "committed" /\ slot'[SlotOf(n)].by = NoHandle
               => pushed[n + 1].auto
    BY <1>6, <2>2
  <2>. QED  BY <1>1, <1>2, <2>1, <2>3 DEF CursorsCount
<1>. QED  BY <1>4, <1>7, <1>8, <1>9, <1>10 DEF RingInv

(* Moving tail past a freed slot preserves the ring invariant.             *)
LEMMA PopTailInv ==
  ASSUME TypeOK, RingInv, NEW h \in Handles, PopTail(h)
  PROVE  RingInv'
<1>1. /\ pc[h] = "pop_tail" /\ pc'[h] = "unlock_idle"
      /\ UNCHANGED <<owner, head, slot, claims, at, seen, dead, history>>
      /\ OthersKeep(h)
      /\ tail' = tail + 1
  BY GotoKeeps DEF PopTail, At, OthersKeep
<1>2. owner = h /\ owner # NoHandle
  BY <1>1, SoleInside DEF Inside
<1>3. /\ OwnerAt({"pop_tail"}) /\ ~OwnerAt({"pop_tail"})'
      /\ \A S \in {Writing, Writing \cup {"push_check"}, {"push_write"}, {"push_head"},
                   {"push_write", "push_seal"}, {"push_seal", "push_head"},
                   {"claim_record"}, {"finish_state"}} : ~OwnerAt(S) /\ ~OwnerAt(S)'
  BY <1>1, <1>2 DEF OwnerAt, Writing
<1>4. /\ head \in Nat /\ tail \in Nat /\ tail < head /\ Capacity \in Nat
      /\ head - tail <= Capacity
  BY <1>3, WindowDistinct, RingAssumption DEF RingInv, Window
<1>5. GateExclusion'
  BY <1>1, GateStep DEF RingInv, Inside
<1>6. Window'
  <2>1. \A n \in tail .. head - 1 :
          slot[SlotOf(n)].seq = n + 1 /\ (slot[SlotOf(n)].state = "free" <=> n = tail)
    BY <1>3 DEF RingInv, Window
  <2>2. ASSUME NEW i \in Idx, slot[i].state # "free" PROVE InRing(i)'
    <3>1. PICK n \in tail .. head - 1 : SlotOf(n) = i
      BY <1>3, <2>2 DEF RingInv, Window, InRing
    <3>2. n # tail
      BY <2>1, <2>2, <3>1, <1>4
    <3>. QED  BY <1>1, <1>4, <3>1, <3>2 DEF InRing
  <2>. QED  BY <1>1, <1>3, <1>4, <2>1, <2>2 DEF Window
<1>7. SlotMeaning'
  <2> SUFFICES ASSUME NEW i \in Idx PROVE SlotMeans(i)'
    BY DEF SlotMeaning
  <2>1. Sound(slot[i])
    BY <1>3, SoundSlot DEF RingInv, SlotMeaning
  <2>. QED  BY <1>1, <2>1, SoundSlot
<1>8. ClaimsCurrent' /\ CallsHoldClaims'
  <2>1. CallHolds(h)'
    BY <1>1 DEF CallHolds, Verifying, Judging
  <2>. QED  BY <1>1, <2>1, QuietCalls DEF RingInv
<1>9. CursorsCount'
  <2>1. FirstInQueue = tail + 1 /\ FirstInQueue' = tail + 1
    BY <1>1, <1>3 DEF FirstInQueue
  <2>. QED  BY <1>1, <1>4, <2>1 DEF RingInv, CursorsCount, history
<1>. QED  BY <1>5, <1>6, <1>7, <1>8, <1>9 DEF RingInv

-----------------------------------------------------------------------------
(***************************************************************************)
(* The ring invariant holds initially and every step keeps it.             *)
(***************************************************************************)
LEMMA InitRingInv == Init => RingInv
<1> SUFFICES ASSUME Init PROVE RingInv
  OBVIOUS
<1>1. \A S : ~OwnerAt(S)
  BY DEF Init, OwnerAt
<1>2. tail .. head - 1 = {}
  BY DEF Init
<1>3. GateExclusion
  BY RingAssumption DEF Init, GateExclusion, Inside
<1>4. Window
  BY <1>1, <1>2, RingAssumption DEF Init, Window, EmptySlot
<1>5. SlotMeaning
  BY <1>1 DEF Init, SlotMeaning, SlotMeans, EmptySlot
<1>6. ClaimsCurrent
  BY DEF Init, ClaimsCurrent
<1>7. CallsHoldClaims
  BY DEF Init, CallsHoldClaims, CallHolds, Verifying, Judging
<1>8. CursorsCount
  BY <1>1, <1>2 DEF Init, CursorsCount, FirstInQueue
<1>. QED  BY <1>3, <1>4, <1>5, <1>6, <1>7, <1>8 DEF RingInv

(* Every step preserves the ring invariant.                                *)
LEMMA RingStep ==
  ASSUME TypeOK, RingInv, [Next]_vars
  PROVE  RingInv'
<1>1. CASE UNCHANGED vars
  BY <1>1 DEF vars, shared, local, history, RingInv, GateExclusion, Window, InRing, OwnerAt,
       SlotMeaning, SlotMeans, ClaimsCurrent, CallsHoldClaims, CallHolds, CursorsCount, FirstInQueue
<1>2. ASSUME NEW h \in Handles, Push(h) PROVE RingInv'
  <2>1. CASE PushCheck(h)
    <3>1. CASE IsFull
      BY <2>1, <3>1, ReadInv
    <3>2. CASE ~IsFull
      BY <2>1, <3>2, PushWriteInv
    <3>. QED  BY <3>1, <3>2
  <2>. QED  BY <1>2, <2>1, LockInv, PushWriteInv, PushHeadInv DEF Push
<1>3. ASSUME NEW h \in Handles, Verify(h) PROVE RingInv'
  <2>1. CASE ClaimCheck(h)
    BY <2>1, ReadInv, ClaimCheckInv
  <2>. QED
    BY <1>3, <2>1, LockInv, ReadInv, ClaimRecordInv, FinishReasonInv, FinishStateInv DEF Verify
<1>4. ASSUME NEW h \in Handles, Pop(h) PROVE RingInv'
  BY <1>4, LockInv, ReadInv, PopTakeInv, PopTailInv DEF Pop
<1>5. ASSUME NEW h \in Handles, Unlock(h) \/ GiveUp(h) \/ Crash(h) \/ Attach(h)
      PROVE  RingInv'
  BY <1>5, ReadInv, OutsideInv
<1>. QED  BY <1>1, <1>2, <1>3, <1>4, <1>5 DEF Next

(* The type invariant and the ring invariant are inductive together.       *)
LEMMA TypedRing == Spec => [](TypeOK /\ RingInv)
<1>1. Init => TypeOK /\ RingInv
  BY InitType, InitRingInv
<1>2. TypeOK /\ RingInv /\ [Next]_vars => (TypeOK /\ RingInv)'
  BY TypeStep, RingStep
<1>. QED  BY <1>1, <1>2, PTL DEF Spec

(***************************************************************************)
(* Every variable keeps its type: in particular the cursors stay within    *)
(* the bound and every operation of shm.rs works on a slot of the ring.    *)
(***************************************************************************)
THEOREM TypeCorrect == Spec => []TypeOK
BY TypedRing, PTL

(***************************************************************************)
(* The ring invariant: the gate excludes, the window from tail to head     *)
(* holds its generations, every slot means what its state says, and calls  *)
(* in progress hold current claims, wherever processes die or give up.     *)
(***************************************************************************)
THEOREM RingInvariant == Spec => []RingInv
BY TypedRing, PTL

(* Both together, which every step of every operation of shm.rs preserves. *)
THEOREM InductiveInvariant == Spec => []IInv
BY TypedRing, PTL DEF IInv

(***************************************************************************)
(* A claim of verify_slot is never stale and never shared: the generation  *)
(* it names is still in its slot, reflecting, with its own verifier.       *)
(***************************************************************************)
THEOREM ClaimsStayCurrent == Spec => []ClaimsCurrent
<1>1. RingInv => ClaimsCurrent
  BY DEF RingInv
<1>. QED  BY <1>1, RingInvariant, PTL

-----------------------------------------------------------------------------
(***************************************************************************)
(* The histories grow by a push that moves head and by a pop that takes.   *)
(***************************************************************************)
LEMMA HistoryStep ==
  ASSUME [Next]_vars
  PROVE  \/ UNCHANGED history
         \/ \E h \in Handles : PushHead(h)
         \/ \E h \in Handles, via \in {"pop", "pop_any"} : PopTake(h, via)
<1>1. CASE UNCHANGED vars
  BY <1>1 DEF vars
<1>2. ASSUME NEW h \in Handles, Push(h)
      PROVE  UNCHANGED history \/ PushHead(h)
  BY <1>2 DEF Push, PushLock, PushCheck, PushWrite, PushSeal
<1>3. ASSUME NEW h \in Handles, Verify(h)
      PROVE  UNCHANGED history
  BY <1>3 DEF Verify, ClaimLock, ClaimCheck, ClaimRecord, PeekLock, Peek, ForeignFinishLock,
       FinishLock, FinishCheck, FinishReason, FinishState
<1>4. ASSUME NEW h \in Handles, Pop(h)
      PROVE  UNCHANGED history \/ \E via \in {"pop", "pop_any"} : PopTake(h, via)
  BY <1>4 DEF Pop, PopLock, PopNone, PopTail
<1>5. ASSUME NEW h \in Handles, Unlock(h) \/ GiveUp(h) \/ Crash(h) \/ Attach(h)
      PROVE  UNCHANGED history
  BY <1>5 DEF Unlock, GiveUp, Crash, Attach
<1>. QED  BY <1>1, <1>2, <1>3, <1>4, <1>5 DEF Next

(* Every step preserves what was delivered, and in which order.            *)
LEMMA DeliveryStep ==
  ASSUME TypeOK, RingInv, ExactlyOnceInOrder, OnlyVerifiedDelivered, [Next]_vars
  PROVE  ExactlyOnceInOrder' /\ OnlyVerifiedDelivered'
<1>1. CASE UNCHANGED history
  BY <1>1 DEF history, ExactlyOnceInOrder, OnlyVerifiedDelivered
<1>2. CASE \E h \in Handles : PushHead(h)
  <2>1. PICK h \in Handles : PushHead(h)
    BY <1>2
  <2>2. /\ taken' = taken /\ Len(taken) \in Nat
        /\ Len(pushed) \in Nat
        /\ Len(pushed') = Len(pushed) + 1
        /\ \A k \in 1 .. Len(pushed) : pushed'[k] = pushed[k]
    BY <2>1 DEF PushHead, TypeOK
  <2>3. \A k \in 1 .. Len(taken) : k \in 1 .. Len(pushed)
    BY <2>2 DEF ExactlyOnceInOrder
  <2>4. ExactlyOnceInOrder'
    BY <2>2, <2>3 DEF ExactlyOnceInOrder
  <2>5. OnlyVerifiedDelivered'
    BY <2>2, <2>3 DEF OnlyVerifiedDelivered
  <2>. QED  BY <2>4, <2>5
<1>3. CASE \E h \in Handles, via \in {"pop", "pop_any"} : PopTake(h, via)
  <2>1. PICK h \in Handles, via \in {"pop", "pop_any"} : PopTake(h, via)
    BY <1>3
  <2> DEFINE s == slot[SlotOf(tail)]
  <2>2. /\ tail \in Nat /\ head \in Nat /\ tail < head /\ Sound(s)
        /\ s.seq = tail + 1 /\ s.item = pushed[tail + 1].item
        /\ s.state = "committed" /\ s.by = NoHandle => pushed[tail + 1].auto
        /\ Len(taken) = tail /\ Len(pushed) = head
        /\ via = "pop" => s.state = "committed"
    BY <2>1, TakenSlot
  <2>3. /\ pushed' = pushed
        /\ taken' = Append(taken, [entry |-> s, via |-> via])
    BY <2>1 DEF PopTake
  <2>4. /\ Len(taken') = tail + 1
        /\ \A k \in 1 .. tail : taken'[k] = taken[k]
        /\ taken'[tail + 1].entry = s /\ taken'[tail + 1].via = via
    BY <2>2, <2>3 DEF TypeOK
  <2>5. \A k \in 1 .. tail + 1 : k = tail + 1 \/ k \in 1 .. tail
    BY <2>2
  <2> HIDE DEF s
  <2>6. ExactlyOnceInOrder'
    <3> SUFFICES ASSUME NEW k \in 1 .. tail + 1
                 PROVE  /\ k <= Len(pushed)
                        /\ taken'[k].entry.seq = k
                        /\ taken'[k].entry.item = pushed[k].item
      BY <2>3, <2>4 DEF ExactlyOnceInOrder
    <3>1. CASE k = tail + 1
      BY <2>2, <2>4, <3>1
    <3>2. CASE k \in 1 .. tail
      BY <2>2, <2>4, <3>2 DEF ExactlyOnceInOrder
    <3>. QED  BY <2>5, <3>1, <3>2
  <2>7. OnlyVerifiedDelivered'
    <3> DEFINE Good(e, via_, k) ==
          /\ via_ = "pop" => e.state = "committed"
          /\ e.state = "committed" =>
               /\ e.reason = "none"
               /\ IF e.by = NoHandle THEN pushed[k].auto ELSE Audit(e.item) = "none"
          /\ e.state = "aborted" =>
               e.by # NoHandle /\ e.reason = Audit(e.item) /\ e.reason # "none"
    <3>1. Good(s, via, tail + 1)
      BY <2>2 DEF Sound
    <3>2. \A k \in 1 .. tail : Good(taken[k].entry, taken[k].via, k)
      BY <2>2 DEF OnlyVerifiedDelivered
    <3>3. \A k \in 1 .. tail + 1 : Good(taken'[k].entry, taken'[k].via, k)
      <4> HIDE DEF Good
      <4>. QED  BY <2>4, <2>5, <3>1, <3>2
    <3>. QED  BY <2>3, <2>4, <3>3 DEF OnlyVerifiedDelivered
  <2>. QED  BY <2>6, <2>7
<1>. QED  BY <1>1, <1>2, <1>3, HistoryStep

(* What pop delivered is what was pushed, in order, and verified.          *)
LEMMA Delivery == Spec => [](ExactlyOnceInOrder /\ OnlyVerifiedDelivered)
<1>1. Init => ExactlyOnceInOrder /\ OnlyVerifiedDelivered
  BY DEF Init, ExactlyOnceInOrder, OnlyVerifiedDelivered
<1>2. /\ TypeOK /\ RingInv /\ [Next]_vars
      /\ ExactlyOnceInOrder /\ OnlyVerifiedDelivered
      => (ExactlyOnceInOrder /\ OnlyVerifiedDelivered)'
  BY DeliveryStep
<1>. QED  BY <1>1, <1>2, TypedRing, PTL DEF Spec

(***************************************************************************)
(* Consumers receive every proposal exactly once, in the order of the      *)
(* pushes, with the payload its proposer wrote.                            *)
(***************************************************************************)
THEOREM DeliveredExactlyOnceInOrder == Spec => []ExactlyOnceInOrder
BY Delivery, PTL

(***************************************************************************)
(* pop returns committed proposals only; a committed proposal was sealed   *)
(* by its own push or approved by the critic, a rejected one carries its   *)
(* verifier and the reason the critic has for its own payload.             *)
(***************************************************************************)
THEOREM DeliveredOnlyVerified == Spec => []OnlyVerifiedDelivered
BY Delivery, PTL

-----------------------------------------------------------------------------
(***************************************************************************)
(* A step of a live handle inside the gate is a step of its owner.         *)
(***************************************************************************)
LEMMA StepByOwner ==
  ASSUME TypeOK, GateExclusion, owner \in dead, NEW h \in Handles
  PROVE  /\ \A step \in Inside : ~At(h, step)
         /\ ~LockSlots(h)
BY RingAssumption DEF TypeOK, GateExclusion, At, LockSlots

(* No step of a ring whose gate has a dead owner changes the segment.      *)
LEMMA ClosedStep ==
  ASSUME TypeOK, RingInv, [Next]_vars
  PROVE  StaysClosed
<1> SUFFICES ASSUME owner \in dead
             PROVE  UNCHANGED <<shared, history>> /\ owner \in dead'
  BY DEF StaysClosed, shared
<1>1. CASE UNCHANGED vars
  BY <1>1 DEF vars, shared, local, history
<1>2. ASSUME NEW h \in Handles, Push(h) \/ Pop(h) PROVE FALSE
  BY <1>2, StepByOwner DEF RingInv, Inside, Push, Pop, PushLock, PushCheck, PushWrite, PushSeal,
       PushHead, PopLock, PopTake, PopNone, PopTail
<1>3. ASSUME NEW h \in Handles, Verify(h) PROVE FALSE
  BY <1>3, StepByOwner DEF RingInv, Inside, Verify, ClaimLock, ClaimCheck, ClaimRecord, PeekLock,
       Peek, ForeignFinishLock, FinishLock, FinishCheck, FinishReason, FinishState
<1>4. ASSUME NEW h \in Handles, Unlock(h) PROVE FALSE
  BY <1>4, StepByOwner DEF RingInv, Inside, Unlock
<1>5. ASSUME NEW h \in Handles, GiveUp(h) \/ Crash(h) \/ Attach(h)
      PROVE  UNCHANGED <<shared, history>> /\ owner \in dead'
  BY <1>5 DEF GiveUp, Crash, Attach
<1>. QED  BY <1>1, <1>2, <1>3, <1>4, <1>5 DEF Next

(***************************************************************************)
(* A process that dies inside the gate closes the ring for ever: no other  *)
(* process reads or writes the segment again.                              *)
(***************************************************************************)
THEOREM DeadOwnerFailsClosed == Spec => FailsClosed
<1>1. TypeOK /\ RingInv /\ [Next]_vars => [StaysClosed]_vars
  BY ClosedStep
<1>. QED  BY <1>1, TypedRing, PTL DEF Spec, FailsClosed

-----------------------------------------------------------------------------
(***************************************************************************)
(* A write of one field of one slot, along an arrow of the lifecycle.      *)
(***************************************************************************)
LEMMA LifecycleWrite ==
  ASSUME TypeOK, NEW j \in Idx,
         \A i \in Idx \ {j} : slot'[i] = slot[i],
         \/ slot[j].state \notin {"committed", "aborted"}
         \/ \A f \in {"seq", "item", "by", "reason"} : slot'[j][f] = slot[j][f],
         \/ slot'[j].state = slot[j].state
         \/ <<slot[j].state, slot'[j].state>> \in Arrows
  PROVE  \A i \in Idx : SlotLifecycle(i)
<1>1. SlotLifecycle(j)
  BY DEF SlotLifecycle
<1>2. \A i \in Idx \ {j} : SlotLifecycle(i)
  BY DEF SlotLifecycle
<1>. QED  BY <1>1, <1>2

(* Every step moves every slot along the lifecycle, or not at all.         *)
LEMMA LifecycleStep ==
  ASSUME TypeOK, RingInv, [Next]_vars
  PROVE  \A i \in Idx : SlotLifecycle(i)
<1>1. CASE UNCHANGED slot
  BY <1>1 DEF SlotLifecycle
<1>2. ASSUME NEW h \in Handles, (PushCheck(h) /\ ~IsFull) \/ PushWrite(h) \/ PushSeal(h)
      PROVE  \A i \in Idx : SlotLifecycle(i)
  <2> DEFINE j == SlotOf(head)
  <2>1. pc[h] \in {"push_write", "push_seal"} \/ (pc[h] = "push_check" /\ ~IsFull)
    BY <1>2 DEF PushCheck, PushWrite, PushSeal, At
  <2>2. j \in Idx /\ owner = h /\ owner # NoHandle
    BY <2>1, PushSlot DEF Writing
  <2>3. slot[j] \in Slot /\ slot \in [Idx -> Slot]
    BY <2>2 DEF TypeOK
  <2>4. slot[j].state = IF pc[h] = "push_check" THEN "free" ELSE "tentative"
    <3>1. CASE pc[h] = "push_check"
      BY <2>1, <3>1, PushSlot DEF Writing
    <3>2. CASE pc[h] # "push_check"
      BY <2>1, <2>2, <3>2 DEF RingInv, Window, OwnerAt
    <3>. QED  BY <3>1, <3>2
  <2>5. /\ \A i \in Idx \ {j} : slot'[i] = slot[i]
        /\ slot'[j].state \in IF pc[h] = "push_check" THEN {"tentative"}
                              ELSE {"tentative", "committed"}
    <3>1. CASE PushCheck(h) /\ ~IsFull
      <4>1. slot' = [slot EXCEPT ![j].state = "tentative"]
        BY <3>1 DEF PushCheck
      <4>. QED  BY <2>2, <2>3, <4>1 DEF Slot
    <3>2. CASE PushWrite(h)
      <4>1. PICK p \in Payloads : slot' = [slot EXCEPT ![j] = Written(slot[j], p)]
        BY <3>2 DEF PushWrite
      <4>2. pc[h] = "push_write" /\ slot'[j] = Written(slot[j], p)
        BY <2>2, <2>3, <3>2, <4>1 DEF PushWrite, At
      <4>3. slot'[j].state = "tentative"
        BY <2>4, <4>2 DEF Written
      <4>. QED  BY <2>2, <2>3, <4>1, <4>2, <4>3
    <3>3. CASE PushSeal(h)
      <4>1. PICK st \in {"tentative", "committed"} : slot' = [slot EXCEPT ![j].state = st]
        BY <3>3 DEF PushSeal
      <4>2. pc[h] = "push_seal"
        BY <3>3 DEF PushSeal, At
      <4>. QED  BY <2>2, <2>3, <4>1, <4>2 DEF Slot
    <3>. QED  BY <1>2, <3>1, <3>2, <3>3
  <2>6. \/ slot'[j].state = slot[j].state
        \/ <<slot[j].state, slot'[j].state>> \in Arrows
    BY <2>4, <2>5 DEF Arrows
  <2>7. slot[j].state \notin {"committed", "aborted"}
    BY <2>4
  <2> HIDE DEF j
  <2>. QED  BY <2>2, <2>5, <2>6, <2>7, LifecycleWrite
<1>3. ASSUME NEW h \in Handles,
             \/ ClaimCheck(h) /\ slot[at[h]].state = "tentative"
             \/ ClaimRecord(h) \/ FinishReason(h) \/ FinishState(h)
      PROVE  \A i \in Idx : SlotLifecycle(i)
  <2> DEFINE j == at[h]
  <2>1. j \in Idx /\ slot[j] \in Slot /\ slot \in [Idx -> Slot]
    BY DEF TypeOK
  <2>2. /\ \A i \in Idx \ {j} : slot'[i] = slot[i]
        /\ \/ slot[j].state = "tentative" /\ slot'[j].state = "reflecting"
           \/ slot[j].state = "reflecting" /\ slot'[j].state = "reflecting"
           \/ slot[j].state = "reflecting" /\ slot'[j].state \in {"committed", "aborted"}
    <3>1. CASE ClaimCheck(h) /\ slot[j].state = "tentative"
      BY <2>1, <3>1 DEF ClaimCheck, Slot
    <3>2. CASE ClaimRecord(h)
      <4>1. slot[j].state = "reflecting"
        BY <3>2 DEF ClaimRecord, At, RingInv, CallsHoldClaims, CallHolds
      <4>. QED  BY <2>1, <3>2, <4>1 DEF ClaimRecord, Slot
    <3>3. CASE FinishReason(h)
      <4>1. slot[j].state = "reflecting"
        BY <3>3, JudgingSlot DEF FinishReason, At
      <4>. QED  BY <2>1, <3>3, <4>1 DEF FinishReason, Slot
    <3>4. CASE FinishState(h)
      <4>1. slot[j].state = "reflecting"
        BY <3>4, JudgingSlot DEF FinishState, At
      <4>2. slot' = [slot EXCEPT ![j].state = Verdict(Audit(seen[h]))]
        BY <3>4 DEF FinishState
      <4>. QED  BY <2>1, <4>1, <4>2, VerdictType DEF Slot
    <3>. QED  BY <1>3, <3>1, <3>2, <3>3, <3>4
  <2>3. \/ slot'[j].state = slot[j].state
        \/ <<slot[j].state, slot'[j].state>> \in Arrows
    BY <2>2 DEF Arrows
  <2>4. slot[j].state \notin {"committed", "aborted"}
    BY <2>2
  <2> HIDE DEF j
  <2>. QED  BY <2>1, <2>2, <2>3, <2>4, LifecycleWrite
<1>4. ASSUME NEW h \in Handles, NEW via \in {"pop", "pop_any"}, PopTake(h, via)
      PROVE  \A i \in Idx : SlotLifecycle(i)
  <2> DEFINE j == SlotOf(tail)
  <2>1. j \in Idx /\ slot[j] \in Slot /\ slot[j].state \notin {"reflecting", "free"}
    BY <1>4, TakenSlot
  <2>2. slot' = [slot EXCEPT ![j].state = "free"] /\ slot \in [Idx -> Slot]
    BY <1>4 DEF PopTake, TypeOK
  <2>3. /\ \A i \in Idx \ {j} : slot'[i] = slot[i]
        /\ slot'[j].state = "free"
        /\ slot'[j].seq = slot[j].seq /\ slot'[j].item = slot[j].item
        /\ slot'[j].by = slot[j].by /\ slot'[j].reason = slot[j].reason
    BY <2>1, <2>2 DEF Slot
  <2>4. \A f \in {"seq", "item", "by", "reason"} : slot'[j][f] = slot[j][f]
    BY <2>3
  <2>5. <<slot[j].state, slot'[j].state>> \in Arrows
    BY <2>1, <2>3 DEF Slot, SwarmState, Arrows
  <2> HIDE DEF j
  <2>. QED  BY <2>1, <2>3, <2>4, <2>5, LifecycleWrite
<1>5. \/ UNCHANGED slot
      \/ \E h \in Handles :
           \/ (PushCheck(h) /\ ~IsFull) \/ PushWrite(h) \/ PushSeal(h)
           \/ ClaimCheck(h) /\ slot[at[h]].state = "tentative"
           \/ ClaimRecord(h) \/ FinishReason(h) \/ FinishState(h)
           \/ \E via \in {"pop", "pop_any"} : PopTake(h, via)
  <2>1. CASE UNCHANGED vars
    BY <2>1 DEF vars, shared
  <2>2. ASSUME NEW h \in Handles, Push(h)
        PROVE  UNCHANGED slot \/ (PushCheck(h) /\ ~IsFull) \/ PushWrite(h) \/ PushSeal(h)
    BY <2>2 DEF Push, PushLock, PushCheck, PushHead
  <2>3. ASSUME NEW h \in Handles, Verify(h)
        PROVE  \/ UNCHANGED slot
               \/ ClaimCheck(h) /\ slot[at[h]].state = "tentative"
               \/ ClaimRecord(h) \/ FinishReason(h) \/ FinishState(h)
    BY <2>3 DEF Verify, ClaimLock, ClaimCheck, PeekLock, Peek, ForeignFinishLock,
         FinishLock, FinishCheck, shared
  <2>4. ASSUME NEW h \in Handles, Pop(h)
        PROVE  UNCHANGED slot \/ \E via \in {"pop", "pop_any"} : PopTake(h, via)
    BY <2>4 DEF Pop, PopLock, PopNone, PopTail, shared
  <2>5. ASSUME NEW h \in Handles, Unlock(h) \/ GiveUp(h) \/ Crash(h) \/ Attach(h)
        PROVE  UNCHANGED slot
    BY <2>5 DEF Unlock, GiveUp, Crash, Attach, shared
  <2>. QED  BY <2>1, <2>2, <2>3, <2>4, <2>5 DEF Next
<1>. QED  BY <1>1, <1>2, <1>3, <1>4, <1>5

(***************************************************************************)
(* One generation of a slot moves along the lifecycle only, and what was   *)
(* decided, written and signed stays until a pop frees it.                 *)
(***************************************************************************)
THEOREM SlotsFollowLifecycle == Spec => Lifecycle
<1>1. TypeOK /\ RingInv /\ [Next]_vars => [\A i \in Idx : SlotLifecycle(i)]_vars
  BY LifecycleStep
<1>. QED  BY <1>1, TypedRing, PTL DEF Spec, Lifecycle

-----------------------------------------------------------------------------
(***************************************************************************)
(* The ring implements the queue.  Functions on 1 .. n as sequences.       *)
(***************************************************************************)
LEMMA SeqOf ==
  ASSUME NEW S, NEW n \in Nat, NEW s \in [1 .. n -> S]
  PROVE  s \in Seq(S) /\ Len(s) = n /\ DOMAIN s = 1 .. n
<1>1. s \in Seq(S)
  BY SeqDef
<1>. QED  BY <1>1

(* One more entry.                                                         *)
LEMMA AppendOf ==
  ASSUME NEW S, NEW n \in Nat, NEW s \in [1 .. n -> S], NEW t \in [1 .. n + 1 -> S],
         \A k \in 1 .. n : t[k] = s[k]
  PROVE  t = Append(s, t[n + 1])
<1>1. s \in Seq(S) /\ Len(s) = n /\ t \in Seq(S) /\ Len(t) = n + 1
  BY SeqOf
<1>2. t[n + 1] \in S
  OBVIOUS
<1>. DEFINE u == Append(s, t[n + 1])
<1>3. u \in Seq(S) /\ Len(u) = n + 1 /\ u[n + 1] = t[n + 1] /\ \A k \in 1 .. n : u[k] = s[k]
  BY <1>1, <1>2
<1>4. \A k \in 1 .. n + 1 : t[k] = u[k]
  BY <1>3
<1>. HIDE DEF u
<1>. QED  BY <1>1, <1>3, <1>4, SeqEqual

(* What a sequence with one more entry holds.                              *)
LEMMA AppendFacts ==
  ASSUME NEW S, NEW s \in Seq(S), NEW e \in S
  PROVE  /\ Len(s) \in Nat /\ Len(Append(s, e)) = Len(s) + 1
         /\ Append(s, e)[Len(s) + 1] = e
         /\ \A k \in 1 .. Len(s) : Append(s, e)[k] = s[k] /\ s[k] \in S
OBVIOUS

(* One entry less.                                                         *)
LEMMA TailOf ==
  ASSUME NEW S, NEW n \in Nat, NEW s \in [1 .. n + 1 -> S], NEW t \in [1 .. n -> S],
         \A k \in 1 .. n : t[k] = s[k + 1]
  PROVE  t = Tail(s) /\ Head(s) = s[1] /\ s # << >>
<1>1. s \in Seq(S) /\ Len(s) = n + 1 /\ t \in Seq(S) /\ Len(t) = n
  BY SeqOf
<1>2. s # << >> /\ Head(s) = s[1] /\ Tail(s) \in Seq(S) /\ Len(Tail(s)) = n
      /\ \A k \in 1 .. n : Tail(s)[k] = s[k + 1]
  BY <1>1
<1>. QED  BY <1>1, <1>2, SeqEqual

(***************************************************************************)
(* The queue that the ring stands for.                                     *)
(***************************************************************************)
Entry == [item : Payloads \cup {UnwrittenPayload}, by : Handles \cup {NoHandle},
          state : SwarmState, reason : Reason]

QueueShape ==
  /\ head \in Nat /\ FirstInQueue \in Nat /\ tail <= FirstInQueue /\ FirstInQueue <= head
  /\ \A n \in FirstInQueue .. head - 1 :
       n \in tail .. head - 1 /\ SlotOf(n) \in Idx /\ slot[SlotOf(n)] \in Slot
  /\ AbstractQueue \in [1 .. head - FirstInQueue -> Entry]
  /\ \A n \in FirstInQueue .. head - 1 :
       AbstractQueue[n - FirstInQueue + 1] = AbstractEntry(slot[SlotOf(n)])

(* An entry of the queue is typed.                                         *)
LEMMA EntryType ==
  ASSUME NEW s \in Slot
  PROVE  /\ AbstractEntry(s) \in Entry
         /\ AbstractEntry(s).item = s.item /\ AbstractEntry(s).by = s.by
         /\ AbstractEntry(s).state =
              (IF s.state = "reflecting" /\ s.by = NoHandle THEN "tentative" ELSE s.state)
         /\ AbstractEntry(s).reason = (IF s.state = "aborted" THEN s.reason ELSE "none")
BY DEF AbstractEntry, Entry, Slot, SwarmState, Reason

(* The entries of the queue are those of the window's slots.               *)
LEMMA ShapeOfQueue == TypeOK /\ RingInv => QueueShape
<1>. SUFFICES ASSUME TypeOK, RingInv PROVE QueueShape
  OBVIOUS
<1>1. head \in Nat /\ tail \in Nat /\ tail <= head
  BY WindowDistinct DEF RingInv, Window
<1>2. FirstInQueue \in Nat /\ tail <= FirstInQueue /\ FirstInQueue <= head
  BY <1>1 DEF FirstInQueue, RingInv, Window
<1>3. ASSUME NEW n \in FirstInQueue .. head - 1
      PROVE  n \in tail .. head - 1 /\ SlotOf(n) \in Idx /\ slot[SlotOf(n)] \in Slot
  <2>1. n \in tail .. head - 1 /\ n \in Nat
    BY <1>1, <1>2
  <2>. QED  BY <2>1, SlotOfType DEF TypeOK
<1>4. \A k \in 1 .. head - FirstInQueue :
        AbstractEntry(slot[SlotOf(FirstInQueue + k - 1)]) \in Entry
  <2>1. \A k \in 1 .. head - FirstInQueue : FirstInQueue + k - 1 \in FirstInQueue .. head - 1
    BY <1>1, <1>2
  <2>. QED  BY <1>3, <2>1, EntryType
<1>5. AbstractQueue \in [1 .. head - FirstInQueue -> Entry]
  BY <1>4 DEF AbstractQueue
<1>6. ASSUME NEW n \in FirstInQueue .. head - 1
      PROVE  AbstractQueue[n - FirstInQueue + 1] = AbstractEntry(slot[SlotOf(n)])
  <2>1. n - FirstInQueue + 1 \in 1 .. head - FirstInQueue
        /\ FirstInQueue + (n - FirstInQueue + 1) - 1 = n
    BY <1>1, <1>2
  <2>. QED  BY <2>1 DEF AbstractQueue
<1>. QED  BY <1>1, <1>2, <1>3, <1>5, <1>6 DEF QueueShape

(* A slot that is written while it stands for the same entry, or for none. *)
LEMMA SameQueue ==
  ASSUME QueueShape, QueueShape', head' = head, FirstInQueue' = FirstInQueue, taken' = taken,
         \A n \in FirstInQueue .. head - 1 :
           AbstractEntry(slot'[SlotOf(n)]) = AbstractEntry(slot[SlotOf(n)])
  PROVE  UNCHANGED Queue!queueVars
<1>1. \A k \in 1 .. head - FirstInQueue :
        AbstractEntry(slot'[SlotOf(FirstInQueue + k - 1)]) = AbstractEntry(slot[SlotOf(FirstInQueue + k - 1)])
  <2>1. \A k \in 1 .. head - FirstInQueue : FirstInQueue + k - 1 \in FirstInQueue .. head - 1
    BY DEF QueueShape
  <2>. QED  BY <2>1
<1>2. AbstractQueue' = AbstractQueue
  BY <1>1, Zenon DEF AbstractQueue
<1>3. AbstractTaken' = AbstractTaken
  BY DEF AbstractTaken
<1>. QED  BY <1>2, <1>3 DEF Queue!queueVars

(* One entry of the queue changes.                                         *)
LEMMA ChangedQueue ==
  ASSUME QueueShape, QueueShape', head' = head, FirstInQueue' = FirstInQueue,
         NEW n \in FirstInQueue .. head - 1,
         \A o \in (FirstInQueue .. head - 1) \ {n} :
           AbstractEntry(slot'[SlotOf(o)]) = AbstractEntry(slot[SlotOf(o)])
  PROVE  LET k == n - FirstInQueue + 1 IN
         /\ k \in DOMAIN AbstractQueue
         /\ AbstractQueue[k] = AbstractEntry(slot[SlotOf(n)])
         /\ AbstractQueue' = [AbstractQueue EXCEPT ![k] = AbstractEntry(slot'[SlotOf(n)])]
<1>. DEFINE m == head - FirstInQueue
            Q == AbstractQueue
            R == AbstractQueue'
            k == n - FirstInQueue + 1
<1>1. Q \in [1 .. m -> Entry] /\ R \in [1 .. m -> Entry] /\ k \in 1 .. m
  BY DEF QueueShape
<1>2. Q[k] = AbstractEntry(slot[SlotOf(n)]) /\ R[k] = AbstractEntry(slot'[SlotOf(n)])
  BY DEF QueueShape
<1>3. ASSUME NEW j \in 1 .. m, j # k PROVE R[j] = Q[j]
  <2>. DEFINE o == FirstInQueue + j - 1
  <2>1. o \in (FirstInQueue .. head - 1) \ {n} /\ o - FirstInQueue + 1 = j
    BY <1>3 DEF QueueShape
  <2>2. Q[o - FirstInQueue + 1] = AbstractEntry(slot[SlotOf(o)])
    BY <2>1 DEF QueueShape
  <2>3. R[o - FirstInQueue + 1] = AbstractEntry(slot'[SlotOf(o)])
    BY <2>1 DEF QueueShape
  <2>. QED  BY <2>1, <2>2, <2>3
<1>. HIDE DEF Q, R, k, m
<1>4. R = [Q EXCEPT ![k] = AbstractEntry(slot'[SlotOf(n)])]
  BY <1>1, <1>2, <1>3
<1>. QED  BY <1>1, <1>2, <1>4 DEF Q, R, k

(***************************************************************************)
(* The steps that neither write the segment nor move the owner of the gate *)
(* into, out of or along the steps the queue and ItemWritten speak of.     *)
(***************************************************************************)
Special == {"push_seal", "push_head", "pop_tail"}

Quiet ==
  /\ UNCHANGED <<head, tail, slot, taken>>
  /\ \/ owner' = owner /\ (owner # NoHandle => pc'[owner] = pc[owner])
     \/ ~OwnerAt(Special) /\ ~OwnerAt(Special)'

(* Every step is quiet, or one that writes a slot, head or tail.           *)
LEMMA StepKinds ==
  ASSUME TypeOK, RingInv, [Next]_vars
  PROVE  \/ Quiet
         \/ \E h \in Handles :
              \/ (PushCheck(h) /\ ~IsFull) \/ PushWrite(h) \/ PushSeal(h) \/ PushHead(h)
              \/ (ClaimCheck(h) /\ slot[at[h]].state = "tentative") \/ ClaimRecord(h)
              \/ FinishReason(h) \/ FinishState(h)
              \/ (\E via \in {"pop", "pop_any"} : PopTake(h, via)) \/ PopTail(h)
<1>1. CASE UNCHANGED vars
  BY <1>1 DEF vars, shared, local, history, Quiet
<1>2. ASSUME NEW h \in Handles, UNCHANGED <<head, tail, slot, taken>>,
             owner \in {h, NoHandle}, owner' \in {h, NoHandle},
             pc[h] \notin Special \/ owner = NoHandle, pc'[h] \notin Special
      PROVE  Quiet
  BY <1>2 DEF Quiet, OwnerAt
<1>3. ASSUME NEW h \in Handles, Push(h)
      PROVE  Quiet \/ (PushCheck(h) /\ ~IsFull) \/ PushWrite(h) \/ PushSeal(h) \/ PushHead(h)
  <2>1. CASE PushLock(h)
    BY <1>2, <2>1, GotoKeeps DEF PushLock, LockSlots, history, Special
  <2>2. CASE PushCheck(h) /\ IsFull
    <3>1. owner = h
      BY <2>2, SoleInside DEF PushCheck, At, Inside
    <3>. QED  BY <1>2, <2>2, <3>1, GotoKeeps DEF PushCheck, At, history, Special
  <2>. QED  BY <1>3, <2>1, <2>2 DEF Push
<1>4. ASSUME NEW h \in Handles, Verify(h)
      PROVE  \/ Quiet
             \/ (ClaimCheck(h) /\ slot[at[h]].state = "tentative") \/ ClaimRecord(h)
             \/ FinishReason(h) \/ FinishState(h)
  <2>1. CASE \/ PeekLock(h) \/ FinishLock(h) \/ \E i \in Idx : ClaimLock(h, i)
             \/ \E i \in Idx, p \in Payloads : ForeignFinishLock(h, i, p)
    BY <1>2, <2>1, GotoKeeps
       DEF PeekLock, FinishLock, ClaimLock, ForeignFinishLock, LockSlots, history, Special
  <2>2. CASE (ClaimCheck(h) /\ slot[at[h]].state # "tentative") \/ Peek(h) \/ FinishCheck(h)
    <3>1. owner = h
      BY <2>2, SoleInside DEF ClaimCheck, Peek, FinishCheck, At, Inside
    <3>2. UNCHANGED <<owner, head, tail, slot, taken>> /\ pc[h] \notin Special
      BY <2>2 DEF ClaimCheck, Peek, FinishCheck, At, shared, history, Special
    <3>3. pc'[h] \notin Special
      BY <2>2, GotoKeeps DEF ClaimCheck, Peek, FinishCheck, Special
    <3>. QED  BY <1>2, <3>1, <3>2, <3>3
  <2>. QED  BY <1>4, <2>1, <2>2 DEF Verify
<1>5. ASSUME NEW h \in Handles, Pop(h)
      PROVE  Quiet \/ (\E via \in {"pop", "pop_any"} : PopTake(h, via)) \/ PopTail(h)
  <2>1. CASE PopLock(h)
    BY <1>2, <2>1, GotoKeeps DEF PopLock, LockSlots, history, Special
  <2>2. CASE \E via \in {"pop", "pop_any"} : PopNone(h, via)
    <3>1. owner = h
      BY <2>2, SoleInside DEF PopNone, At, Inside
    <3>. QED  BY <1>2, <2>2, <3>1, GotoKeeps DEF PopNone, At, shared, history, Special
  <2>. QED  BY <1>5, <2>1, <2>2 DEF Pop
<1>6. ASSUME NEW h \in Handles, Unlock(h)
      PROVE  Quiet
  <2>1. owner = h /\ pc[h] \notin Special
    BY <1>6, SoleInside DEF Unlock, At, Inside, Special
  <2>2. pc'[h] \notin Special
    BY <1>6, GotoKeeps DEF Unlock, Return, Special
  <2>. QED  BY <1>2, <1>6, <2>1, <2>2 DEF Unlock, history
<1>7. ASSUME NEW h \in Handles, GiveUp(h) \/ Crash(h) \/ Attach(h)
      PROVE  Quiet
  <2>1. UNCHANGED <<owner, head, tail, slot, taken>>
    BY <1>7 DEF GiveUp, Crash, Attach, shared, history
  <2>2. CASE Crash(h)
    BY <2>1, <2>2 DEF Crash, Quiet
  <2>3. CASE GiveUp(h) \/ Attach(h)
    <3>1. owner # h
      BY <2>3 DEF GiveUp, Attach, At, RingInv, GateExclusion, Inside
    <3>2. \A k \in Handles \ {h} : pc'[k] = pc[k]
      BY <2>3, GotoKeeps DEF GiveUp, Attach, Return
    <3>. QED  BY <2>1, <3>1, <3>2 DEF Quiet, TypeOK
  <2>. QED  BY <1>7, <2>2, <2>3
<1>. QED  BY <1>1, <1>3, <1>4, <1>5, <1>6, <1>7 DEF Next

(***************************************************************************)
(* What a push has written and not yet published is a payload.             *)
(***************************************************************************)
ItemWritten == OwnerAt({"push_seal", "push_head"}) => slot[SlotOf(head)].item \in Payloads

(* It is, at every step.                                                   *)
LEMMA ItemWrittenStep ==
  ASSUME TypeOK, RingInv, ItemWritten, [Next]_vars PROVE ItemWritten'
<1>. DEFINE Late == {"push_seal", "push_head"}
<1>1. ASSUME NEW h \in Handles, PushWrite(h) PROVE ItemWritten'
  <2>1. SlotOf(head) \in Idx
    BY <1>1, PushSlot DEF PushWrite, At, Writing
  <2>2. PICK p \in Payloads : slot' = [slot EXCEPT ![SlotOf(head)] = Written(@, p)]
    BY <1>1 DEF PushWrite
  <2>3. head' = head /\ slot'[SlotOf(head)].item = p
    BY <1>1, <2>1, <2>2 DEF PushWrite, Written, TypeOK
  <2>. QED  BY <2>3 DEF ItemWritten
<1>2. ASSUME NEW h \in Handles, PushSeal(h) PROVE ItemWritten'
  <2>1. SlotOf(head) \in Idx /\ slot[SlotOf(head)] \in Slot /\ owner = h /\ owner # NoHandle
    BY <1>2, PushSlot DEF PushSeal, At, Writing, TypeOK
  <2>2. slot[SlotOf(head)].item \in Payloads
    BY <1>2, <2>1 DEF ItemWritten, OwnerAt, PushSeal, At
  <2>3. PICK state \in {"tentative", "committed"} : slot' = [slot EXCEPT ![SlotOf(head)].state = state]
    BY <1>2 DEF PushSeal
  <2>4. head' = head /\ slot'[SlotOf(head)].item = slot[SlotOf(head)].item
    BY <1>2, <2>1, <2>3 DEF PushSeal, TypeOK, Slot
  <2>. QED  BY <2>2, <2>4 DEF ItemWritten
<1>3. ASSUME NEW h \in Handles, owner = h, owner' = owner, pc'[h] \notin Late
      PROVE  ItemWritten'
  BY <1>3 DEF ItemWritten, OwnerAt
<1>4. CASE Quiet
  BY <1>4 DEF Quiet, Special, ItemWritten, OwnerAt
<1>5. ASSUME NEW h \in Handles,
             \/ (PushCheck(h) /\ ~IsFull) \/ PushHead(h)
             \/ (ClaimCheck(h) /\ slot[at[h]].state = "tentative") \/ ClaimRecord(h)
             \/ FinishReason(h) \/ FinishState(h)
             \/ (\E via \in {"pop", "pop_any"} : PopTake(h, via)) \/ PopTail(h)
      PROVE  ItemWritten'
  <2>1. owner = h
    BY <1>5, SoleInside DEF PushCheck, PushHead, ClaimCheck, ClaimRecord, FinishReason,
         FinishState, PopTake, PopTail, At, Inside
  <2>2. owner' = owner
    BY <1>5 DEF PushCheck, PushHead, ClaimCheck, ClaimRecord, FinishReason,
         FinishState, PopTake, PopTail
  <2>3. pc'[h] \notin Late
    BY <1>5, GotoKeeps DEF PushCheck, PushHead, ClaimCheck, ClaimRecord, FinishReason,
         FinishState, PopTake, PopTail
  <2>. QED  BY <1>3, <2>1, <2>2, <2>3
<1>. QED  BY <1>1, <1>2, <1>4, <1>5, StepKinds

-----------------------------------------------------------------------------
(***************************************************************************)
(* Every step of the ring is a step of the queue, or none.                 *)
(***************************************************************************)
Shapes == TypeOK /\ RingInv /\ QueueShape /\ QueueShape'

(* Outside the two halves of a pop the front of the queue is at tail.      *)
LEMMA FrontAtTail ==
  ASSUME NEW h \in Handles, owner = h, owner' = owner, tail' = tail,
         pc[h] # "pop_tail", pc'[h] # "pop_tail"
  PROVE  FirstInQueue = tail /\ FirstInQueue' = tail
BY DEF FirstInQueue, OwnerAt

(* A quiet step is none of the queue.                                      *)
LEMMA QuietRefines ==
  ASSUME Shapes, Quiet
  PROVE  UNCHANGED Queue!queueVars
<1>1. FirstInQueue' = FirstInQueue
  BY DEF FirstInQueue, Quiet, OwnerAt, Special
<1>2. UNCHANGED <<head, slot, taken>>
  BY DEF Quiet
<1>. QED  BY <1>1, <1>2, SameQueue DEF Shapes

(* A push that has not moved head is none either.                          *)
LEMMA PushRefines ==
  ASSUME Shapes, NEW h \in Handles,
         (PushCheck(h) /\ ~IsFull) \/ PushWrite(h) \/ PushSeal(h)
  PROVE  UNCHANGED Queue!queueVars
<1>. DEFINE j == SlotOf(head)
<1>1. /\ pc[h] \in {"push_check", "push_write", "push_seal"}
      /\ pc[h] = "push_check" => ~IsFull
      /\ UNCHANGED <<owner, head, tail, taken>>
  BY DEF PushCheck, PushWrite, PushSeal, At, history
<1>2. pc'[h] # "pop_tail"
  BY GotoKeeps DEF PushCheck, PushWrite, PushSeal, Shapes
<1>3. owner = h /\ \A n \in tail .. head - 1 : SlotOf(n) \in Idx \ {j}
  BY <1>1, PushSlot DEF Shapes, Writing
<1>4. \A i \in Idx \ {j} : slot'[i] = slot[i]
  BY DEF PushCheck, PushWrite, PushSeal, Shapes, TypeOK
<1>5. FirstInQueue = tail /\ FirstInQueue' = tail
  BY <1>1, <1>2, <1>3, FrontAtTail
<1>. QED  BY <1>1, <1>3, <1>4, <1>5, SameQueue DEF Shapes

(* A slot that a verifier works on is in the queue, once.                  *)
LEMMA WorkedEntry ==
  ASSUME TypeOK, RingInv, NEW h \in Handles, owner = h, pc[h] \notin Writing,
         NEW j \in Idx, slot[j].state # "free"
  PROVE  \E n \in tail .. head - 1 :
           SlotOf(n) = j /\ \A o \in (tail .. head - 1) \ {n} : SlotOf(o) \in Idx \ {j}
<1>1. InRing(j)
  BY DEF RingInv, Window, OwnerAt
<1>2. PICK n \in tail .. head - 1 : SlotOf(n) = j
  BY <1>1 DEF InRing
<1>3. ASSUME NEW o \in (tail .. head - 1) \ {n} PROVE SlotOf(o) \in Idx \ {j}
  <2>1. o \in tail .. head
    BY WindowDistinct DEF RingInv
  <2>. QED  BY <1>2, <2>1, WindowDistinct DEF RingInv
<1>. QED  BY <1>2, <1>3

(* Half a claim and half a verdict are none either.                        *)
LEMMA VerifyRefines ==
  ASSUME Shapes, NEW h \in Handles,
         (ClaimCheck(h) /\ slot[at[h]].state = "tentative") \/ FinishReason(h)
  PROVE  UNCHANGED Queue!queueVars
<1>. DEFINE j == at[h]
<1>1. /\ pc[h] \in {"claim_check", "finish_reason"}
      /\ UNCHANGED <<owner, head, tail, taken>>
  BY DEF ClaimCheck, FinishReason, At, history
<1>2. pc'[h] # "pop_tail"
  BY GotoKeeps DEF ClaimCheck, FinishReason, Shapes
<1>3. owner = h /\ owner # NoHandle /\ j \in Idx /\ slot[j] \in Slot /\ slot \in [Idx -> Slot]
  BY <1>1, SoleInside DEF Shapes, Inside, TypeOK
<1>4. \A i \in Idx \ {j} : slot'[i] = slot[i]
  BY <1>3 DEF ClaimCheck, FinishReason
<1>5. AbstractEntry(slot'[j]) = AbstractEntry(slot[j])
  <2>1. CASE ClaimCheck(h) /\ slot[j].state = "tentative"
    <3>1. slot[j].by = NoHandle
      BY <1>1, <1>3, <2>1 DEF Shapes, RingInv, SlotMeaning, SlotMeans, OwnerAt
    <3>2. slot'[j] = [slot[j] EXCEPT !.state = "reflecting"]
      BY <1>3, <2>1 DEF ClaimCheck
    <3>. QED  BY <1>3, <2>1, <3>1, <3>2 DEF AbstractEntry, Slot
  <2>2. CASE FinishReason(h)
    <3>1. slot[j].state = "reflecting"
      BY <2>2, JudgingSlot DEF Shapes, FinishReason, At
    <3>2. slot'[j] = [slot[j] EXCEPT !.reason = Audit(seen[h])]
      BY <1>3, <2>2 DEF FinishReason
    <3>. QED  BY <1>3, <3>1, <3>2 DEF AbstractEntry, Slot
  <2>. QED  BY <2>1, <2>2
<1>6. FirstInQueue = tail /\ FirstInQueue' = tail
  BY <1>1, <1>2, <1>3, FrontAtTail
<1>7. \A n \in tail .. head - 1 : SlotOf(n) \in Idx
  BY <1>6 DEF Shapes, QueueShape
<1>. QED  BY <1>1, <1>4, <1>5, <1>6, <1>7, SameQueue DEF Shapes

(* Moving tail past a slot already taken is none either.                   *)
LEMMA PopTailRefines ==
  ASSUME Shapes, NEW h \in Handles, PopTail(h)
  PROVE  UNCHANGED Queue!queueVars
<1>1. pc[h] = "pop_tail" /\ pc'[h] = "unlock_idle" /\ owner = h /\ owner # NoHandle
  BY GotoKeeps, SoleInside DEF Shapes, PopTail, At, Inside
<1>2. UNCHANGED <<owner, head, slot, taken>> /\ tail' = tail + 1
  BY DEF PopTail, history
<1>3. FirstInQueue = tail + 1 /\ FirstInQueue' = tail + 1
  BY <1>1, <1>2 DEF FirstInQueue, OwnerAt
<1>. QED  BY <1>2, <1>3, SameQueue DEF Shapes

(* Two fields of one entry change.                                         *)
LEMMA TwoFields ==
  ASSUME NEW A, NEW k \in DOMAIN A, NEW x, NEW y
  PROVE  /\ [A EXCEPT ![k].state = x, ![k].by = y]
              = [A EXCEPT ![k] = [A[k] EXCEPT !.state = x, !.by = y]]
         /\ [A EXCEPT ![k].state = x, ![k].reason = y]
              = [A EXCEPT ![k] = [A[k] EXCEPT !.state = x, !.reason = y]]
OBVIOUS

(* Moving head is the proposal.                                            *)
LEMMA PushHeadRefines ==
  ASSUME Shapes, ItemWritten, NEW h \in Handles, PushHead(h)
  PROVE  Queue!Next
<1>. DEFINE j == SlotOf(head)
            Q == AbstractQueue
            m == head - tail
<1>1. /\ pc[h] = "push_head" /\ pc'[h] = "unlock_idle"
      /\ head' = head + 1 /\ UNCHANGED <<owner, tail, slot, taken>>
  BY GotoKeeps DEF Shapes, PushHead, At
<1>2. /\ owner = h /\ owner # NoHandle /\ head \in Nat /\ tail \in Nat /\ tail <= head
      /\ head - tail < Capacity /\ j \in Idx /\ slot[j] \in Slot
  BY <1>1, PushSlot DEF Shapes, Writing, TypeOK, RingInv, Window
<1>3. /\ slot[j].state \in {"tentative", "committed"}
      /\ slot[j].by = NoHandle /\ slot[j].reason = "none" /\ slot[j].item \in Payloads
  BY <1>1, <1>2 DEF Shapes, RingInv, Window, OwnerAt, ItemWritten
<1>4. FirstInQueue = tail /\ FirstInQueue' = tail
  BY <1>1, <1>2, FrontAtTail
<1>5. m \in Nat /\ Q \in [1 .. m -> Entry] /\ Q' \in [1 .. m + 1 -> Entry]
  <2>1. Q' \in [1 .. head' - FirstInQueue' -> Entry]
    BY DEF Shapes, QueueShape
  <2>2. head' - FirstInQueue' = m + 1 /\ m \in Nat
    BY <1>1, <1>2, <1>4
  <2>. QED  BY <1>4, <2>1, <2>2 DEF Shapes, QueueShape
<1>6. \A k \in 1 .. m : Q'[k] = Q[k]
  <2>. SUFFICES ASSUME NEW k \in 1 .. m PROVE Q'[k] = Q[k]
    OBVIOUS
  <2>. DEFINE o == tail + k - 1
  <2>1. o \in tail .. head - 1 /\ o \in tail .. head' - 1 /\ o - tail + 1 = k
    BY <1>1, <1>2
  <2>2. Q[o - tail + 1] = AbstractEntry(slot[SlotOf(o)])
    BY <1>4, <2>1 DEF Shapes, QueueShape
  <2>3. Q'[o - tail + 1] = AbstractEntry(slot'[SlotOf(o)])
    BY <1>4, <2>1 DEF Shapes, QueueShape
  <2>. QED  BY <1>1, <2>1, <2>2, <2>3
<1>7. Q'[m + 1] = AbstractEntry(slot[j])
  <2>1. head \in tail .. head' - 1 /\ head - tail + 1 = m + 1
    BY <1>1, <1>2
  <2>2. Q'[head - tail + 1] = AbstractEntry(slot'[SlotOf(head)])
    BY <1>4, <2>1 DEF Shapes, QueueShape
  <2>. QED  BY <1>1, <2>1, <2>2
<1>. DEFINE auto == slot[j].state = "committed"
            e == [item |-> slot[j].item, by |-> NoHandle, reason |-> "none",
                  state |-> IF auto THEN "committed" ELSE "tentative"]
<1>8. AbstractEntry(slot[j]) = e
  BY <1>3 DEF AbstractEntry
<1>9. Len(Q) = m
  BY <1>5, SeqOf
<1>10. Q' = Append(Q, e)
  <2>. HIDE DEF Q, m, e, j
  <2>. QED  BY <1>5, <1>6, <1>7, <1>8, AppendOf
<1>11. UNCHANGED AbstractTaken
  BY <1>1 DEF AbstractTaken
<1>12. auto \in BOOLEAN /\ slot[j].item \in Payloads
  BY <1>3
<1>13. Queue!Propose(slot[j].item, auto)
  BY <1>2, <1>9, <1>10, <1>11 DEF Queue!Propose
<1>. QED  BY <1>12, <1>13 DEF Queue!Next

(* Signing a claim is the claim.                                           *)
LEMMA ClaimRefines ==
  ASSUME Shapes, NEW h \in Handles, ClaimRecord(h)
  PROVE  Queue!Next
<1>. DEFINE j == at[h]
<1>1. /\ pc[h] = "claim_record" /\ pc'[h] = "unlock_peek"
      /\ UNCHANGED <<owner, head, tail, taken>>
  BY GotoKeeps DEF Shapes, ClaimRecord, At, history
<1>2. owner = h /\ h # NoHandle /\ j \in Idx /\ slot[j] \in Slot /\ slot \in [Idx -> Slot]
  BY <1>1, SoleInside DEF Shapes, Inside, TypeOK
<1>3. slot[j].state = "reflecting" /\ slot[j].by = NoHandle
  BY <1>1 DEF Shapes, RingInv, CallsHoldClaims, CallHolds
<1>4. slot'[j] = [slot[j] EXCEPT !.by = h] /\ \A i \in Idx \ {j} : slot'[i] = slot[i]
  BY <1>2 DEF ClaimRecord
<1>5. FirstInQueue = tail /\ FirstInQueue' = tail
  BY <1>1, <1>2, FrontAtTail
<1>6. PICK n \in tail .. head - 1 :
        SlotOf(n) = j /\ \A o \in (tail .. head - 1) \ {n} : SlotOf(o) \in Idx \ {j}
  BY <1>1, <1>2, <1>3, WorkedEntry DEF Shapes, Writing
<1>. DEFINE k == n - tail + 1
            a == AbstractEntry(slot[j])
            b == AbstractEntry(slot'[j])
<1>7. /\ k \in DOMAIN AbstractQueue /\ AbstractQueue[k] = a
      /\ AbstractQueue' = [AbstractQueue EXCEPT ![k] = b]
  BY <1>1, <1>4, <1>5, <1>6, ChangedQueue DEF Shapes
<1>8. a.state = "tentative" /\ b = [a EXCEPT !.state = "reflecting", !.by = h]
  <2>1. a = [item |-> slot[j].item, by |-> NoHandle, state |-> "tentative", reason |-> "none"]
    BY <1>2, <1>3 DEF AbstractEntry, Slot
  <2>2. b = [item |-> slot[j].item, by |-> h, state |-> "reflecting", reason |-> "none"]
    BY <1>2, <1>3, <1>4 DEF AbstractEntry, Slot
  <2>3. [a EXCEPT !.state = "reflecting", !.by = h]
          = [item |-> slot[j].item, by |-> h, state |-> "reflecting", reason |-> "none"]
    <3>. DEFINE c == [item |-> slot[j].item, by |-> NoHandle, state |-> "reflecting", reason |-> "none"]
    <3>. HIDE DEF a
    <3>1. [a EXCEPT !.state = "reflecting"] = c
      BY <2>1
    <3>2. [c EXCEPT !.by = h]
            = [item |-> slot[j].item, by |-> h, state |-> "reflecting", reason |-> "none"]
      OBVIOUS
    <3>3. [a EXCEPT !.state = "reflecting", !.by = h] = [[a EXCEPT !.state = "reflecting"] EXCEPT !.by = h]
      OBVIOUS
    <3>. HIDE DEF c
    <3>. QED  BY <3>1, <3>2, <3>3
  <2>. QED  BY <2>1, <2>2, <2>3
<1>9. UNCHANGED AbstractTaken
  BY <1>1 DEF AbstractTaken
<1>10. AbstractQueue' = [AbstractQueue EXCEPT ![k].state = "reflecting", ![k].by = h]
  <2>1. [AbstractQueue EXCEPT ![k].state = "reflecting", ![k].by = h]
          = [AbstractQueue EXCEPT ![k] = [AbstractQueue[k] EXCEPT !.state = "reflecting", !.by = h]]
    BY <1>7, TwoFields
  <2>. HIDE DEF a, b, k
  <2>. QED  BY <1>7, <1>8, <2>1
<1>11. Queue!Claim(h, k)
  BY <1>7, <1>8, <1>9, <1>10 DEF Queue!Claim
<1>. QED  BY <1>7, <1>11 DEF Queue!Next

(* Writing the state of a verdict is the decision.                         *)
LEMMA DecideRefines ==
  ASSUME Shapes, NEW h \in Handles, FinishState(h)
  PROVE  Queue!Next
<1>. DEFINE j == at[h]
            r == Audit(seen[h])
<1>1. /\ pc[h] = "finish_state" /\ pc'[h] = "unlock_idle"
      /\ UNCHANGED <<owner, head, tail, taken>>
  BY GotoKeeps DEF Shapes, FinishState, At, history
<1>2. /\ owner = h /\ h # NoHandle /\ j \in Idx /\ slot[j] \in Slot /\ slot \in [Idx -> Slot]
      /\ slot[j].state = "reflecting" /\ slot[j].by = h /\ slot[j].item = seen[h]
  BY <1>1, JudgingSlot DEF Shapes, TypeOK
<1>3. slot[j].reason = r
  BY <1>1 DEF Shapes, RingInv, CallsHoldClaims, CallHolds
<1>4. slot'[j] = [slot[j] EXCEPT !.state = Verdict(r)] /\ \A i \in Idx \ {j} : slot'[i] = slot[i]
  BY <1>2 DEF FinishState
<1>5. FirstInQueue = tail /\ FirstInQueue' = tail
  BY <1>1, <1>2, FrontAtTail
<1>6. PICK n \in tail .. head - 1 :
        SlotOf(n) = j /\ \A o \in (tail .. head - 1) \ {n} : SlotOf(o) \in Idx \ {j}
  BY <1>1, <1>2, WorkedEntry DEF Shapes, Writing
<1>. DEFINE k == n - tail + 1
            a == AbstractEntry(slot[j])
            b == AbstractEntry(slot'[j])
<1>7. /\ k \in DOMAIN AbstractQueue /\ AbstractQueue[k] = a
      /\ AbstractQueue' = [AbstractQueue EXCEPT ![k] = b]
  BY <1>1, <1>4, <1>5, <1>6, ChangedQueue DEF Shapes
<1>8. /\ a.state = "reflecting" /\ a.item = seen[h]
      /\ b = [a EXCEPT !.state = Verdict(r), !.reason = r]
  <2>1. a = [item |-> slot[j].item, by |-> h, state |-> "reflecting", reason |-> "none"]
    BY <1>2 DEF AbstractEntry, Slot
  <2>2. b = [item |-> slot[j].item, by |-> h, state |-> Verdict(r), reason |-> r]
    <3>. HIDE DEF r
    <3>. QED  BY <1>2, <1>3, <1>4 DEF AbstractEntry, Slot, Verdict
  <2>3. a.state = "reflecting" /\ a.item = seen[h]
    BY <1>2, <2>1
  <2>4. [a EXCEPT !.state = Verdict(r), !.reason = r]
          = [item |-> slot[j].item, by |-> h, state |-> Verdict(r), reason |-> r]
    <3>. DEFINE c == [item |-> slot[j].item, by |-> h, state |-> Verdict(r), reason |-> "none"]
    <3>. HIDE DEF a, r
    <3>1. [a EXCEPT !.state = Verdict(r)] = c
      BY <2>1
    <3>2. [c EXCEPT !.reason = r]
            = [item |-> slot[j].item, by |-> h, state |-> Verdict(r), reason |-> r]
      OBVIOUS
    <3>3. [a EXCEPT !.state = Verdict(r), !.reason = r] = [[a EXCEPT !.state = Verdict(r)] EXCEPT !.reason = r]
      OBVIOUS
    <3>. HIDE DEF c
    <3>. QED  BY <3>1, <3>2, <3>3
  <2>. HIDE DEF a, b, r
  <2>. QED  BY <2>2, <2>3, <2>4
<1>9. UNCHANGED AbstractTaken
  BY <1>1 DEF AbstractTaken
<1>10. AbstractQueue' = [AbstractQueue EXCEPT ![k].state = Verdict(r), ![k].reason = r]
  <2>1. [AbstractQueue EXCEPT ![k].state = Verdict(r), ![k].reason = r]
          = [AbstractQueue EXCEPT ![k] = [AbstractQueue[k] EXCEPT !.state = Verdict(r), !.reason = r]]
    BY <1>7, TwoFields
  <2>. HIDE DEF a, b, k, r
  <2>. QED  BY <1>7, <1>8, <2>1
<1>11. Queue!Decide(k)
  BY <1>7, <1>8, <1>9, <1>10
     DEF Queue!Decide, Queue!Audit, Audit, Queue!Verdict, Verdict
<1>. QED  BY <1>7, <1>11 DEF Queue!Next

(* Freeing the oldest slot is the removal of the front.                    *)
LEMMA TakeRefines ==
  ASSUME Shapes, TypeOK', NEW h \in Handles, NEW via \in {"pop", "pop_any"}, PopTake(h, via)
  PROVE  Queue!Next
<1>. DEFINE j == SlotOf(tail)
            Q == AbstractQueue
            m == head - tail - 1
            T == AbstractTaken
            l == Len(taken)
            Removal == [entry : Entry, via : {"pop", "pop_any"}]
<1>1. /\ pc[h] = "pop_check" /\ pc'[h] = "pop_tail" /\ UNCHANGED <<owner, head, tail>>
      /\ slot' = [slot EXCEPT ![j].state = "free"]
      /\ taken' = Append(taken, [entry |-> slot[j], via |-> via])
  BY GotoKeeps DEF Shapes, PopTake, At
<1>2. /\ owner = h /\ owner # NoHandle /\ head \in Nat /\ tail \in Nat
      /\ tail < head /\ tail \in tail .. head - 1
      /\ j \in Idx /\ slot[j] \in Slot
      /\ slot[j].state \notin {"reflecting", "free"}
      /\ via = "pop" => slot[j].state = "committed"
  BY TakenSlot DEF Shapes
<1>3. FirstInQueue = tail /\ FirstInQueue' = tail + 1
  BY <1>1, <1>2 DEF FirstInQueue, OwnerAt
<1>4. m \in Nat /\ Q \in [1 .. m + 1 -> Entry] /\ Q' \in [1 .. m -> Entry]
  <2>1. Q \in [1 .. head - FirstInQueue -> Entry] /\ Q' \in [1 .. head' - FirstInQueue' -> Entry]
    BY DEF Shapes, QueueShape
  <2>2. head' = head
    BY <1>1
  <2>3. m \in Nat /\ head - tail = m + 1 /\ head - (tail + 1) = m
    BY <1>2
  <2>4. head - FirstInQueue = m + 1 /\ head' - FirstInQueue' = m
    BY <1>3, <2>2, <2>3
  <2>. QED  BY <2>1, <2>3, <2>4
<1>5. \A k \in 1 .. m : Q'[k] = Q[k + 1]
  <2>. SUFFICES ASSUME NEW k \in 1 .. m PROVE Q'[k] = Q[k + 1]
    OBVIOUS
  <2>. DEFINE o == tail + k
  <2>1. /\ o \in tail .. head - 1 /\ o \in tail + 1 .. head' - 1 /\ o # tail
        /\ o - tail + 1 = k + 1 /\ o - (tail + 1) + 1 = k
    BY <1>1, <1>2
  <2>2. Q[o - tail + 1] = AbstractEntry(slot[SlotOf(o)])
    BY <1>3, <2>1 DEF Shapes, QueueShape
  <2>3. Q'[o - (tail + 1) + 1] = AbstractEntry(slot'[SlotOf(o)])
    BY <1>3, <2>1 DEF Shapes, QueueShape
  <2>4. SlotOf(o) \in Idx \ {j}
    BY <1>2, <2>1, WindowDistinct DEF Shapes, RingInv
  <2>5. slot'[SlotOf(o)] = slot[SlotOf(o)]
    BY <1>1, <2>4 DEF Shapes, TypeOK
  <2>. QED  BY <2>1, <2>2, <2>3, <2>5
<1>6. Q' = Tail(Q) /\ Head(Q) = Q[1] /\ Q # << >>
  <2>. HIDE DEF Q, m
  <2>. QED  BY <1>4, <1>5, TailOf
<1>7. Q[1] = AbstractEntry(slot[j])
  <2>1. Q[tail - tail + 1] = AbstractEntry(slot[SlotOf(tail)])
    BY <1>2, <1>3 DEF Shapes, QueueShape
  <2>. QED  BY <1>2, <2>1
<1>8. /\ AbstractEntry(slot[j]).state = slot[j].state
  BY <1>2, EntryType
<1>9. /\ l \in Nat /\ Len(taken') = l + 1
      /\ taken'[l + 1] = [entry |-> slot[j], via |-> via]
      /\ \A k \in 1 .. l : taken'[k] = taken[k] /\ taken[k] \in [entry : Slot, via : {"pop", "pop_any"}]
  <2>. DEFINE R == [entry : Slot, via : {"pop", "pop_any"}]
              e == [entry |-> slot[j], via |-> via]
  <2>1. taken \in Seq(R) /\ e \in R
    BY <1>2 DEF Shapes, TypeOK
  <2>2. taken' = Append(taken, e)
    BY <1>1
  <2>. HIDE DEF R, e
  <2>3. /\ l \in Nat /\ Len(taken') = l + 1 /\ taken'[l + 1] = e
        /\ \A k \in 1 .. l : taken'[k] = taken[k] /\ taken[k] \in R
    BY <2>1, <2>2, AppendFacts
  <2>. QED  BY <2>3 DEF R, e
<1>10. T \in [1 .. l -> Removal] /\ T' \in [1 .. l + 1 -> Removal]
  <2>1. \A k \in 1 .. l : [entry |-> AbstractEntry(taken[k].entry), via |-> taken[k].via] \in Removal
    BY <1>9, EntryType
  <2>2. \A k \in 1 .. l + 1 :
          [entry |-> AbstractEntry(taken'[k].entry), via |-> taken'[k].via] \in Removal
    <3>1. [entry |-> AbstractEntry(taken'[l + 1].entry), via |-> taken'[l + 1].via] \in Removal
      BY <1>2, <1>9, EntryType
    <3>2. ASSUME NEW k \in 1 .. l
          PROVE  [entry |-> AbstractEntry(taken'[k].entry), via |-> taken'[k].via] \in Removal
      <4>. HIDE DEF Removal
      <4>. QED  BY <1>9, <2>1
    <3>3. \A k \in 1 .. l + 1 : k \in 1 .. l \/ k = l + 1
      BY <1>9
    <3>. HIDE DEF Removal, l
    <3>. QED  BY <3>1, <3>2, <3>3
  <2>. HIDE DEF Removal
  <2>. QED  BY <1>9, <2>1, <2>2 DEF AbstractTaken
<1>11. /\ \A k \in 1 .. l : T'[k] = T[k]
       /\ T'[l + 1] = [entry |-> AbstractEntry(slot[j]), via |-> via]
  BY <1>9 DEF AbstractTaken
<1>12. T' = Append(T, [entry |-> Head(Q), via |-> via])
  <2>1. T' = Append(T, T'[l + 1])
    <3>. HIDE DEF T, l, Removal
    <3>. QED  BY <1>9, <1>10, <1>11, AppendOf
  <2>. HIDE DEF T, Q, l, j
  <2>. QED  BY <1>6, <1>7, <1>11, <2>1
<1>13. Queue!Take(via)
  <2>1. /\ Q # << >>
        /\ IF via = "pop" THEN Head(Q).state = "committed" ELSE Head(Q).state # "reflecting"
    BY <1>2, <1>6, <1>7, <1>8
  <2>. QED  BY <1>6, <1>12, <2>1 DEF Queue!Take, T, Q
<1>. QED  BY <1>13 DEF Queue!Next

(* The empty ring is the empty queue.                                      *)
LEMMA InitRefines == Init => Queue!Init
<1>. SUFFICES ASSUME Init PROVE Queue!Init
  OBVIOUS
<1>1. head = 0 /\ FirstInQueue = 0 /\ Len(taken) = 0
  BY DEF Init, FirstInQueue, OwnerAt
<1>2. AbstractQueue = << >> /\ AbstractTaken = << >>
  <2>1. 1 .. 0 = {} /\ 0 - 0 = 0
    OBVIOUS
  <2>. QED  BY <1>1, <2>1 DEF AbstractQueue, AbstractTaken
<1>. QED  BY <1>2 DEF Queue!Init

(* Every step of the ring maps to a step of the queue or to none.          *)
LEMMA StepRefines ==
  ASSUME TypeOK, RingInv, ItemWritten, TypeOK', RingInv', [Next]_vars
  PROVE  [Queue!Next]_(Queue!queueVars)
<1>1. QueueShape
  BY ShapeOfQueue
<1>2. QueueShape'
  <2>1. (TypeOK /\ RingInv => QueueShape)'
    BY ShapeOfQueue, PTL
  <2>. QED  BY <2>1
<1>3. Shapes
  BY <1>1, <1>2 DEF Shapes
<1>4. CASE Quiet
  BY <1>3, <1>4, QuietRefines
<1>5. ASSUME NEW h \in Handles,
             \/ (PushCheck(h) /\ ~IsFull) \/ PushWrite(h) \/ PushSeal(h) \/ PushHead(h)
             \/ (ClaimCheck(h) /\ slot[at[h]].state = "tentative") \/ ClaimRecord(h)
             \/ FinishReason(h) \/ FinishState(h)
             \/ (\E via \in {"pop", "pop_any"} : PopTake(h, via)) \/ PopTail(h)
      PROVE  [Queue!Next]_(Queue!queueVars)
  BY <1>3, <1>5, PushRefines, PushHeadRefines, VerifyRefines, ClaimRefines, DecideRefines,
     TakeRefines, PopTailRefines
<1>. QED  BY <1>4, <1>5, StepKinds

(***************************************************************************)
(* The ring of shm.rs implements the queue of proposals it promises, for   *)
(* every capacity, every number of processes and any of them dying where   *)
(* they please: a push is visible when head moves, a claim when it is      *)
(* signed, a verdict when the state is written, and what the pops return   *)
(* is the front of that queue, each entry once.                            *)
(***************************************************************************)
THEOREM RingImplementsQueue == Spec => ImplementsQueue
<1>1. Init => ItemWritten
  BY DEF Init, ItemWritten, OwnerAt
<1>2. TypeOK /\ RingInv /\ ItemWritten /\ [Next]_vars => ItemWritten'
  BY ItemWrittenStep
<1>3. TypeOK /\ RingInv /\ ItemWritten /\ TypeOK' /\ RingInv' /\ [Next]_vars
        => [Queue!Next]_(Queue!queueVars)
  BY StepRefines
<1>. QED  BY <1>1, <1>2, <1>3, InitRefines, TypedRing, PTL DEF Spec, ImplementsQueue, Queue!Spec

=============================================================================
