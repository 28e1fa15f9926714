--------------------------- MODULE ConsensusQueue ---------------------------
(***************************************************************************)
(* What the shared-memory ring promises, with nothing of how it does it: a *)
(* bounded first-in first-out queue of proposals.  A proposal is claimed   *)
(* by one verifier at a time and gets the verdict its payload deserves; it *)
(* leaves the queue at the front, by pop when it is committed and by       *)
(* pop_any when nobody is verifying it.                                    *)
(***************************************************************************)
EXTENDS Naturals, Sequences, SwarmAudit

CONSTANTS Capacity, Handles, NoHandle, Payloads

VARIABLES
  queue,    \* the proposals in the ring, the oldest first
  taken     \* the proposals consumers removed, in the order they did

queueVars == <<queue, taken>>

Init ==
  /\ queue = << >>
  /\ taken = << >>

(***************************************************************************)
(* push (auto) and push_tentative.                                         *)
(***************************************************************************)
Propose(p, auto) ==
  /\ Len(queue) < Capacity
  /\ queue' = Append(queue,
       [item  |-> p, by |-> NoHandle, reason |-> "none",
        state |-> IF auto THEN "committed" ELSE "tentative"])
  /\ UNCHANGED taken

Claim(h, k) ==
  /\ queue[k].state = "tentative"
  /\ queue' = [queue EXCEPT ![k].state = "reflecting", ![k].by = h]
  /\ UNCHANGED taken

(***************************************************************************)
(* The verdict is a function of the payload of the very proposal claimed.  *)
(***************************************************************************)
Decide(k) ==
  LET reason == Audit(queue[k].item)
  IN  /\ queue[k].state = "reflecting"
      /\ queue' = [queue EXCEPT ![k].state = Verdict(reason), ![k].reason = reason]
      /\ UNCHANGED taken

Take(via) ==
  /\ queue # << >>
  /\ IF via = "pop" THEN Head(queue).state = "committed"
                    ELSE Head(queue).state # "reflecting"
  /\ taken' = Append(taken, [entry |-> Head(queue), via |-> via])
  /\ queue' = Tail(queue)

Next ==
  \/ \E p \in Payloads, auto \in BOOLEAN : Propose(p, auto)
  \/ \E k \in DOMAIN queue : Decide(k) \/ \E h \in Handles : Claim(h, k)
  \/ \E via \in {"pop", "pop_any"} : Take(via)

Spec == Init /\ [][Next]_queueVars
=============================================================================
