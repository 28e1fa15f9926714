----------------------------- MODULE DurableLog -----------------------------
(***************************************************************************)
(* What the semantic bus promises its users: one log that only grows while *)
(* the machine runs, a prefix of it that survives any crash, and           *)
(* acknowledgements that never reach beyond that prefix.                   *)
(***************************************************************************)
EXTENDS Naturals, Sequences

VARIABLES
  log,       \* the rows in the order of their numbers
  safe,      \* how many of them, from the first, survive a loss of power
  promised   \* how many of them were acknowledged

vars == <<log, safe, promised>>

Init == log = << >> /\ safe = 0 /\ promised = 0

(* A publication adds its rows at the end.                                 *)
Publish ==
  /\ Len(log') > Len(log)
  /\ SubSeq(log', 1, Len(log)) = log
  /\ UNCHANGED <<safe, promised>>

(* The log reached the disk, and its last publication is acknowledged.     *)
Promise ==
  /\ safe' = Len(log)
  /\ promised' = Len(log)
  /\ UNCHANGED log

(* Power is lost: rows beyond the safe prefix may go, the last ones first. *)
Lose ==
  \E n \in safe .. Len(log) :
    /\ log' = SubSeq(log, 1, n)
    /\ safe' = n
    /\ UNCHANGED promised

Next == Publish \/ Promise \/ Lose

Spec == Init /\ [][Next]_vars
=============================================================================
