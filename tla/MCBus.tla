------------------------------- MODULE MCBus -------------------------------
(***************************************************************************)
(* A small instance of ManagedBus: a batch of two rows, a row that may be  *)
(* published twice, and an offspring of one of them.                       *)
(***************************************************************************)
EXTENDS ManagedBus, TLC

Batches == [p \in Publishers |-> 2]
Tries == [c \in Clients |-> IF c \in Publishers THEN 2 ELSE 1]
Symmetry == Permutations(Servers) \cup Permutations(Starters)
=============================================================================
