----------------------------- MODULE MCDelivery -----------------------------
(***************************************************************************)
(* Small instances of Delivery: the constants are model values.            *)
(***************************************************************************)
EXTENDS Delivery, TLC

Symmetry == Permutations(Clients) \cup Permutations(Revisions)
=============================================================================
