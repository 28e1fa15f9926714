---------------------------- MODULE MCCodeIndex ----------------------------
(***************************************************************************)
(* A small instance of CodeIndex.                                          *)
(***************************************************************************)
EXTENDS CodeIndex, TLC

(* The nodes were exported when the tree was as it is at first.            *)
OldNodes == {[f \in Files |-> 1]}

Symmetry == Permutations(Agents)
=============================================================================
