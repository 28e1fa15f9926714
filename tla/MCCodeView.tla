----------------------------- MODULE MCCodeView -----------------------------
(***************************************************************************)
(* Small instances of CodeView: a tree of at most two files.               *)
(***************************************************************************)
EXTENDS CodeView, TLC

Symmetry == Permutations(Agents)
=============================================================================
