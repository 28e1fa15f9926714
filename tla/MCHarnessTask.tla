--------------------------- MODULE MCHarnessTask ---------------------------
(***************************************************************************)
(* Small instances of HarnessTask: the constants are model values.         *)
(***************************************************************************)
EXTENDS HarnessTask, TLC

Symmetry == Permutations(Tasks) \cup Permutations(Supervisors)
=============================================================================
