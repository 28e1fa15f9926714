--------------------------- MODULE MCSidecarLock ---------------------------
(***************************************************************************)
(* Bounded instances of SidecarLock.  The processes do the same.           *)
(***************************************************************************)
EXTENDS SidecarLock, TLC

Symmetry == Permutations(Agents)
=============================================================================
