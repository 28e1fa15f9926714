----------------------------- MODULE MCShmRing -----------------------------
(***************************************************************************)
(* Small instances of ShmRing: one payload the critic approves and one it  *)
(* rejects.                                                                *)
(***************************************************************************)
EXTENDS ShmRing, TLC

GoodPayload == [confidence |-> "enough", dimension |-> "expected", finite |-> TRUE]
LowPayload  == [confidence |-> "below", dimension |-> "expected", finite |-> TRUE]

MCPayloads == {GoodPayload, LowPayload}

Symmetry == Permutations(Handles)
=============================================================================
