----------------------------- MODULE SwarmAudit -----------------------------
(***************************************************************************)
(* The verdict a SwarmCritic gives a proposal, and the epistemic states of *)
(* the Semantic Two-Phase Commit (crates/leio-harness/src/shm.rs).         *)
(*                                                                         *)
(* A payload is abstracted to the three facts an audit distinguishes: how  *)
(* its confidence compares to the critic's threshold, how its dimension    *)
(* compares to the expected one and to MAX_VECTOR_DIMS, and whether every  *)
(* component of the vector is finite.                                      *)
(***************************************************************************)

(***************************************************************************)
(* enum SwarmState: Free, Tentative, Reflecting, Committed, Aborted.       *)
(***************************************************************************)
SwarmState == {"free", "tentative", "reflecting", "committed", "aborted"}

Payload == [confidence : {"below", "enough", "not_finite"},
            dimension  : {"expected", "other", "oversized"},
            finite     : BOOLEAN]

(***************************************************************************)
(* What ShmSlot::default leaves in a slot nobody has written: confidence   *)
(* 1.0, dimension 0, an all-zero vector.                                   *)
(***************************************************************************)
UnwrittenPayload ==
  [confidence |-> "enough", dimension |-> "other", finite |-> TRUE]

(***************************************************************************)
(* The typed abort reasons an audit can give; "none" is REASON_UNKNOWN,    *)
(* the zero that push and commit_verification store.                       *)
(***************************************************************************)
Reason == {"none", "invariant_violation", "low_confidence", "dimension_mismatch"}

(***************************************************************************)
(* SwarmCritic::audit_slot, in the order of its checks.  "none" stands for *)
(* VerificationDecision::Approved.                                         *)
(***************************************************************************)
Audit(p) ==
  IF p.confidence = "not_finite" \/ p.dimension = "oversized"
  THEN "invariant_violation"
  ELSE IF p.confidence = "below"   THEN "low_confidence"
  ELSE IF p.dimension  = "other"   THEN "dimension_mismatch"
  ELSE IF ~p.finite                THEN "invariant_violation"
  ELSE "none"

Verdict(reason) == IF reason = "none" THEN "committed" ELSE "aborted"
=============================================================================
