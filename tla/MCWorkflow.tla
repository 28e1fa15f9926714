----------------------------- MODULE MCWorkflow -----------------------------
(***************************************************************************)
(* Three plans: a step that is safe to retry before one that deploys, a    *)
(* single step that is not safe, and a plan with an open question.         *)
(***************************************************************************)
EXTENDS Workflow

Long == <<[deploys |-> FALSE, retrySafe |-> TRUE], [deploys |-> TRUE, retrySafe |-> FALSE]>>
Short == <<[deploys |-> FALSE, retrySafe |-> FALSE]>>
Asking == <<[deploys |-> TRUE, retrySafe |-> TRUE]>>
ThePlans == {Long, Short, Asking}
TheOpen == {Asking}
=============================================================================
