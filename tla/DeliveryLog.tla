----------------------------- MODULE DeliveryLog -----------------------------
(***************************************************************************)
(* What local delivery promises: the deployments of a target form a log of *)
(* verified transitions.  A transition is made by an approval that binds   *)
(* its action and revision to what was active and to its place in the log, *)
(* and so by one that can never be used again.                             *)
(***************************************************************************)
EXTENDS Naturals, Sequences

CONSTANTS Revisions, NoRevision

VARIABLE log  \* the approvals of the verified transitions, in their order

Before(n) == IF n = 0 THEN NoRevision ELSE log[n].revision

Init == log = << >>

(***************************************************************************)
(* Any revision but the active one may be deployed; a rollback goes to the *)
(* one that was active before.                                             *)
(***************************************************************************)
Transition(action, id) ==
  /\ id # Before(Len(log))
  /\ action = "rollback" => Len(log) > 1 /\ id = Before(Len(log) - 1)
  /\ log' = Append(log, [action |-> action, revision |-> id,
                         active |-> Before(Len(log)), generation |-> Len(log)])

Next == \E action \in {"deploy", "rollback"}, id \in Revisions : Transition(action, id)

Spec == Init /\ [][Next]_log
=============================================================================
