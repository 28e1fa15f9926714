------------------------------ MODULE MCFabric ------------------------------
(***************************************************************************)
(* Two lanes, an agent that would work in the first one's worktree, and    *)
(* changes that others push.                                               *)
(***************************************************************************)
EXTENDS Fabric, TLC

CONSTANTS agent, w1, w2, key

TheRuns == (1 .. 2) \cup {agent}
TheClaims == [r \in TheRuns |-> CASE r = 1 -> {{w1}} [] r = 2 -> {{w2}}
                                  [] OTHER -> {{w1, key}}]

Snapshot(metrics, collapsed) ==
  [metrics |-> metrics, minimize |-> {"cost"}, collapsed |-> collapsed]
MinusHundred == -100
TheSnapshots ==
  {Snapshot([quality |-> 1, cost |-> 1], FALSE), Snapshot([quality |-> 2, cost |-> 1], FALSE),
   Snapshot([quality |-> 5, cost |-> 3], FALSE), Snapshot([quality |-> 3], FALSE),
   Snapshot([quality |-> 4, cost |-> 1], FALSE),
   Snapshot([quality |-> 3, cost |-> 0], TRUE)}
=============================================================================
