---------------------------- MODULE ApprovedPlan ----------------------------
(***************************************************************************)
(* What a workflow promises to whoever approves its plan, with nothing of  *)
(* processes, locks and files: a step is only started under an approval of *)
(* the very plan it belongs to, after the steps before it passed, and at   *)
(* most once, unless it is safe to retry; and once it is not known what    *)
(* became of a step, nothing is started until somebody has settled that,   *)
(* and approved anew.                                                      *)
(***************************************************************************)
EXTENDS Naturals, Sequences

CONSTANTS Plans, Open

VARIABLES
  plan,    \* the number of the revision in force, and its plan
  agreed,  \* whether it is approved
  done,    \* how many of its steps are known to have passed
  flight,  \* what is known of the next one: "none", "entered", "launched",
           \* "passed" or "unknown"
  tried    \* the steps whose command was ever started

planVars == <<plan, agreed, done, flight, tried>>

Current == [digest |-> plan, index |-> done + 1]

Init ==
  /\ \E p \in Plans : plan = <<1, p>>
  /\ agreed = FALSE /\ done = 0 /\ flight = "none" /\ tried = {}

Replan(p) ==
  /\ flight = "none"
  /\ plan' = <<plan[1] + 1, p>> /\ agreed' = FALSE /\ done' = 0
  /\ UNCHANGED <<flight, tried>>

Agree ==
  /\ flight = "none" /\ plan[2] \notin Open
  /\ agreed' = TRUE
  /\ UNCHANGED <<plan, done, flight, tried>>

Enter ==
  /\ flight = "none" /\ agreed /\ done < Len(plan[2])
  /\ Current \in tried => plan[2][done + 1].retrySafe
  /\ flight' = "entered"
  /\ UNCHANGED <<plan, agreed, done, tried>>

Launch ==
  /\ flight = "entered" /\ flight' = "launched"
  /\ tried' = tried \cup {Current}
  /\ UNCHANGED <<plan, agreed, done>>

Ends(result) ==
  /\ flight = "launched" /\ flight' = result
  /\ UNCHANGED <<plan, agreed, done, tried>>

Complete ==
  /\ flight = "passed" /\ flight' = "none" /\ done' = done + 1
  /\ UNCHANGED <<plan, agreed, tried>>

(* The step's keeper died, or could not tell.                              *)
Lose ==
  /\ flight \in {"entered", "launched", "passed"} /\ flight' = "unknown"
  /\ UNCHANGED <<plan, agreed, done, tried>>

(* The approval ends, at the latest when the step is accounted for.        *)
Settle ==
  /\ flight = "unknown" /\ flight' \in {"unknown", "none"}
  /\ agreed' = FALSE
  /\ UNCHANGED <<plan, done, tried>>

Next ==
  \/ \E p \in Plans : Replan(p)
  \/ Agree \/ Enter \/ Launch \/ Complete \/ Lose \/ Settle
  \/ \E result \in {"passed", "none"} : Ends(result)

Spec == Init /\ [][Next]_planVars
=============================================================================
