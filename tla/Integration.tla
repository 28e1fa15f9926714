---------------------------- MODULE Integration ----------------------------
(***************************************************************************)
(* The stacking of branches of src/crates/leio-harness/src/integrate.rs    *)
(* and merge.rs: from the target as it is, a worktree of its own, one      *)
(* merge commit per branch, and the objective on the integrated tree.      *)
(*                                                                         *)
(* A head is the set of the changes in its history, so that one head is an *)
(* ancestor of another when it is contained in it.  Whether a merge        *)
(* conflicts is a choice.                                                  *)
(***************************************************************************)
EXTENDS Naturals, FiniteSets

CONSTANTS
  Branches,   \* the branches that may be stacked
  Others,     \* bound: the changes that others make
  Stackers,   \* who stacks: the day and the gate
  Snapshots,  \* the metrics an objective may print
  None        \* no branch, no worktree, no snapshot

VARIABLES
  target,     \* the head of the target branch
  branch,     \* the heads of the branches
  stacks      \* of each stacker: its integration

repository == <<target, branch, stacks>>

NoStack == [status |-> "none", head |-> None, todo |-> {}, snapshot |-> None, kept |-> FALSE]

IntegrationInit ==
  /\ target = {}
  /\ branch = [b \in Branches |-> None]
  /\ stacks = [w \in Stackers |-> NoStack]

SetStack(w, s) == stacks' = [stacks EXCEPT ![w] = s] /\ UNCHANGED <<target, branch>>

(* integrate_lanes: the worktree is created from the target; the checkout  *)
(* may be dirty, or the worktree not be made.                              *)
Stack(w, branches) ==
  SetStack(w, [NoStack EXCEPT !.status = "merging", !.head = target, !.todo = branches,
                              !.kept = TRUE])
  \/ SetStack(w, [NoStack EXCEPT !.status = "error"])

(* discard_worktree looks at the result of neither of its two commands:    *)
(* the worktree may be left.                                               *)
Discarded(left) == [NoStack EXCEPT !.kept = left]

(* A conflict, or a branch or worktree that is refused: all is discarded.  *)
Merge(w, b) ==
  LET s == stacks[w] IN
  /\ s.status = "merging" /\ b \in s.todo
  /\ \/ SetStack(w, [s EXCEPT !.head = @ \cup branch[b], !.todo = @ \ {b}])
     \/ \E left \in BOOLEAN, status \in {"conflict", "error"} :
          SetStack(w, [Discarded(left) EXCEPT !.status = status])

(* The objective prints a snapshot, or none; if it cannot be run at all,   *)
(* the error leaves the worktree where it is.                              *)
Measure(w) ==
  LET s == stacks[w] IN
  /\ s.status = "merging" /\ s.todo = {}
  /\ \/ \E snapshot \in Snapshots \cup {None} :
          SetStack(w, [s EXCEPT !.status = "merged", !.snapshot = snapshot])
     \/ SetStack(w, [s EXCEPT !.status = "error"])

StackStep(w) == (\E b \in Branches : Merge(w, b)) \/ Measure(w)

Stacked(w) == stacks[w].status \in {"merged", "conflict", "error"}

(* What was merged and measured is of no more use.                         *)
Discard(w) ==
  \E left \in {FALSE, stacks[w].kept} :
    stacks' = [stacks EXCEPT ![w] = [Discarded(left) EXCEPT !.status = stacks[w].status]]
=============================================================================
