\* Two commands at a time on a target of three revisions, and they may end half-way.
SPECIFICATION Spec
CONSTANTS
  Revisions = {r1, r2, r3}
  None = None
  Clients = {c1, c2}
  Nobody = Nobody
  MaxVerified = 4
  MaxFailed = 2
  MayEnd = TRUE
SYMMETRY Symmetry
INVARIANTS
  IInv
  ApprovalSpentOnce
  RollbackGoesBack
PROPERTIES
  PendingIsResolved
  ImplementsLog
\* Past the bounds on the transitions nothing can be promoted any more.
CHECK_DEADLOCK FALSE
