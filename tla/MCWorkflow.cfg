\* Three plans, one with open questions, three revisions and four attempts.
SPECIFICATION Spec
CONSTANTS
  Plans <- ThePlans
  Open <- TheOpen
  MaxRevision = 3
  MaxAttempts = 4
INVARIANTS
  WorkflowInv
  NoBlindReplay
  UnknownKeepsRunning
PROPERTIES
  ImplementsApproved
CHECK_DEADLOCK FALSE
