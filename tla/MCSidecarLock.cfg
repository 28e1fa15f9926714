\* Two processes that call twice: one that dies, fails or takes too long, and
\* one that takes its lock.  A nesting of two is the code's deepest.
SPECIFICATION FairSpec
CONSTANTS
  Agents = {a1, a2}
  NoFile = NoFile
  MaxCalls = 2
  MaxDepth = 2
  MayFail = TRUE
  MayAge = TRUE
INVARIANTS
  TypedLock
  RobberyNeedsCause
  NoUpdateLost
PROPERTY
  EveryCallEnds
\* The program stops when nobody has an update left.
CHECK_DEADLOCK FALSE
