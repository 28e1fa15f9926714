\* Two lanes, one other owner of leases, and a gate run after the day.  The day's
\* repository has a change checked out that the target has not.
SPECIFICATION Spec
CONSTANTS
  agent = 3
  w1 = w1
  w2 = w2
  key = key
  NumLanes = 2
  Agents = {3}
  Results = {"passed", "failed"}
  Runs <- TheRuns
  Resources = {w1, w2, key}
  Claims <- TheClaims
  Branches = {1, 2}
  Stackers = {"day", "gate"}
  Snapshots <- TheSnapshots
  None = None
  NegativeInfinity <- MinusHundred
  Epsilon = 1
  Others = {8, 9}
  Checkout = {9}
INVARIANTS
  FabricInv
  SharedOnlyAfterExpiry
  PassedIsVouchedFor
  OnlyPassedIntegrated
PROPERTIES
  TargetMovesForward
CHECK_DEADLOCK FALSE
