\* One task, executed twice over, killed, signalled, inspected and cancelled.
SPECIFICATION FairSpec
CONSTANTS
  Tasks = {t1}
  Supervisors = {s1, s2}
  Inspectors = {i1, i2}
  Nobody = Nobody
  MayCrash = TRUE
  MaySignal = TRUE
  MaxOutputs = 1
INVARIANTS
  TaskInv
  CommandsRunOnce
  InterruptedIsAbandoned
PROPERTIES
  ImplementsLedger
  RunningEnds
\* A submit that fails leaves nothing to be done.
CHECK_DEADLOCK FALSE
