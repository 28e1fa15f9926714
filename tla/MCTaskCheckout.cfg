\* Two tasks of one checkout; their supervisors may be killed.
SPECIFICATION Spec
CONSTANTS
  Tasks = {t1, t2}
  Supervisors = {s1, s2}
  Inspectors = {}
  Nobody = Nobody
  MayCrash = TRUE
  MaySignal = TRUE
  MaxOutputs = 0
SYMMETRY Symmetry
INVARIANTS
  OneTaskPerCheckout
\* A submit that fails leaves nothing to be done.
CHECK_DEADLOCK FALSE
