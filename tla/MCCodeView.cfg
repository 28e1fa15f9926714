\* Two agents, one of whose commands may be killed, on one file.
SPECIFICATION Spec
CONSTANTS
  NumFiles = 1
  Agents = {a1, a2}
  Watchers = {}
  Kinds = {"graph", "explain"}
  ArrowNodes = {}
  Nobody = Nobody
  Missing = Missing
  Torn = Torn
  MaxEdits = 2
  MaxCalls = 2
  MaxDeaths = 1
SYMMETRY Symmetry
INVARIANTS
  GraphIsOfItsTime
CHECK_DEADLOCK FALSE
