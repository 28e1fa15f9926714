\* Explain, alone on one file.
SPECIFICATION Spec
CONSTANTS
  NumFiles = 1
  Agents = {a1}
  Watchers = {}
  Kinds = {"explain"}
  ArrowNodes = {}
  Nobody = Nobody
  Missing = Missing
  Torn = Torn
  MaxEdits = 1
  MaxCalls = 2
  MaxDeaths = 1
INVARIANTS
  StaleCacheIsRefreshed
CHECK_DEADLOCK FALSE
