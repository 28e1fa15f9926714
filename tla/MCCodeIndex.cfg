\* Two agents, one of whose commands may be killed, and a watcher, on one file.
SPECIFICATION IndexSpec
CONSTANTS
  NumFiles = 1
  Agents = {a1, a2}
  Watchers = {w}
  Kinds = {"index", "find"}
  ArrowNodes <- OldNodes
  Nobody = Nobody
  MaxEdits = 2
  MaxCalls = 2
  MaxDeaths = 1
SYMMETRY Symmetry
INVARIANTS
  IndexInv
  WatcherCatchesUp
  AnswersAreOfTheirTime
CHECK_DEADLOCK FALSE
