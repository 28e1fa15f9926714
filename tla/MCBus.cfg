\* Two servers, two starters, a publisher, an evolver and a reader.
SPECIFICATION Spec
CONSTANTS
  Servers = {s1, s2}
  Publishers = {p1}
  Evolvers = {e1}
  Readers = {r1}
  Starters = {u1, u2}
  Nobody = Nobody
  BatchSize <- Batches
  Capacity = 4
  MaxTries <- Tries
  MaxPolls = 1
SYMMETRY Symmetry
INVARIANTS
  BusInv
  AckedIsDurable
  NoCopyWithoutCall
  OffspringKeepParents
  CursorTellsAll
  NobodyStranded
PROPERTIES
  ImplementsLog
CHECK_DEADLOCK FALSE
