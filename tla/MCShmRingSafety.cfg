\* Two handles, a ring of two slots, three pushes, crashes and an impatient gate.
SPECIFICATION Spec
CONSTANTS
  Capacity = 2
  MaxSeq = 3
  Handles = {h1, h2}
  NoHandle = NoHandle
  Payloads <- MCPayloads
  MayCrash = TRUE
  MayGiveUp = TRUE
SYMMETRY Symmetry
INVARIANTS
  IInv
  ExactlyOnceInOrder
  OnlyVerifiedDelivered
PROPERTIES
  ImplementsQueue
CHECK_DEADLOCK FALSE
