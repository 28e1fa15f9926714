\* The same ring under FairSpec; nobody dies and 256 attempts get the gate.
SPECIFICATION FairSpec
CONSTANTS
  Capacity = 2
  MaxSeq = 2
  Handles = {h1, h2}
  NoHandle = NoHandle
  Payloads <- MCPayloads
  MayCrash = FALSE
  MayGiveUp = FALSE
PROPERTIES
  EveryProposalLeaves
