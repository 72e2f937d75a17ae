CONSTANTS
  Names = {x}
  Own = own
  Peer = peer
  Life = 2
  BonusLife = 2
  MaxLife = 3
  Summaries = 3
  BlockSize = 5
  Growth = 1
  BonusLimit = 3
  MaxBlocks = 4
  MaxSent = 2
SPECIFICATION Spec
CHECK_DEADLOCK FALSE
INVARIANTS
  AppliedOnce
  OnReferencedChain
  
PROPERTIES
  NothingDropped
