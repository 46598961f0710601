SPECIFICATION FairSpec
CONSTANTS
  r1 = r1
  r2 = r2
  None = None
  Target = Target
  Refs = {r1, r2}
  Shards = {0, 1}
  Slots = {0, 1}
  ShardOf <- OneShard
  MaxVersion = 2
  MaxRegs <- Again
  MaxBuffer = 2
  Fresh = FALSE
  StoreBuffers = FALSE
INVARIANTS ReadersSafe
PROPERTIES GraceOver WaitEnds
CHECK_DEADLOCK FALSE
