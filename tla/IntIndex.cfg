SPECIFICATION MCSpec
CONSTANTS
  None = None
  Keys <- SomeKeys
  Bytes <- SomeBytes
  Low <- Least
  High <- Greatest
  Width = 3
  KPN = 3
  Sought = TRUE
  Merges = FALSE
INVARIANTS KeysInPlace IteratorRight FilterRight IndexRight
CHECK_DEADLOCK FALSE
