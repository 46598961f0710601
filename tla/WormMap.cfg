SPECIFICATION FairSpec
CONSTANTS
  None = None
  t1 = t1
  t2 = t2
  t3 = t3
  Threads = {t1, t2}
  Keys = {1, 2, 3}
  Capacity = 2
  MergeBelow = 2
  Leaves = {1, 2, 3, 4}
  Starts <- Mixed
  Ops <- Forward
  MaxCalls <- TwoAndOne
  Reserve = FALSE
INVARIANTS ScanComplete
PROPERTIES ImplementsMap OpsEnd
CHECK_DEADLOCK FALSE
