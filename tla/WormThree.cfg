SPECIFICATION Spec
CONSTANTS
  None = None
  t1 = t1
  t2 = t2
  t3 = t3
  Threads = {t1, t2, t3}
  Keys = {1, 2, 3}
  Capacity = 2
  MergeBelow = 2
  Leaves = {1, 2, 3, 4}
  Starts <- Mixed
  Ops <- PutDelGet
  MaxCalls <- OneEach
  Reserve = FALSE
SYMMETRY Symmetry
INVARIANTS LeavesSafe
CHECK_DEADLOCK FALSE
