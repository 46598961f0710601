SPECIFICATION MCSpec
CONSTANTS
  t1 = t1
  t2 = t2
  t3 = t3
  Threads = {t1, t2, t3}
  WBit = 8
  Retries = 1
  Ops <- AllOps
INVARIANTS TypeOK Exclusion WordCounts
PROPERTIES NoOvertaking WaitersDrain
