SPECIFICATION PartsSpec
CONSTANTS
    Null = Null
    None = Null
    p1 = p1
    b1 = b1
    b2 = b2
    Procs = {p1, p2}
    Blocks = {b1}
    PerSlab = 2
    SeqMod = 7
    Safe = TRUE
    MaxReserve = 0
INVARIANTS LeafRight TableRight ObjectsKept RecordsRight
PROPERTIES TrieRight IsPool
CHECK_DEADLOCK FALSE
