SPECIFICATION Spec
CONSTANTS
    IntOptimized = FALSE
    Target = 64
    Sep = 1
    Grades = 3
    ScaleShift = 4
    LoadFactors <- OneFactor
    InfixSizes = {2, 5}
    LastKey = 2
    Lens = {9}
    Contents = {1, 2}
    Blocks = {b1, b2, b3, b4, b5, b6}
    Careful = TRUE
    AfterWriting = FALSE
    EndMark = EndMark
    None = None
INVARIANTS SizeExact RoundTrip ArraysOwned
CHECK_DEADLOCK FALSE
