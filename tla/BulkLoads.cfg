SPECIFICATION LoadSpec
CONSTANTS
  KeyBits = 6
  ByteBits = 2
  BaseImplicit = 2
  TargetSize = 3
  SizeScalarCount = 5
  SizeScalars <- BulkScalars
  ScaleShift = 4
  GrowGrade = 1
  ExceptionSize = 0
  InfixSize = 2
  Keys <- Working
  Queries <- Asked
  MaxKeys = 3
  MaxInfixes = 3
  ShrinkSizes = {1}
  LoadKeys <- Few
  MaxLoad = 5
  None = None
INVARIANTS LoadedPoint LoadedRange LoadedRight
PROPERTIES StreamsAlike
CHECK_DEADLOCK FALSE
