SPECIFICATION SettledSpec
CONSTANTS
  TargetSize = 8
  SizeScalarCount = 6
  SizeScalars <- TightScalars
  ScaleShift = 4
  GrowGrade = 5
  ExceptionSize = 2
  InfixSize = 1
  TotalImplicit = 8
  MaxElems = 5
  ShrinkSizes = {}
  InitialLists <- UpTo2
INVARIANTS PopcntsAccurate RoomInvariant
CHECK_DEADLOCK FALSE
