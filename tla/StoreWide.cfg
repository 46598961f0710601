SPECIFICATION SettledSpec
CONSTANTS
  TargetSize = 4
  SizeScalarCount = 4
  SizeScalars <- RaggedScalars
  ScaleShift = 4
  GrowGrade = 1
  ExceptionSize = 2
  InfixSize = 2
  TotalImplicit = 4
  MaxElems = 4
  ShrinkSizes = {1}
  InitialLists <- UpTo2
INVARIANTS WellFormed QueriesExact LongestMatchExact DeleteExact
PROPERTIES ImplementsBag
CHECK_DEADLOCK FALSE
