SPECIFICATION GrowSpec
CONSTANTS
  KeyBits = 12
  ByteBits = 3
  BaseImplicit = 2
  TargetSize = 4
  SizeScalarCount = 10
  SizeScalars <- DivaScalars
  ScaleShift = 4
  GrowGrade = 1
  ExceptionSize = 0
  InfixSize = 2
  Keys <- Sparse
  Queries <- Around
  MaxKeys = 5
  MaxInfixes = 10
  ShrinkSizes = {1}
INVARIANTS GapsRight PointComplete RangeComplete
PROPERTIES AnswersKept
CHECK_DEADLOCK FALSE
