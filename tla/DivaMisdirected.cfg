SPECIFICATION MisdirectedSpec
CONSTANTS
  KeyBits = 8
  ByteBits = 2
  BaseImplicit = 2
  TargetSize = 4
  SizeScalarCount = 10
  SizeScalars <- DivaScalars
  ScaleShift = 4
  GrowGrade = 1
  ExceptionSize = 0
  InfixSize = 3
  Keys <- MisdirectedKeys
  Queries <- MisdirectedKeys
  MaxKeys = 5
  MaxInfixes = 8
  ShrinkSizes = {}
INVARIANT PointComplete
CHECK_DEADLOCK FALSE
