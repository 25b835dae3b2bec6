SPECIFICATION FairSpec
CONSTANTS
  Calls = {k1}
  Names = {"f", "g"}
  Signatures <- MCSignatures
  Requests <- MCRequests
  IntHalf = 2
  LongHalf = 4
  Unit = 2
  FloatValues <- MCFloatValues
  DoubleValues <- MCDoubleValues
  FloatInfinity = 16
  None = None
PROPERTY TimeoutEndsCall
CHECK_DEADLOCK FALSE
