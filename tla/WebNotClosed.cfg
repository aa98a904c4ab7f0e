CONSTANTS
  Requests <- MCGet
  SndBuf = 3
  HeadLength = 2
  ContentLengths <- MCLengths
  ContinueLength = 3
  RxTicks = 2
  AckTicks = 2
  SizeT = 16
  FaultSets <- MCNone
SPECIFICATION FairConnectionSpec
CHECK_DEADLOCK FALSE
PROPERTIES ClosedWhenSent
