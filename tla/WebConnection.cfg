CONSTANTS
  Requests <- MCRequests
  SndBuf = 3
  HeadLength = 2
  ContentLengths <- MCLengths
  ContinueLength = 3
  RxTicks = 2
  AckTicks = 2
  SizeT = 16
  FaultSets <- MCFaults
SPECIFICATION FairConnectionSpec
CHECK_DEADLOCK FALSE
INVARIANTS ConnectionTypeOK ReplyUnbroken LengthsAgree TimerRunsWhileOwed FinishedIsAcked HandledWhenWhole HandledOnce
PROPERTIES  ReplyGoesOut RequestOrClosed
