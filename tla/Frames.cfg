SPECIFICATION Spec
CONSTANTS
  MaxCnt = 255
  Frames <- SomeFrames
  MaxFrames = 3
  RxSize = 22
CHECK_DEADLOCK FALSE
INVARIANTS TypeOK DecodedWereSent OthersDecoded
PROPERTIES ReportLineSpec
