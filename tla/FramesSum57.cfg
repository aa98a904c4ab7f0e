SPECIFICATION Spec
CONSTANTS
  MaxCnt = 255
  Frames <- Sums57
  MaxFrames = 2
  RxSize = 48
CHECK_DEADLOCK FALSE
INVARIANTS AllDecoded
