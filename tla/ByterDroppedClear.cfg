SPECIFICATION Spec
CONSTANTS
  MaxCnt = 3
  Reports <- PlainReports
  RxCap = 1
  SetParams <- SomeParams
  FlashFaults = FALSE
  PowerCuts = FALSE
PROPERTIES ClearIsNotDropped
