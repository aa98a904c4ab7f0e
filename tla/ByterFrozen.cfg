SPECIFICATION FairSpec
CONSTANTS
  MaxCnt = 3
  Reports <- PlainReports
  RxCap = 1
  SetParams <- NoParams
  FlashFaults = FALSE
  PowerCuts = FALSE
PROPERTIES CountsUnlessFull
