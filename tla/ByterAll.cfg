SPECIFICATION Spec
CONSTANTS
  MaxCnt = 3
  Reports <- AllReports
  RxCap = 1
  SetParams <- SomeParams
  FlashFaults = TRUE
  PowerCuts = TRUE
INVARIANTS TypeOK LedFollowsWifi FullIsLatched PanelShowsCount
PROPERTIES SavedIsSaved CounterSpec
