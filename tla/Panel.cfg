SPECIFICATION PanelSpec
CONSTANTS
  MaxCnt = 6
  Reports <- PlainReports
  RxCap = 1
  SetParams <- NoParams
  FlashFaults = FALSE
  PowerCuts = TRUE
  Width = 128
  Height = 32
  Digits <- MCDigits
INVARIANTS CountIsReadable MessagesAreReadable PanelIsNeverDark
