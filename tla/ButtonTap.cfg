SPECIFICATION Spec
CONSTANTS
  MaxCnt = 127
  ONE_SECOND = 2
  TEN_SECONDS = 20
  TWENTY_SECONDS = 40
  MaxRound = 5
  MaxHold = 45
  MinUp = 6
  MaxPresses = 1
CHECK_DEADLOCK FALSE
PROPERTIES TapSaves
