SPECIFICATION Spec
CONSTANTS
  MaxCnt = 31
  ONE_SECOND = 2
  TEN_SECONDS = 5
  TWENTY_SECONDS = 8
  MaxRound = 3
  MaxHold = 10
  MinUp = 4
  MaxPresses = 2
CHECK_DEADLOCK FALSE
INVARIANTS TypeOK MeasuresTheHold SeenOnce
PROPERTIES ClearIsMeant
