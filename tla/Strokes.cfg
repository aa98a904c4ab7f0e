SPECIFICATION Spec
CONSTANTS
  MaxCnt = 15
  KeyCodes = {4, 99}
  MaxHeld = 2
  MaxPressed = 4
  Lines <- KnownLines
CHECK_DEADLOCK FALSE
INVARIANTS TypeOK NeverOvercount ExactWhenKeysUp ClickIsExact LatchedIsHeld OwedInv BalanceInv
