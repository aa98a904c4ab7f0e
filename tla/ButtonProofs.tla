---------------------------- MODULE ButtonProofs ---------------------------
(***************************************************************************)
(* Theorems about the button, for every width of millis(), every length of *)
(* a round and of a press, and every three limits.                         *)
(***************************************************************************)
EXTENDS Button, TLAPS

\* Modular arithmetic, one turn at most around the clock.
LEMMA WrapTurn ==
  /\ \A n \in Cnt : Wrap(n) = n
  /\ \A n \in -MaxCnt..-1 : Wrap(n) = n + MaxCnt + 1
  /\ Wrap(MaxCnt + 1) = 0
  /\ \A n \in Int : Wrap(n) \in Cnt
<1> USE MaxCntAssumption DEF Wrap, Cnt
<1>1. \A n \in Int : n % (MaxCnt + 1) \in 0..MaxCnt
  OBVIOUS
<1>2. \A n \in 0..MaxCnt : n % (MaxCnt + 1) = n
  OBVIOUS
<1>3. \A n \in -MaxCnt..-1 : n % (MaxCnt + 1) = n + MaxCnt + 1
  OBVIOUS
<1>4. (MaxCnt + 1) % (MaxCnt + 1) = 0
  OBVIOUS
<1> QED
  BY <1>1, <1>2, <1>3, <1>4

\* The time that has passed since a moment of the clock.
Since(b) == Wrap(now - b)

LEMMA SinceTick ==
  ASSUME NEW a \in Cnt, NEW b \in Cnt, Wrap(a - b) < MaxCnt
  PROVE  Wrap(Wrap(a + 1) - b) = Wrap(a - b) + 1
<1> USE MaxCntAssumption, WrapTurn DEF Cnt
<1>1. CASE a = MaxCnt
  <2>1. Wrap(a + 1) = 0 /\ Wrap(a - b) = a - b
    BY <1>1
  <2>2. CASE b = 0
    BY <1>1, <2>1, <2>2
  <2>3. CASE b # 0
    <3>1. 0 - b \in -MaxCnt..-1
      BY <2>3
    <3> QED
      BY <1>1, <2>1, <3>1
  <2> QED
    BY <2>2, <2>3
<1>2. CASE a < MaxCnt /\ a >= b
  <2>1. Wrap(a + 1) = a + 1 /\ Wrap(a - b) = a - b /\ (a + 1) - b \in 0..MaxCnt
    BY <1>2
  <2> QED
    BY <2>1
<1>3. CASE a < MaxCnt /\ a < b
  <2>1. a - b \in -MaxCnt..-1
    BY <1>3
  <2>2. Wrap(a + 1) = a + 1 /\ Wrap(a - b) = a - b + MaxCnt + 1
    BY <1>3, <2>1
  <2>3. (a + 1) - b \in -MaxCnt..-1
    BY <1>3, <2>2
  <2>4. Wrap((a + 1) - b) = (a + 1) - b + MaxCnt + 1
    BY <2>3
  <2> QED
    BY <2>2, <2>4
<1> QED
  BY <1>1, <1>2, <1>3

LEMMA LongMaxRange == LongMax \in Int /\ LongMax < MaxCnt
  BY MaxCntAssumption DEF LongMax, Half

-----------------------------------------------------------------------------

\* The clock and the pin: a press that loop() knows of began, for loop(), at
\* most a round after it really began; one it does not know of, or a release,
\* is younger than the round.
ClockInv ==
  /\ lastState => /\ Since(pressedMillis) <= held + (IF pin THEN 0 ELSE up)
                  /\ held + (IF pin THEN 0 ELSE up)
                       <= Since(pressedMillis) + MaxRound
  /\ ~lastState /\ pin => held <= due
  /\ Released => up <= due

\* The presses, the long ones among them, and those that were seen; one that
\* is going on is yet to be counted.
CountInv ==
  /\ pin => presses < MaxPresses
  /\ long <= seen + (IF Released THEN 1 ELSE 0)
  /\ seen + (IF Released THEN 1 ELSE 0) <= presses

ButtonInv == TypeOK /\ ClockInv /\ CountInv

LEMMA ButtonInit == Init => ButtonInv
<1> SUFFICES ASSUME Init PROVE ButtonInv
  OBVIOUS
<1> USE ButtonAssumption, MaxCntAssumption DEF Init
<1>1. TypeOK
  <2>1. now \in Cnt /\ pressedMillis \in Cnt
    BY DEF Cnt
  <2>2. pin \in BOOLEAN /\ lastState \in BOOLEAN
    OBVIOUS
  <2>3. due \in 0..MaxRound /\ held \in 0..MaxHold /\ up \in 0..MinUp
    OBVIOUS
  <2>4. presses \in 0..MaxPresses /\ long \in 0..MaxPresses /\ seen \in 0..MaxPresses
    OBVIOUS
  <2>5. action \in {"none", "save", "wifi", "clear", "nothing"}
    OBVIOUS
  <2> QED
    BY <2>1, <2>2, <2>3, <2>4, <2>5 DEF TypeOK
<1>2. ClockInv
  BY DEF ClockInv, Released
<1>3. CountInv
  BY DEF CountInv, Released
<1> QED
  BY <1>1, <1>2, <1>3 DEF ButtonInv

LEMMA ButtonTypes ==
  ASSUME ButtonInv, [Next]_vars
  PROVE  TypeOK'
<1> USE ButtonAssumption DEF ButtonInv, TypeOK, code, user
<1>1. CASE Poll
  <2>1. seen' \in 0..MaxPresses
    BY <1>1 DEF Poll, CountInv, Released
  <2>2. action' \in {"none", "save", "wifi", "clear", "nothing"}
    BY <1>1 DEF Poll, Verdict
  <2>3. pressedMillis' \in Cnt /\ lastState' \in BOOLEAN /\ due' \in 0..MaxRound
    BY <1>1 DEF Poll, StateAfter
  <2> QED
    BY <1>1, <2>1, <2>2, <2>3 DEF Poll
<1>2. CASE Tick
  <2>1. now' \in Cnt
    BY <1>2, WrapTurn DEF Tick, Cnt
  <2>2. due' \in 0..MaxRound /\ up' \in 0..MinUp
    BY <1>2 DEF Tick
  <2>3. held' \in 0..MaxHold
    BY <1>2 DEF Tick
  <2> QED
    BY <1>2, <2>1, <2>2, <2>3 DEF Tick
<1>3. CASE Push
  BY <1>3 DEF Push
<1>4. CASE LetGo
  <2>1. presses' \in 0..MaxPresses
    BY <1>4 DEF LetGo, CountInv
  <2>2. long <= presses
    BY <1>4 DEF LetGo, CountInv, Released
  <2>3. long' \in 0..MaxPresses
    BY <1>4, <2>1, <2>2 DEF LetGo
  <2>4. up' \in 0..MinUp
    BY <1>4 DEF LetGo
  <2>5. pin' \in BOOLEAN
    BY <1>4, Zenon DEF LetGo
  <2>6. UNCHANGED <<now, due, lastState, pressedMillis, seen, action, held>>
    BY <1>4 DEF LetGo
  <2> QED
    BY <2>1, <2>3, <2>4, <2>5, <2>6
<1>5. CASE UNCHANGED vars
  BY <1>5 DEF vars
<1> QED
  BY <1>1, <1>2, <1>3, <1>4, <1>5 DEF Next

LEMMA ButtonClock ==
  ASSUME ButtonInv, [Next]_vars
  PROVE  ClockInv'
<1> USE ButtonAssumption, MaxCntAssumption
    DEF ButtonInv, TypeOK, ClockInv, Released, code, user
<1> DEFINE since == Since(pressedMillis)
<1>0. since \in Cnt /\ since \in Int
  BY WrapTurn DEF Since, Cnt
<1>1. CASE Poll
  <2>1. CASE ~lastState /\ pin
    <3>1. now' - pressedMillis' = 0
      BY <1>1, <2>1 DEF Poll, Cnt
    <3>2. Since(pressedMillis)' = 0
      BY <3>1, WrapTurn DEF Since, Cnt
    <3> QED
      BY <1>1, <2>1, <3>2 DEF Poll, StateAfter
  <2>2. CASE lastState /\ pin
    <3>1. Since(pressedMillis)' = since
      BY <1>1, <2>2 DEF Poll, Since
    <3> QED
      BY <1>1, <2>2, <3>1 DEF Poll, StateAfter
  <2>3. CASE ~pin
    BY <1>1, <2>3 DEF Poll, StateAfter
  <2> QED
    BY <2>1, <2>2, <2>3
<1>2. CASE Tick
  <2>1. CASE lastState
    <3>1. up < MinUp \/ pin
      BY <1>2, <2>1 DEF Tick
    <3>2. since < MaxCnt
      BY <1>0, <1>2, <2>1, LongMaxRange DEF Tick
    <3>3. Since(pressedMillis)' = since + 1
      BY <1>2, <3>2, SinceTick DEF Tick, Since
    <3>4. CASE pin
      BY <1>0, <1>2, <2>1, <3>3, <3>4 DEF Tick
    <3>5. CASE ~pin
      BY <1>0, <1>2, <2>1, <3>1, <3>3, <3>5 DEF Tick
    <3> QED
      BY <3>4, <3>5
  <2>2. CASE ~lastState
    BY <1>2, <2>2 DEF Tick
  <2> QED
    BY <2>1, <2>2
<1>3. CASE Push
  BY <1>3 DEF Push
<1>4. CASE LetGo
  <2>1. Since(pressedMillis)' = since
    BY <1>4 DEF LetGo, Since
  <2> QED
    BY <1>0, <1>4, <2>1 DEF LetGo
<1>5. CASE UNCHANGED vars
  <2>1. Since(pressedMillis)' = since
    BY <1>5 DEF vars, Since
  <2> QED
    BY <1>5, <2>1 DEF vars
<1> QED
  BY <1>1, <1>2, <1>3, <1>4, <1>5 DEF Next

LEMMA ButtonCount ==
  ASSUME ButtonInv, [Next]_vars
  PROVE  CountInv'
<1> USE ButtonAssumption DEF ButtonInv, TypeOK, CountInv, Released, code, user
<1>1. CASE Poll
  BY <1>1 DEF Poll, StateAfter
<1>2. CASE Tick
  BY <1>2 DEF Tick
<1>3. CASE Push
  BY <1>3 DEF Push, ClockInv
<1>4. CASE LetGo
  <2>1. held > MaxRound => lastState
    BY <1>4 DEF LetGo, ClockInv
  <2> QED
    BY <1>4, <2>1 DEF LetGo
<1>5. CASE UNCHANGED vars
  BY <1>5 DEF vars
<1> QED
  BY <1>1, <1>2, <1>3, <1>4, <1>5 DEF Next

THEOREM ButtonInvariant == Spec => []ButtonInv
<1>1. ButtonInv /\ [Next]_vars => ButtonInv'
  BY ButtonTypes, ButtonClock, ButtonCount DEF ButtonInv
<1> QED
  BY <1>1, ButtonInit, PTL DEF Spec

-----------------------------------------------------------------------------

LEMMA MeasureFact == ButtonInv => MeasuresTheHold
<1> SUFFICES ASSUME ButtonInv, Released
             PROVE  PressMillis \in (held - MaxRound)..(held + MaxRound)
  BY DEF MeasuresTheHold
<1> USE ButtonAssumption DEF ButtonInv, TypeOK, ClockInv, Released
<1>1. Since(pressedMillis) \in Int
  BY WrapTurn DEF Since, Cnt
<1>2. /\ Since(pressedMillis) <= held + up
      /\ held + up <= Since(pressedMillis) + MaxRound
      /\ up <= MaxRound
  OBVIOUS
<1>3. Since(pressedMillis) <= LongMax
  BY <1>1, <1>2, LongMaxRange
<1>4. PressMillis = Since(pressedMillis)
  BY <1>3 DEF PressMillis, Since
<1>5. up \in Nat /\ held \in Nat
  OBVIOUS
<1> QED
  BY <1>1, <1>2, <1>4, <1>5

\* Every variable keeps to its type, whenever the button is pressed.
THEOREM ButtonTypesCorrect == Spec => []TypeOK
<1>1. ButtonInv => TypeOK
  BY DEF ButtonInv
<1> QED
  BY <1>1, ButtonInvariant, PTL

\* loop() is wrong about the length of a press by one round at most, even if
\* millis() wraps during the press (the subtraction in loop()).
THEOREM HoldIsMeasured == Spec => []MeasuresTheHold
  BY ButtonInvariant, MeasureFact, PTL

\* loop() acts on a press at most once and misses none that is longer than a
\* round (lastState and curState in loop()).
THEOREM PressesAreSeenOnce == Spec => []SeenOnce
<1>1. ButtonInv => SeenOnce
  BY ButtonAssumption
     DEF ButtonInv, TypeOK, CountInv, SeenOnce, Released
<1> QED
  BY <1>1, ButtonInvariant, PTL

\* A press that clears the count was held for ten seconds, but for one round.
THEOREM ClearsAreMeant == Spec => ClearIsMeant
<1>1. ASSUME ButtonInv, Next, seen' # seen, action' = "clear"
      PROVE  held + MaxRound >= TEN_SECONDS
  <2>1. Poll
    BY <1>1 DEF Next, Tick, Push, LetGo, code
  <2>2. Released /\ Verdict(PressMillis) = "clear"
    BY <1>1, <2>1 DEF Poll, Released
  <2>3. PressMillis \in (held - MaxRound)..(held + MaxRound)
    BY <1>1, <2>2, MeasureFact DEF MeasuresTheHold
  <2>4. ~(PressMillis < TEN_SECONDS)
    BY <2>2 DEF Verdict
  <2> QED
    BY <1>1, <2>3, <2>4, ButtonAssumption DEF ButtonInv, TypeOK
<1>2. ButtonInv /\ [Next]_vars =>
        [seen' # seen /\ action' = "clear" => held + MaxRound >= TEN_SECONDS]_vars
  BY <1>1
<1> QED
  BY <1>2, ButtonInvariant, PTL DEF Spec, ClearIsMeant

=============================================================================
