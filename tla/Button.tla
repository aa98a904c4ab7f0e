------------------------------- MODULE Button ------------------------------
(***************************************************************************)
(* Which press it was: the polling of BTN_PIN in loop().                   *)
(*                                                                         *)
(* loop() looks at the pin once in a round and measures a press with       *)
(* millis() from the round that saw it go up to the round that saw it go   *)
(* down.  A round takes as long as what it does: at least its delay(1),    *)
(* and two seconds more for each message.  Time is counted in ticks of any *)
(* length; millis() is an unsigned long, which wraps, and the difference   *)
(* is stored in a signed long.                                             *)
(***************************************************************************)
EXTENDS UnsignedInt

CONSTANTS
  ONE_SECOND, TEN_SECONDS, TWENTY_SECONDS,
  MaxRound,     \* the longest round of loop()
  MaxHold,      \* bound: the longest press
  MinUp,        \* the user leaves the button alone for this long
  MaxPresses    \* bound: presses

ASSUME ButtonAssumption ==
  /\ {ONE_SECOND, TEN_SECONDS, TWENTY_SECONDS} \subseteq Nat
  /\ 0 < ONE_SECOND
  /\ ONE_SECOND < TEN_SECONDS
  /\ TEN_SECONDS < TWENTY_SECONDS
  /\ MaxRound \in Nat \ {0}
  /\ MaxHold \in Nat
  /\ MaxHold + MaxRound <= LongMax
  /\ MinUp \in Nat /\ MinUp > MaxRound
  /\ MaxPresses \in Nat

VARIABLES
  now,            \* millis()
  pin,            \* BTN_PIN: TRUE is HIGH
  lastState,      \* the pin as the previous round saw it
  pressedMillis,  \* when a round saw it go up
  due,            \* time since the previous round looked
  held,           \* history: how long the current or last press took
  up,             \* history: how long the button has been up, at most MinUp
  presses,        \* history: presses that are over
  long,           \* history: those that took longer than MaxRound
  seen,           \* history: releases loop() has seen
  action          \* what it did about the last one

code == <<lastState, pressedMillis, seen, action>>
user == <<held, up, presses, long>>
vars == <<now, pin, due, code, user>>

Init ==
  /\ now \in Cnt
  /\ pin = FALSE /\ lastState = FALSE
  /\ pressedMillis = 0
  /\ due = 0
  /\ held = 0 /\ up = MinUp
  /\ presses = 0 /\ long = 0
  /\ seen = 0 /\ action = "none"

-----------------------------------------------------------------------------

\* Mutant of PressMillis: a difference without a width.
PressMillisUnbounded == now - pressedMillis

\* long pressMillis = releasedMillis - pressedMillis
PressMillis ==
  LET d == Wrap(now - pressedMillis)
  IN  IF d <= LongMax THEN d ELSE d - (MaxCnt + 1)

\* Mutant of Verdict: the tests are in the wrong order.
VerdictSwapped(press) ==
  IF press < ONE_SECOND THEN "save"
  ELSE IF press < TWENTY_SECONDS THEN "clear"
  ELSE "nothing"

\* SHORT: save; LONG: switch WiFi; MUCH LONGER: clear; longer still: nothing.
Verdict(press) ==
  IF press < ONE_SECOND THEN "save"
  ELSE IF press < TEN_SECONDS THEN "wifi"
  ELSE IF press < TWENTY_SECONDS THEN "clear"
  ELSE "nothing"

\* lastState = curState, after a mutant that remembers the press only.
StateAfterSticky == pin \/ lastState
StateAfter == pin

\* The button code in one round of loop().
Poll ==
  /\ due > 0
  /\ due' = 0
  /\ pressedMillis' = IF ~lastState /\ pin THEN now ELSE pressedMillis
  /\ IF lastState /\ ~pin
     THEN seen' = seen + 1 /\ action' = Verdict(PressMillis)
     ELSE UNCHANGED <<seen, action>>
  /\ lastState' = StateAfter
  /\ UNCHANGED <<now, pin, user>>

-----------------------------------------------------------------------------
(* Time and the user                                                       *)

Tick ==
  /\ due < MaxRound
  /\ pin => held < MaxHold
  /\ now' = Wrap(now + 1)
  /\ due' = due + 1
  /\ held' = IF pin THEN held + 1 ELSE held
  /\ up' = IF ~pin /\ up < MinUp THEN up + 1 ELSE up
  /\ UNCHANGED <<pin, code, presses, long>>

Push ==
  /\ ~pin /\ up >= MinUp /\ presses < MaxPresses
  /\ pin' = TRUE
  /\ held' = 0
  /\ UNCHANGED <<now, due, code, up, presses, long>>

LetGo ==
  /\ pin
  /\ pin' = FALSE
  /\ up' = 0
  /\ presses' = presses + 1
  /\ long' = IF held > MaxRound THEN long + 1 ELSE long
  /\ UNCHANGED <<now, due, code, held>>

Next == Poll \/ Tick \/ Push \/ LetGo

Spec == Init /\ [][Next]_vars

-----------------------------------------------------------------------------

\* The variables keep to their ranges.
TypeOK ==
  /\ now \in Cnt
  /\ pin \in BOOLEAN
  /\ lastState \in BOOLEAN
  /\ pressedMillis \in Cnt
  /\ due \in 0..MaxRound
  /\ held \in 0..MaxHold
  /\ up \in 0..MinUp
  /\ presses \in 0..MaxPresses
  /\ long \in 0..MaxPresses
  /\ seen \in 0..MaxPresses
  /\ action \in {"none", "save", "wifi", "clear", "nothing"}

\* A release that loop() has not looked at yet
Released == lastState /\ ~pin

\* loop() is wrong about the length of a press by one round at most, whenever
\* it looks, and even if millis() wraps during the press.
MeasuresTheHold ==
  Released => PressMillis \in (held - MaxRound)..(held + MaxRound)

\* loop() sees a press at most once, and none that took longer than a round
\* is missed.
SeenOnce ==
  /\ seen <= presses
  /\ ~Released => seen >= long

\* The count is never cleared by a press that was not held for ten seconds,
\* but for one round.
ClearIsMeant ==
  [][seen' # seen /\ action' = "clear" => held + MaxRound >= TEN_SECONDS]_vars

\* "a SHORT press is detected": a press of half a second at most saves.
TapSaves ==
  [][seen' # seen /\ 2 * held <= ONE_SECOND => action' = "save"]_vars

=============================================================================
