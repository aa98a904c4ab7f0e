---------------------------- MODULE ByterProofs ----------------------------
(***************************************************************************)
(* Theorems about the device, for every width of the count, every set of   *)
(* reports and parameters, every size of the receive buffer, with or       *)
(* without flash faults and power cuts.                                    *)
(***************************************************************************)
EXTENDS Byter, KeyReportProofs

\* How the place where loop() stands, the message on the panel, WiFi and the
\* LED go together between the steps.
PlaceInv ==
  /\ pc = "frame" => rx # <<>>
  /\ pc \in InText <=> task # "none"
  /\ task = "wifiOn" => isWifiOn
  /\ task = "wifiOff" => ~isWifiOn

\* displayNum() latches the flag with the page of a full count: while that
\* page is in the image or on the panel the flag is set.  (rw() may still be
\* counting then: it has looked at the flag before.)
DrawnIsLatched == Num(MaxCnt) \in {buffer, screen} => isOverflow

\* The inductive invariant.
DeviceInv ==
  /\ TypeOK
  /\ PlaceInv
  /\ LedFollowsWifi
  /\ DrawnIsLatched

LEMMA ImageFacts ==
  /\ \A n \in Cnt : Num(n) \in Images
  /\ \A t \in Texts : Text(t) \in Images
  /\ \A n : Num(n) = Num(MaxCnt) => n = MaxCnt
  /\ \A n, t : Text(t) # Num(n)
  BY DEF Images, Num, Text

\* The values setup() starts with, or a clear leaves.
LEMMA StartValues ==
  /\ 0 \in Cnt /\ MaxCnt \in Cnt
  /\ NoKeys \in [Slots -> ValidUsage \cup {0}]
  /\ <<>> \in Seq(Reports)
  /\ \A n \in Cnt : n >= MaxCnt <=> n = MaxCnt
  /\ \A n \in Cnt : (n >= MaxCnt) \in BOOLEAN
  BY MaxCntAssumption DEF Cnt, NoKeys

\* setup() establishes the invariant.
LEMMA DeviceInvInit == Init => DeviceInv
<1> SUFFICES ASSUME Init PROVE DeviceInv
  OBVIOUS
<1> USE DEF Init, ReadCnt
<1>1. TypeOK
  <2>1. isOverflow \in BOOLEAN
    BY StartValues
  <2>2. buffer \in Images /\ screen \in Images
    BY ImageFacts
  <2>3. cnt \in Cnt /\ flash \in Cnt
    OBVIOUS
  <2>4. last \in [Slots -> ValidUsage \cup {0}] /\ rx \in Seq(Reports)
    BY StartValues
  <2>5. pc \in Places /\ task \in ButtonTasks \cup EventTasks \cup {"none"}
    BY DEF Places, Yielding
  <2>6. event \in 0..2
    OBVIOUS
  <2>7. isWifiOn \in BOOLEAN /\ led \in BOOLEAN /\ unseen \in BOOLEAN
    OBVIOUS
  <2> HIDE DEF Init
  <2> QED
    BY <2>1, <2>2, <2>3, <2>4, <2>5, <2>6, <2>7 DEF TypeOK
<1>2. PlaceInv /\ LedFollowsWifi
  BY DEF PlaceInv, LedFollowsWifi, InText
<1>3. DrawnIsLatched
  BY ImageFacts, StartValues DEF DrawnIsLatched
<1> QED
  BY <1>1, <1>2, <1>3 DEF DeviceInv

\* What a commit leaves in the sector is a count.
LEMMA FlashType ==
  ASSUME NEW f \in Cnt, NEW c \in Cnt
  PROVE  /\ \A out \in WriteOutcomes(f, c) : out.flash \in Cnt
         /\ ClearOutcomes(f) \subseteq Cnt
  BY MaxCntAssumption
     DEF WriteOutcomes, ClearOutcomes, Damage, Blank, Cnt

\* Every step keeps the variables within their types.
LEMMA TypeStep ==
  ASSUME TypeOK, PlaceInv, [Next]_vars
  PROVE  TypeOK'
<1> USE DEF TypeOK, Places, Yielding, InText, ButtonTasks, EventTasks,
            panel, keys, wifi
<1>1. CASE LoopStart
  BY <1>1 DEF LoopStart
<1>2. CASE Available
  BY <1>2 DEF Available
<1>3. CASE CountReport
  <2> DEFINE v == Head(rx)
  <2>1. rx # <<>>
    BY <1>3 DEF CountReport, PlaceInv
  <2>2. v \in [Slots -> Usage] /\ Tail(rx) \in Seq(Reports)
    BY <2>1, ByterAssumption
  <2>3. last' \in [Slots -> ValidUsage \cup {0}]
    BY <1>3, <2>2, LatchType DEF CountReport
  <2>4. cnt' \in Cnt
    BY <1>3, TallyType DEF CountReport
  <2>5. /\ buffer' \in Images
        /\ isOverflow' \in BOOLEAN /\ unseen' \in BOOLEAN
        /\ pc' \in {"rw", "rwNum"}
    BY <1>3, <2>4, ImageFacts DEF CountReport, DisplayNum
  <2> QED
    BY <1>3, <2>2, <2>3, <2>4, <2>5 DEF CountReport
<1>4. CASE RwShown
  BY <1>4 DEF RwShown
<1>5. CASE NoPress
  BY <1>5 DEF NoPress
<1>6. CASE ShortPress
  BY <1>6, FlashType, ImageFacts DEF ShortPress, DisplayText, Texts
<1>7. CASE LongPress
  BY <1>7, ImageFacts DEF LongPress, DisplayText, Texts
<1>8. CASE MuchLongerPress
  BY <1>8, FlashType, ImageFacts, StartValues
     DEF MuchLongerPress, ManualClear, DisplayText, Texts
<1>9. CASE TextShown
  BY <1>9 DEF TextShown
<1>10. CASE WaitOver
  BY <1>10, ImageFacts DEF WaitOver, DisplayNum
<1>11. CASE ButtonDone
  BY <1>11 DEF ButtonDone, LedAfter
<1>12. CASE EventDone
  BY <1>12 DEF EventDone
<1>13. CASE NoEvent
  BY <1>13 DEF NoEvent
<1>14. CASE ClearEvent
  BY <1>14, FlashType, ImageFacts, StartValues
     DEF ClearEvent, ManualClear, DisplayText, Texts
<1>15. CASE SetEvent
  BY <1>15, ImageFacts DEF SetEvent, DisplayText, Texts
<1>16. CASE WebClear
  BY <1>16 DEF WebClear
<1>17. ASSUME NEW p \in SetParams, WebSet(p)
       PROVE  TypeOK'
  <2>1. ToInt(p) \in Int
    BY ByterAssumption, ToIntFacts, MaxCntAssumption
       DEF LongMin, LongMax, Half
  <2>2. cnt' \in Cnt
    BY <1>17, <2>1, WrapFacts DEF WebSet
  <2>3. unseen' \in BOOLEAN
    BY <1>17 DEF WebSet
  <2> QED
    BY <1>17, <2>2, <2>3 DEF WebSet
<1>18. CASE TickerSave
  BY <1>18, FlashType DEF TickerSave
<1>19. ASSUME NEW v \in Reports, Arrive(v)
       PROVE  TypeOK'
  <2>1. rx' \in Seq(Reports)
    BY <1>19, ByterAssumption DEF Arrive
  <2> QED
    BY <1>19, <2>1 DEF Arrive
<1>20. CASE PowerCycle
  <2>1. flash' \in Cnt
    BY <1>20, StartValues DEF PowerCycle, TornFlash, Blank
  <2>2. isOverflow' \in BOOLEAN
    BY <1>20, <2>1, StartValues DEF PowerCycle, ReadCnt
  <2>3. buffer' \in Images /\ screen' \in Images /\ cnt' \in Cnt
    BY <1>20, <2>1, ImageFacts DEF PowerCycle, ReadCnt
  <2>4. last' \in [Slots -> ValidUsage \cup {0}] /\ rx' \in Seq(Reports)
    BY <1>20, StartValues DEF PowerCycle
  <2>5. /\ pc' \in Places
        /\ task' \in ButtonTasks \cup EventTasks \cup {"none"}
    BY <1>20 DEF PowerCycle
  <2>6. event' \in 0..2
    BY <1>20 DEF PowerCycle
  <2>7. isWifiOn' \in BOOLEAN /\ led' \in BOOLEAN /\ unseen' \in BOOLEAN
    BY <1>20 DEF PowerCycle
  <2> QED
    BY <2>1, <2>2, <2>3, <2>4, <2>5, <2>6, <2>7
<1>21. CASE UNCHANGED vars
  BY <1>21 DEF vars
<1> QED
  BY <1>1, <1>2, <1>3, <1>4, <1>5, <1>6, <1>7, <1>8, <1>9, <1>10, <1>11,
     <1>12, <1>13, <1>14, <1>15, <1>16, <1>17, <1>18, <1>19, <1>20, <1>21
     DEF Next, Loop, System, Environment

\* Every step keeps place, message, WiFi and LED together.
LEMMA PlaceStep ==
  ASSUME TypeOK, PlaceInv, LedFollowsWifi, [Next]_vars
  PROVE  PlaceInv' /\ LedFollowsWifi'
<1> USE DEF TypeOK, PlaceInv, LedFollowsWifi, InText, Yielding,
            ButtonTasks, EventTasks, panel, keys, wifi
<1>1. CASE LoopStart
  BY <1>1 DEF LoopStart
<1>2. CASE Available
  BY <1>2 DEF Available
<1>3. CASE CountReport
  <2>1. pc' \in {"rw", "rwNum"} /\ UNCHANGED <<task, isWifiOn, led>>
    BY <1>3 DEF CountReport, DisplayNum
  <2> QED
    BY <1>3, <2>1 DEF CountReport
<1>4. CASE RwShown
  BY <1>4 DEF RwShown
<1>5. CASE NoPress
  BY <1>5 DEF NoPress
<1>6. CASE ShortPress
  <2>1. pc' = "text" /\ task' = "save" /\ UNCHANGED <<isWifiOn, led, rx>>
    BY <1>6 DEF ShortPress, DisplayText
  <2> QED
    BY <1>6, <2>1 DEF ShortPress
<1>7. CASE LongPress
  BY <1>7 DEF LongPress, DisplayText
<1>8. CASE MuchLongerPress
  BY <1>8 DEF MuchLongerPress, ManualClear, DisplayText
<1>9. CASE TextShown
  BY <1>9 DEF TextShown
<1>10. CASE WaitOver
  BY <1>10 DEF WaitOver
<1>11. CASE ButtonDone
  BY <1>11 DEF ButtonDone, LedAfter
<1>12. CASE EventDone
  BY <1>12 DEF EventDone
<1>13. CASE NoEvent
  BY <1>13 DEF NoEvent
<1>14. CASE ClearEvent
  BY <1>14 DEF ClearEvent, ManualClear, DisplayText
<1>15. CASE SetEvent
  BY <1>15 DEF SetEvent, DisplayText
<1>16. CASE WebClear
  BY <1>16 DEF WebClear
<1>17. ASSUME NEW p \in SetParams, WebSet(p)
       PROVE  PlaceInv' /\ LedFollowsWifi'
  BY <1>17 DEF WebSet
<1>18. CASE TickerSave
  BY <1>18 DEF TickerSave
<1>19. ASSUME NEW v \in Reports, Arrive(v)
       PROVE  PlaceInv' /\ LedFollowsWifi'
  <2>1. rx' # <<>>
    <3>1. Tail(rx) \in Seq(Reports) \/ rx = <<>>
      OBVIOUS
    <3>2. \A q \in Seq(Reports) : Append(q, v) # <<>>
      OBVIOUS
    <3>3. Len(<<>>) < RxCap
      BY ByterAssumption
    <3> QED
      BY <1>19, <3>1, <3>2, <3>3 DEF Arrive
  <2> QED
    BY <1>19, <2>1 DEF Arrive
<1>20. CASE PowerCycle
  BY <1>20 DEF PowerCycle
<1>21. CASE UNCHANGED vars
  BY <1>21 DEF vars
<1> QED
  BY <1>1, <1>2, <1>3, <1>4, <1>5, <1>6, <1>7, <1>8, <1>9, <1>10, <1>11,
     <1>12, <1>13, <1>14, <1>15, <1>16, <1>17, <1>18, <1>19, <1>20, <1>21
     DEF Next, Loop, System, Environment

\* Every step that draws or shows an image latches the flag with it.
LEMMA OverflowStep ==
  ASSUME TypeOK, TypeOK', DrawnIsLatched, [Next]_vars
  PROVE  DrawnIsLatched'
<1> USE ImageFacts, StartValues DEF DrawnIsLatched, panel, keys, wifi
<1>1. ASSUME NEW n \in Cnt, DisplayNum(n), UNCHANGED screen
      PROVE  DrawnIsLatched'
  BY <1>1 DEF DisplayNum
<1>2. ASSUME NEW t \in Texts, NEW c, DisplayText(t, c),
             UNCHANGED <<screen, isOverflow>>
      PROVE  DrawnIsLatched'
  BY <1>2 DEF DisplayText
<1>3. ASSUME screen' = buffer, UNCHANGED <<buffer, isOverflow>>
      PROVE  DrawnIsLatched'
  BY <1>3
<1>4. ASSUME UNCHANGED <<panel, isOverflow>>
      PROVE  DrawnIsLatched'
  BY <1>4
<1>5. CASE CountReport
  <2>1. cnt' \in Cnt
    BY DEF TypeOK
  <2> QED
    BY <1>1, <1>4, <1>5, <2>1 DEF CountReport
<1>6. CASE WaitOver
  <2>1. cnt \in Cnt
    BY DEF TypeOK
  <2> QED
    BY <1>1, <1>6, <2>1 DEF WaitOver
<1>7. CASE ShortPress \/ LongPress \/ MuchLongerPress \/ ClearEvent \/ SetEvent
  BY <1>2, <1>7 DEF ShortPress, LongPress, MuchLongerPress, ClearEvent,
     SetEvent, ManualClear, Texts
<1>8. CASE RwShown \/ TextShown \/ ButtonDone \/ EventDone
  BY <1>3, <1>8 DEF RwShown, TextShown, ButtonDone, EventDone
<1>9. CASE LoopStart \/ Available \/ NoPress \/ NoEvent
  BY <1>4, <1>9 DEF LoopStart, Available, NoPress, NoEvent
<1>10. CASE System
  BY <1>4, <1>10 DEF System, WebClear, WebSet, TickerSave
<1>11. CASE \E v \in Reports : Arrive(v)
  BY <1>4, <1>11 DEF Arrive
<1>12. CASE PowerCycle
  <2>1. cnt' \in Cnt
    BY DEF TypeOK
  <2> QED
    BY <1>12, <2>1 DEF PowerCycle
<1>13. CASE UNCHANGED vars
  BY <1>4, <1>13 DEF vars
<1> QED
  BY <1>5, <1>6, <1>7, <1>8, <1>9, <1>10, <1>11, <1>12, <1>13
     DEF Next, Loop, Environment

-----------------------------------------------------------------------------

THEOREM DeviceInvariant == Spec => []DeviceInv
<1>1. DeviceInv /\ [Next]_vars => DeviceInv'
  BY TypeStep, PlaceStep, OverflowStep DEF DeviceInv
<1> QED
  BY <1>1, DeviceInvInit, PTL DEF Spec

\* Every variable keeps to its type, whatever reports arrive.
THEOREM TypeCorrect == Spec => []TypeOK
<1>1. DeviceInv => TypeOK
  BY DEF DeviceInv
<1> QED
  BY <1>1, DeviceInvariant, PTL

\* The LED follows WiFi (enableWifi(), disableWifi()).
THEOREM LedCorrect == Spec => []LedFollowsWifi
<1>1. DeviceInv => LedFollowsWifi
  BY DEF DeviceInv
<1> QED
  BY <1>1, DeviceInvariant, PTL

-----------------------------------------------------------------------------

\* A commit() that reports success has programmed the count.
LEMMA OkMeansWritten ==
  ASSUME NEW f, NEW c, NEW out \in WriteOutcomes(f, c), out.ok
  PROVE  out.flash = c
<1>1. CASE f = c
  BY <1>1 DEF WriteOutcomes
<1>2. CASE f # c
  <2>1. \A g \in Damage(f) : out # [flash |-> g, ok |-> FALSE]
    OBVIOUS
  <2>2. out # [flash |-> c, ok |-> FALSE]
    OBVIOUS
  <2>3. out = [flash |-> c, ok |-> TRUE]
    BY <1>2, <2>1, <2>2 DEF WriteOutcomes
  <2> QED
    BY <2>3
<1> QED
  BY <1>1, <1>2

\* Only manualWriteCnt() says "Saved !", and only when the first commit() did
\* what it should.
THEOREM SavedCorrect == Spec => SavedIsSaved
<1> DEFINE Said == buffer' = Text("Saved !") /\ buffer # buffer'
<1>1. ASSUME Next, Said PROVE flash' = cnt
  <2> USE <1>1, ImageFacts DEF panel, keys, wifi
  <2>1. CASE ShortPress
    <3>1. PICK out \in WriteOutcomes(flash, cnt) :
             /\ flash' = out.flash
             /\ buffer' = Text(IF out.ok THEN "Saved !" ELSE "Save Failed !")
      BY <2>1 DEF ShortPress, DisplayText
    <3>2. CASE out.ok
      BY <3>1, <3>2, OkMeansWritten
    <3>3. CASE ~out.ok
      <4>1. buffer' = Text("Save Failed !")
        BY <3>1, <3>3
      <4>2. Text("Save Failed !") # Text("Saved !")
        BY DEF Text
      <4> QED
        BY <4>1, <4>2
    <3> QED
      BY <3>2, <3>3
  <2>2. CASE CountReport \/ WaitOver \/ PowerCycle
    BY <2>2 DEF CountReport, WaitOver, PowerCycle, DisplayNum
  <2>3. CASE LongPress \/ MuchLongerPress \/ ClearEvent \/ SetEvent
    BY <2>3 DEF LongPress, MuchLongerPress, ClearEvent, SetEvent,
       ManualClear, DisplayText, Text
  <2>4. CASE \/ LoopStart \/ Available \/ RwShown \/ NoPress \/ TextShown
             \/ ButtonDone \/ EventDone \/ NoEvent
    BY <2>4 DEF LoopStart, Available, RwShown, NoPress, TextShown,
       ButtonDone, EventDone, NoEvent
  <2>5. CASE System
    BY <2>5 DEF System, WebClear, WebSet, TickerSave
  <2>6. CASE \E v \in Reports : Arrive(v)
    BY <2>6 DEF Arrive
  <2> QED
    BY <2>1, <2>2, <2>3, <2>4, <2>5, <2>6 DEF Next, Loop, Environment
<1>2. [Next]_vars => [Said => flash' = cnt]_vars
  BY <1>1
<1> QED
  BY <1>2, PTL DEF Spec, SavedIsSaved

-----------------------------------------------------------------------------
(* The device implements StrokeCounter.                                    *)

LEMMA CounterInit == Init => Counter!Init
  BY StartValues DEF Init, Counter!Init, ReadCnt, Counter!ReadCnt, InRw,
     Cnt, Counter!Cnt

\* Nothing StrokeCounter speaks of changes.
LEMMA CounterStutter ==
  ASSUME UNCHANGED <<cnt, flash, isOverflow>>, pc \in InRw <=> pc' \in InRw
  PROVE  UNCHANGED Counter!cvars
  BY DEF Counter!cvars

\* A report is a step of strokes, or no step at all.
LEMMA CounterStrokes ==
  ASSUME DeviceInv, DeviceInv', CountReport
  PROVE  Counter!Next
<1> DEFINE v == Head(rx)
           up == Incr(last, v)
           back == Cardinality(Phantoms(v))
<1>1. up \in 0..6 /\ back \in 0..2
  BY IncrRange, PhantomRange
<1>2. cnt' = Counter!Wrap(cnt - back + up)
  BY DEF CountReport, Tally, Wrap, Counter!Wrap
<1>3. isOverflow' = (isOverflow \/ (up > 0 /\ cnt' = MaxCnt))
  <2>1. cnt' \in Cnt /\ isOverflow \in BOOLEAN
    BY DEF DeviceInv, TypeOK
  <2>2. CASE up = 0
    BY <2>1, <2>2 DEF CountReport
  <2>3. CASE up # 0
    BY <1>1, <2>1, <2>3, StartValues DEF CountReport, DisplayNum
  <2> QED
    BY <2>2, <2>3
<1>4. pc \in InRw /\ pc' \in InRw /\ flash' = flash
  BY DEF CountReport, InRw
<1>5. Counter!Strokes(up, back)
  BY <1>2, <1>3, <1>4 DEF Counter!Strokes
<1> QED
  BY <1>1, <1>5 DEF Counter!Next

\* Every step of the device is a step of StrokeCounter or none.
LEMMA CounterStep ==
  ASSUME DeviceInv, DeviceInv', [Next]_vars
  PROVE  [Counter!Next]_(Counter!cvars)
<1> USE CounterStutter DEF InRw, Yielding, panel, keys, wifi
<1>1. CASE LoopStart
  <2>1. CASE isOverflow
    BY <1>1, <2>1 DEF LoopStart
  <2>2. CASE ~isOverflow
    BY <1>1, <2>2 DEF LoopStart, Counter!cvars
  <2> QED
    BY <2>1, <2>2
<1>2. CASE Available
  <2>1. CASE rx # <<>>
    BY <1>2, <2>1 DEF Available
  <2>2. CASE rx = <<>> /\ isOverflow
    BY <1>2, <2>2 DEF Available, Counter!Next, Counter!Stop
  <2>3. CASE rx = <<>> /\ ~isOverflow
    BY <1>2, <2>3 DEF Available, Counter!cvars
  <2> QED
    BY <2>1, <2>2, <2>3
<1>3. CASE CountReport
  BY <1>3, CounterStrokes
<1>4. CASE RwShown
  BY <1>4 DEF RwShown
<1>5. CASE NoPress \/ NoEvent \/ TextShown
  BY <1>5 DEF NoPress, NoEvent, TextShown
<1>6. CASE LongPress \/ SetEvent
  BY <1>6 DEF LongPress, SetEvent, DisplayText
<1>7. CASE ButtonDone \/ EventDone
  BY <1>7 DEF ButtonDone, EventDone
<1>8. CASE ShortPress \/ TickerSave
  <2>1. \E out \in Counter!WriteOutcomes(flash, cnt) : flash' = out.flash
    BY <1>8 DEF ShortPress, TickerSave, WriteOutcomes,
       Counter!WriteOutcomes, Damage, Counter!Damage, Blank, Counter!Blank
  <2>2. UNCHANGED <<cnt, isOverflow>> /\ (pc \in InRw <=> pc' \in InRw)
    BY <1>8 DEF ShortPress, TickerSave, DisplayText
  <2>3. Counter!Save
    BY <2>1, <2>2 DEF Counter!Save
  <2> QED
    BY <2>3 DEF Counter!Next
<1>9. CASE MuchLongerPress \/ ClearEvent
  <2>1. flash' \in Counter!ClearOutcomes(flash)
    BY <1>9 DEF MuchLongerPress, ClearEvent, ManualClear, ClearOutcomes,
       Counter!ClearOutcomes, Damage, Counter!Damage, Blank, Counter!Blank
  <2>2. /\ cnt' = 0 /\ UNCHANGED isOverflow
        /\ pc \in InRw <=> pc' \in InRw
    BY <1>9 DEF MuchLongerPress, ClearEvent, ManualClear, DisplayText
  <2>3. Counter!Clear
    BY <2>1, <2>2 DEF Counter!Clear
  <2> QED
    BY <2>3 DEF Counter!Next
<1>10. CASE WaitOver
  <2>1. CASE cnt = MaxCnt
    <3>1. isOverflow' = TRUE /\ UNCHANGED <<cnt, flash>> /\ pc' \notin InRw
      BY <1>10, <2>1, StartValues DEF WaitOver, DisplayNum
    <3>2. Counter!Stop
      BY <2>1, <3>1 DEF Counter!Stop
    <3> QED
      BY <3>2 DEF Counter!Next
  <2>2. CASE cnt # MaxCnt
    <3>1. isOverflow' = isOverflow
      BY <1>10, <2>2, StartValues DEF WaitOver, DisplayNum, DeviceInv, TypeOK
    <3> QED
      BY <1>10, <3>1 DEF WaitOver
  <2> QED
    BY <2>1, <2>2
<1>11. CASE WebClear
  BY <1>11 DEF WebClear
<1>12. ASSUME NEW p \in SetParams, WebSet(p)
       PROVE  Counter!Next
  <2>1. Counter!Assign
    BY <1>12 DEF WebSet, Counter!Assign
  <2> QED
    BY <2>1 DEF Counter!Next
<1>13. CASE \E v \in Reports : Arrive(v)
  BY <1>13 DEF Arrive
<1>14. CASE PowerCycle
  <2>1. /\ PowerCuts
        /\ flash' \in {flash, Counter!TornFlash}
        /\ cnt' = Counter!ReadCnt(flash')
        /\ pc' \notin InRw
    BY <1>14 DEF PowerCycle, TornFlash, Counter!TornFlash, Blank,
       Counter!Blank, ReadCnt, Counter!ReadCnt
  <2>2. isOverflow' = (cnt' = MaxCnt)
    BY <1>14, StartValues DEF PowerCycle, DeviceInv, TypeOK
  <2>3. Counter!Restart
    BY <2>1, <2>2 DEF Counter!Restart
  <2> QED
    BY <2>3 DEF Counter!Next
<1>15. CASE UNCHANGED vars
  BY <1>15 DEF vars
<1> QED
  BY <1>1, <1>2, <1>3, <1>4, <1>5, <1>6, <1>7, <1>8, <1>9, <1>10, <1>11,
     <1>12, <1>13, <1>14, <1>15 DEF Next, Loop, System, Environment

\* The detailed device implements the abstract counter, for every width of
\* the count and every kind of report (byter.ino as a whole).
THEOREM DeviceIsCounter == Spec => CounterSpec
<1>1. DeviceInv /\ DeviceInv' /\ [Next]_vars
        => [Counter!Next]_(Counter!cvars)
  BY CounterStep
<1> QED
  BY <1>1, CounterInit, DeviceInvariant, PTL DEF Spec, CounterSpec, Counter!Spec

-----------------------------------------------------------------------------
(* The panel                                                               *)

\* Outside a message the panel shows the count, or is about to, or an event is
\* pending that will show it, or nothing is.  In the number after a message of
\* the event code a pending event does not help: it will be forgotten.
PanelInv ==
  /\ pc \in {"idle", "rw", "frame", "button", "event"} /\ event = 0 /\ ~unseen
       => screen = Num(cnt)
  /\ pc = "rwNum" /\ event = 0 /\ ~unseen => buffer = Num(cnt)
  /\ pc = "num" /\ task \in ButtonTasks => buffer = Num(cnt) \/ event # 0
  /\ pc = "num" /\ task \in EventTasks => buffer = Num(cnt) \/ unseen

LEMMA PanelStep ==
  ASSUME DeviceInv, PanelInv, [Next]_vars
  PROVE  PanelInv'
<1> USE DEF PanelInv, panel, keys, wifi, ButtonTasks, EventTasks
<1>1. CASE CountReport
  <2> DEFINE v == Head(rx)
  <2>1. cnt \in Cnt /\ v \in Reports
    BY <1>1 DEF CountReport, DeviceInv, TypeOK, PlaceInv
  <2>2. CASE Incr(last, v) = 0 /\ Phantoms(v) = {}
    <3>1. cnt' = cnt
      BY <1>1, <2>1, <2>2, TallyIdle DEF CountReport
    <3>2. /\ pc = "frame" /\ pc' = "rw" /\ UNCHANGED <<event, screen>>
          /\ unseen' = (unseen \/ Phantoms(v) # {})
      BY <1>1, <2>2 DEF CountReport
    <3> QED
      BY <2>2, <3>1, <3>2
  <2>3. CASE Incr(last, v) = 0 /\ Phantoms(v) # {}
    <3>1. pc' = "rw" /\ unseen' = (unseen \/ Phantoms(v) # {})
      BY <1>1, <2>3 DEF CountReport
    <3> QED
      BY <2>3, <3>1
  <2>4. CASE Incr(last, v) # 0
    BY <1>1, <2>4 DEF CountReport, DisplayNum
  <2> QED
    BY <2>2, <2>3, <2>4
<1>2. CASE LoopStart \/ Available \/ RwShown \/ NoPress \/ NoEvent
  BY <1>2 DEF LoopStart, Available, RwShown, NoPress, NoEvent
<1>3. CASE ShortPress \/ LongPress \/ MuchLongerPress \/ ClearEvent \/ SetEvent
  BY <1>3 DEF ShortPress, LongPress, MuchLongerPress, ClearEvent, SetEvent,
     ManualClear, DisplayText
<1>4. CASE TextShown \/ WaitOver
  BY <1>4 DEF TextShown, WaitOver, DisplayNum
<1>5. CASE ButtonDone
  BY <1>5 DEF ButtonDone
<1>6. CASE EventDone
  BY <1>6 DEF EventDone
<1>7. CASE WebClear \/ TickerSave
  BY <1>7 DEF WebClear, TickerSave
<1>8. ASSUME NEW p \in SetParams, WebSet(p)
      PROVE  PanelInv'
  <2>1. /\ event' = 2 /\ UNCHANGED <<pc, task>>
        /\ pc = "num" /\ task \in EventTasks => unseen'
    BY <1>8 DEF WebSet
  <2> QED
    BY <2>1
<1>9. CASE Environment
  BY <1>9 DEF Environment, Arrive, PowerCycle
<1>10. CASE UNCHANGED vars
  BY <1>10 DEF vars
<1> QED
  BY <1>1, <1>2, <1>3, <1>4, <1>5, <1>6, <1>7, <1>8, <1>9, <1>10
     DEF Next, Loop, System

THEOREM PanelInvariant == Spec => []PanelInv
<1>1. Init => PanelInv
  BY DEF Init, PanelInv
<1>2. DeviceInv /\ PanelInv /\ [Next]_vars => PanelInv'
  BY PanelStep
<1> QED
  BY <1>1, <1>2, DeviceInvariant, PTL DEF Spec

\* The panel shows the count whenever loop() is between two rounds and no
\* event is pending, but for strokes taken back in a report that completes
\* none and for a /set that comes too late for the event code and is forgotten
\* (rw(), displayText(), WebSet, EventDone).
THEOREM PanelCorrect == Spec => []PanelShowsCount
<1>1. PanelInv => PanelShowsCount
  BY DEF PanelInv, PanelShowsCount
<1> QED
  BY <1>1, PanelInvariant, PTL

\* A step either keeps a full count latched, pending or unseen, or latches it.
LEMMA FullStep ==
  ASSUME DeviceInv, DeviceInv', PanelInv, FullIsLatched, [Next]_vars
  PROVE  FullIsLatched'
<1> USE StartValues DEF FullIsLatched, panel, keys, wifi
<1>1. CASE CountReport
  <2> DEFINE v == Head(rx)
  <2>1. cnt \in Cnt /\ cnt' \in Cnt /\ v \in Reports
    BY <1>1 DEF CountReport, DeviceInv, TypeOK, PlaceInv
  <2>2. CASE Incr(last, v) = 0 /\ Phantoms(v) = {}
    <3>1. cnt' = cnt
      BY <1>1, <2>1, <2>2, TallyIdle DEF CountReport
    <3>2. /\ UNCHANGED <<event, isOverflow>>
          /\ unseen' = (unseen \/ Phantoms(v) # {})
      BY <1>1, <2>2 DEF CountReport
    <3> QED
      BY <2>2, <3>1, <3>2
  <2>3. CASE Incr(last, v) = 0 /\ Phantoms(v) # {}
    BY <1>1, <2>3 DEF CountReport
  <2>4. CASE Incr(last, v) # 0
    BY <1>1, <2>1, <2>4 DEF CountReport, DisplayNum
  <2> QED
    BY <2>2, <2>3, <2>4
<1>2. CASE \/ LoopStart \/ Available \/ RwShown \/ NoPress \/ NoEvent
           \/ TextShown \/ ButtonDone
  BY <1>2 DEF LoopStart, Available, RwShown, NoPress, NoEvent, TextShown,
     ButtonDone
<1>3. CASE ShortPress \/ LongPress \/ SetEvent
  BY <1>3 DEF ShortPress, LongPress, SetEvent, DisplayText
<1>4. CASE MuchLongerPress \/ ClearEvent
  BY <1>4, MaxCntAssumption
     DEF MuchLongerPress, ClearEvent, ManualClear, DisplayText
<1>5. CASE WaitOver
  <2>1. cnt \in Cnt
    BY DEF DeviceInv, TypeOK
  <2> QED
    BY <1>5, <2>1 DEF WaitOver, DisplayNum
<1>6. CASE EventDone
  <2>1. buffer = Num(cnt) \/ unseen
    BY <1>6 DEF EventDone, PanelInv
  <2>2. UNCHANGED <<cnt, isOverflow, unseen>>
    BY <1>6 DEF EventDone
  <2> QED
    BY <2>1, <2>2 DEF DeviceInv, DrawnIsLatched
<1>7. CASE WebClear \/ TickerSave
  BY <1>7 DEF WebClear, TickerSave
<1>8. ASSUME NEW p \in SetParams, WebSet(p)
      PROVE  FullIsLatched'
  BY <1>8 DEF WebSet
<1>9. CASE \E v \in Reports : Arrive(v)
  BY <1>9 DEF Arrive
<1>10. CASE PowerCycle
  <2>1. cnt' \in Cnt
    BY DEF DeviceInv, TypeOK
  <2> QED
    BY <1>10, <2>1 DEF PowerCycle
<1>11. CASE UNCHANGED vars
  BY <1>11 DEF vars
<1> QED
  BY <1>1, <1>2, <1>3, <1>4, <1>5, <1>6, <1>7, <1>8, <1>9, <1>10, <1>11
     DEF Next, Loop, System, Environment

\* A full count has latched the overflow flag, unless the message of an event
\* is still to come or the panel never shows it (displayNum(), setup()).
THEOREM FullLatched == Spec => []FullIsLatched
<1>1. Init => FullIsLatched
  BY StartValues DEF Init, FullIsLatched, ReadCnt
<1>2. DeviceInv /\ DeviceInv' /\ PanelInv /\ FullIsLatched /\ [Next]_vars
        => FullIsLatched'
  BY FullStep
<1> QED
  BY <1>1, <1>2, DeviceInvariant, PanelInvariant, PTL DEF Spec

-----------------------------------------------------------------------------
(* Clearing                                                                *)

LEMMA ClearStep ==
  ASSUME SetParams = {}, FlashFaults = FALSE,
         DeviceInv, ClearIsWhole, [Next]_vars
  PROVE  ClearIsWhole'
<1> USE DEF ClearIsWhole, panel, keys, wifi
<1>1. CASE CountReport
  <2>1. task = "none" /\ task' = task
    BY <1>1 DEF CountReport, DeviceInv, PlaceInv, TypeOK, InText
  <2> QED
    BY <2>1
<1>2. CASE \/ LoopStart \/ Available \/ RwShown \/ NoPress \/ NoEvent
           \/ TextShown \/ WaitOver
  BY <1>2 DEF LoopStart, Available, RwShown, NoPress, NoEvent, TextShown,
     WaitOver
<1>3. CASE ShortPress \/ LongPress \/ SetEvent
  BY <1>3 DEF ShortPress, LongPress, SetEvent, DisplayText
<1>4. CASE MuchLongerPress \/ ClearEvent
  BY <1>4 DEF MuchLongerPress, ClearEvent, ManualClear, DisplayText,
     ClearOutcomes, Damage
<1>5. CASE ButtonDone \/ EventDone
  BY <1>5 DEF ButtonDone, EventDone
<1>6. CASE WebClear
  BY <1>6 DEF WebClear
<1>7. CASE TickerSave
  <2>1. flash' = cnt
    BY <1>7 DEF TickerSave, WriteOutcomes, Damage
  <2> QED
    BY <1>7, <2>1 DEF TickerSave
<1>8. CASE Environment
  BY <1>8 DEF Environment, Arrive, PowerCycle
<1>9. CASE UNCHANGED vars
  BY <1>9 DEF vars
<1> QED
  BY <1>1, <1>2, <1>3, <1>4, <1>5, <1>6, <1>7, <1>8, <1>9
     DEF Next, Loop, System

\* With a flash that works and no /set, nothing, the save timer included, can
\* bring the old count back while "Cleared !" is up (manualClearCnt()).
THEOREM ClearCorrect ==
  ASSUME SetParams = {}, FlashFaults = FALSE
  PROVE  Spec => []ClearIsWhole
<1>1. Init => ClearIsWhole
  BY DEF Init, ClearIsWhole
<1>2. DeviceInv /\ ClearIsWhole /\ [Next]_vars => ClearIsWhole'
  BY ClearStep
<1> QED
  BY <1>1, <1>2, DeviceInvariant, PTL DEF Spec

-----------------------------------------------------------------------------
(* Events that are late                                                    *)

\* Without /set the only message of the event code is that of a clear, and
\* the count is 0 from its beginning to the end of its event.
ClearingInv ==
  /\ event # 2 /\ task # "setEvent"
  /\ task = "clearEvent" => cnt = 0

LEMMA ClearingStep ==
  ASSUME SetParams = {}, DeviceInv, ClearingInv, [Next]_vars
  PROVE  ClearingInv'
<1> USE DEF ClearingInv, panel, keys, wifi
<1>1. CASE CountReport
  <2>1. task = "none" /\ task' = task /\ event' = event
    BY <1>1 DEF CountReport, DeviceInv, PlaceInv, TypeOK, InText
  <2> QED
    BY <2>1
<1>2. CASE \/ LoopStart \/ Available \/ RwShown \/ NoPress \/ NoEvent
           \/ TextShown \/ WaitOver
  BY <1>2 DEF LoopStart, Available, RwShown, NoPress, NoEvent, TextShown,
     WaitOver
<1>3. CASE ShortPress \/ LongPress \/ SetEvent
  BY <1>3 DEF ShortPress, LongPress, SetEvent, DisplayText
<1>4. CASE MuchLongerPress \/ ClearEvent
  BY <1>4 DEF MuchLongerPress, ClearEvent, ManualClear, DisplayText
<1>5. CASE ButtonDone \/ EventDone
  BY <1>5 DEF ButtonDone, EventDone
<1>6. CASE System
  BY <1>6 DEF System, WebClear, TickerSave
<1>7. CASE Environment
  BY <1>7 DEF Environment, Arrive, PowerCycle
<1>8. CASE UNCHANGED vars
  BY <1>8 DEF vars
<1> QED
  BY <1>1, <1>2, <1>3, <1>4, <1>5, <1>6, <1>7, <1>8 DEF Next, Loop

\* Without /set and power cuts, "event = 0" never drops a request to clear
\* that came in while another message was up (the end of loop()).
THEOREM ClearNotDropped ==
  ASSUME SetParams = {}, PowerCuts = FALSE
  PROVE  Spec => ClearIsNotDropped
<1>1. Init => ClearingInv
  BY DEF Init, ClearingInv
<1>2. DeviceInv /\ ClearingInv /\ [Next]_vars => ClearingInv'
  BY ClearingStep
<1>3. ASSUME DeviceInv, ClearingInv, [Next]_vars
      PROVE  [event = 1 /\ event' = 0 => cnt = 0]_vars
  <2> SUFFICES ASSUME Next, event = 1, event' = 0 PROVE cnt = 0
    BY <1>3
  <2> USE DEF panel, keys, wifi
  <2>1. EventDone
    BY DEF Next, Loop, System, Environment, LoopStart, Available, CountReport,
       RwShown, NoPress, ShortPress, LongPress, MuchLongerPress, ManualClear,
       TextShown, WaitOver, ButtonDone, NoEvent, ClearEvent, SetEvent,
       WebClear, WebSet, TickerSave, Arrive, PowerCycle
  <2> QED
    BY <1>3, <2>1 DEF EventDone, EventTasks, ClearingInv
<1> QED
  BY <1>1, <1>2, <1>3, DeviceInvariant, PTL DEF Spec, ClearIsNotDropped

=============================================================================
