------------------------------- MODULE Byter -------------------------------
(***************************************************************************)
(* The whole device (byter/byter.ino): loop(), the web handlers, the save  *)
(* timer, the panel and power cuts, sharing cnt, event, isOverflow and the *)
(* EEPROM.                                                                 *)
(*                                                                         *)
(* The ESP8266 runs loop() cooperatively.  Web handlers and the timer run  *)
(* in the system context, which gets the processor only where loop()       *)
(* yields: in a delay(), and in the yield() calls of                       *)
(* Adafruit_SSD1306::display().  pc is the place where loop() stands; the  *)
(* members of Yielding are those places, the others are cuts between       *)
(* pieces of code that run without yielding, so nothing else happens       *)
(* there but a power cut.                                                  *)
(***************************************************************************)
EXTENDS KeyReport, Eeprom, Sequences

CONSTANTS
  Reports,      \* the key reports that can reach the serial port
  RxCap,        \* bound: reports the serial receive buffer holds
  SetParams,    \* the integers a client may send as /set?cnt=...
  PowerCuts     \* TRUE: the power may be cut at any moment

ASSUME ByterAssumption ==
  /\ Reports \subseteq [Slots -> Usage]
  /\ RxCap \in Nat \ {0}
  /\ SetParams \subseteq Int
  /\ PowerCuts \in BOOLEAN

VARIABLES
  pc,           \* where loop() stands
  task,         \* what the running displayText() was called for
  cnt,          \* unsigned int cnt
  last,         \* last_v3 .. last_v8
  event,        \* int event: 0 none, 1 clear, 2 set
  isOverflow,   \* bool isOverflow
  isWifiOn,     \* bool isWifiOn; the access point is up exactly then
  led,          \* output pin D6
  rx,           \* serial receive buffer, as whole reports
  buffer,       \* the panel image in RAM
  screen,       \* the image on the panel
  flash,        \* the counter as the EEPROM holds it
  unseen        \* history: cnt was changed, and nothing is left to show it

panel   == <<buffer, screen, unseen>>
keys    == <<last, rx>>
wifi    == <<isWifiOn, led>>
vars    == <<pc, task, cnt, event, isOverflow, flash, panel, keys, wifi>>

Texts    == {"Saved !", "Save Failed !", "Cleared !", "updated !",
             "WiFi ON", "WiFi OFF"}
Num(n)   == <<"num", n>>     \* Num(MaxCnt) is the "Overflowing" page
Text(t)  == <<"text", t>>
Images   == {Num(n) : n \in Cnt} \cup {Text(t) : t \in Texts}

\* Callers of displayText() from the button code, and from the event code.
ButtonTasks == {"save", "clear", "wifiOn", "wifiOff"}
EventTasks  == {"clearEvent", "setEvent"}

\* Mutant of Yielding: no delays between the bytes of a report.
YieldingOutsideRw == {"idle", "text", "wait", "num"}

\* idle: delay(1) at the end of loop().   frame: the delays between the bytes
\* of a report.   rwNum, num: inside display.display() of a displayNum()
\* called from rw() or from displayText().   text: the same for a message.
\* wait: delay(2000).
Yielding == {"idle", "frame", "rwNum", "text", "wait", "num"}
InText   == {"text", "wait", "num"}
InRw     == {"rw", "frame", "rwNum"}
Places   == Yielding \cup {"rw", "button", "event"}

-----------------------------------------------------------------------------

\* Mutant of DisplayNum: the flag is latched one count too late.
DisplayNumLate(n) ==
  /\ buffer' = Num(n)
  /\ isOverflow' = (isOverflow \/ n > MaxCnt)
  /\ unseen' = FALSE

\* void displayNum(unsigned int n), up to the yield before the transfer
DisplayNum(n) ==
  /\ buffer' = Num(n)
  /\ isOverflow' = (isOverflow \/ n >= MaxCnt)
  /\ unseen' = FALSE

\* void displayText(String text), up to the yield before the transfer
DisplayText(text, caller) ==
  /\ buffer' = Text(text)
  /\ task' = caller
  /\ pc' = "text"

\* After setup(), with what the EEPROM held: the count is read back and
\* shown, WiFi is off, and nothing the RAM held before is left.
Init ==
  /\ flash \in Cnt
  /\ cnt = ReadCnt(flash)
  /\ buffer = Num(cnt) /\ screen = Num(cnt) /\ unseen = FALSE
  /\ isOverflow = (cnt >= MaxCnt)
  /\ event = 0
  /\ last = NoKeys /\ rx = <<>>
  /\ isWifiOn = FALSE /\ led = FALSE
  /\ pc = "idle" /\ task = "none"

-----------------------------------------------------------------------------
(* rw()                                                                    *)

\* Mutant of LoopStart: the flag is not tested.
LoopStartAlwaysReads ==
  /\ pc = "idle"
  /\ pc' = "rw"
  /\ UNCHANGED <<task, cnt, event, isOverflow, flash, panel, keys, wifi>>

\* loop() starts; rw() returns at once when the overflow flag is set.
LoopStart ==
  /\ pc = "idle"
  /\ pc' = IF isOverflow THEN "button" ELSE "rw"
  /\ UNCHANGED <<task, cnt, event, isOverflow, flash, panel, keys, wifi>>

\* Mutant of Available: one report always stays behind.
AvailableMore ==
  /\ pc = "rw"
  /\ pc' = IF Len(rx) > 1 THEN "frame" ELSE "button"
  /\ UNCHANGED <<task, cnt, event, isOverflow, flash, panel, keys, wifi>>

\* while (Serial.available() > 0): the flag is not tested again here.
Available ==
  /\ pc = "rw"
  /\ pc' = IF rx # <<>> THEN "frame" ELSE "button"
  /\ UNCHANGED <<task, cnt, event, isOverflow, flash, panel, keys, wifi>>

\* A report has been read: latch it, count it, and show the new count only
\* if a stroke was completed, not if one was taken back.
CountReport ==
  /\ pc = "frame"
  /\ LET v == Head(rx) IN
       /\ last' = Latch(last, v)
       /\ cnt' = Tally(cnt, last, v)
       /\ IF Incr(last, v) # 0
          THEN DisplayNum(cnt') /\ pc' = "rwNum"
          ELSE /\ pc' = "rw"
               /\ unseen' = (unseen \/ Phantoms(v) # {})
               /\ UNCHANGED <<buffer, isOverflow>>
  /\ rx' = Tail(rx)
  /\ UNCHANGED <<task, event, flash, screen, wifi>>

\* display.display() transfers the image; its second yield has no effect the
\* first one could not have.
RwShown ==
  /\ pc = "rwNum"
  /\ screen' = buffer
  /\ pc' = "rw"
  /\ UNCHANGED <<task, cnt, event, isOverflow, flash, buffer, unseen, keys,
                 wifi>>

-----------------------------------------------------------------------------
(* The button: which press it was is decided in module Button              *)

\* No release this time round, or one after TWENTY_SECONDS or more.
NoPress ==
  /\ pc = "button"
  /\ pc' = "event"
  /\ UNCHANGED <<task, cnt, event, isOverflow, flash, panel, keys, wifi>>

\* manualWriteCnt()
ShortPress ==
  /\ pc = "button"
  /\ \E out \in WriteOutcomes(flash, cnt) :
       /\ flash' = out.flash
       /\ DisplayText(IF out.ok THEN "Saved !" ELSE "Save Failed !", "save")
  /\ UNCHANGED <<cnt, event, isOverflow, screen, unseen, keys, wifi>>

\* enableWifi(), disableWifi(): the LED follows when the message is over.
LongPress ==
  /\ pc = "button"
  /\ isWifiOn' = ~isWifiOn
  /\ IF isWifiOn THEN DisplayText("WiFi OFF", "wifiOff")
                 ELSE DisplayText("WiFi ON", "wifiOn")
  /\ UNCHANGED <<cnt, event, isOverflow, flash, screen, unseen, keys, led>>

\* Mutant of ManualClear: cnt is left for later.
ManualClearKeepsCnt(caller) ==
  /\ flash' \in ClearOutcomes(flash)
  /\ DisplayText("Cleared !", caller)
  /\ UNCHANGED <<cnt, event, isOverflow, screen, unseen, keys, wifi>>

\* manualClearCnt(), for the button and for event 1
ManualClear(caller) ==
  /\ flash' \in ClearOutcomes(flash)
  /\ cnt' = 0
  /\ DisplayText("Cleared !", caller)
  /\ UNCHANGED <<event, isOverflow, screen, unseen, keys, wifi>>

MuchLongerPress == pc = "button" /\ ManualClear("clear")

-----------------------------------------------------------------------------
(* displayText() after its first yield                                     *)

TextShown ==
  /\ pc = "text"
  /\ screen' = buffer
  /\ pc' = "wait"
  /\ UNCHANGED <<task, cnt, event, isOverflow, flash, buffer, unseen, keys,
                 wifi>>

\* delay(2000) is over: displayNum(cnt) with the count of this moment
WaitOver ==
  /\ pc = "wait"
  /\ DisplayNum(cnt)
  /\ pc' = "num"
  /\ UNCHANGED <<task, cnt, event, flash, screen, keys, wifi>>

\* turnOnLed(), turnOffLed() and their mutant: WiFi OFF leaves the LED on.
LedStaysOn(caller) == led \/ caller = "wifiOn"
LedAfter(caller) == CASE caller = "wifiOn"  -> TRUE
                      [] caller = "wifiOff" -> FALSE
                      [] OTHER              -> led

\* Mutant of ButtonDone: the messages of the button end with "event = 0" as
\* those of the event code do.
ButtonDoneForgets ==
  /\ pc = "num" /\ task \in ButtonTasks
  /\ screen' = buffer
  /\ led' = LedAfter(task)
  /\ event' = 0
  /\ pc' = "event" /\ task' = "none"
  /\ UNCHANGED <<cnt, isOverflow, flash, buffer, unseen, keys, isWifiOn>>

\* displayText() returns to the button code, then to the event code ...
ButtonDone ==
  /\ pc = "num" /\ task \in ButtonTasks
  /\ screen' = buffer
  /\ led' = LedAfter(task)
  /\ pc' = "event" /\ task' = "none"
  /\ UNCHANGED <<cnt, event, isOverflow, flash, buffer, unseen, keys,
                 isWifiOn>>

\* ... or to the event code, which then forgets the event, whichever it is.
EventDone ==
  /\ pc = "num" /\ task \in EventTasks
  /\ screen' = buffer
  /\ event' = 0
  /\ pc' = "idle" /\ task' = "none"
  /\ UNCHANGED <<cnt, isOverflow, flash, buffer, unseen, keys, wifi>>

-----------------------------------------------------------------------------
(* The event flag, at the end of loop()                                    *)

NoEvent ==
  /\ pc = "event" /\ event = 0
  /\ pc' = "idle"
  /\ UNCHANGED <<task, cnt, event, isOverflow, flash, panel, keys, wifi>>

ClearEvent == pc = "event" /\ event = 1 /\ ManualClear("clearEvent")

\* manualSetCnt(): the handler has set cnt already.
SetEvent ==
  /\ pc = "event" /\ event = 2
  /\ DisplayText("updated !", "setEvent")
  /\ UNCHANGED <<cnt, event, isOverflow, flash, screen, unseen, keys, wifi>>

-----------------------------------------------------------------------------
(* System context: web handlers and the save timer                         *)

\* GET /clear
WebClear ==
  /\ pc \in Yielding /\ isWifiOn
  /\ event' = 1
  /\ UNCHANGED <<pc, task, cnt, isOverflow, flash, panel, keys, wifi>>

\* GET /set?cnt=p&hack=hack.  Event 2 is to show the new count; while the
\* number after the message of an event is being transferred it is too late
\* for that: EventDone comes next and forgets it.
WebSet(p) ==
  /\ pc \in Yielding /\ isWifiOn
  /\ cnt' = Wrap(ToInt(p))
  /\ event' = 2
  /\ unseen' = (unseen \/ (pc = "num" /\ task \in EventTasks))
  /\ UNCHANGED <<pc, task, isOverflow, flash, buffer, screen, keys, wifi>>

\* writeCntTicker calls writeCnt() and drops its result.
TickerSave ==
  /\ pc \in Yielding
  /\ \E out \in WriteOutcomes(flash, cnt) : flash' = out.flash
  /\ UNCHANGED <<pc, task, cnt, event, isOverflow, panel, keys, wifi>>

-----------------------------------------------------------------------------
(* The keyboard and the power supply                                       *)

\* A report arrives.  A full receive buffer loses its oldest bytes.
Arrive(v) ==
  /\ rx' = Append(IF Len(rx) < RxCap THEN rx ELSE Tail(rx), v)
  /\ UNCHANGED <<pc, task, cnt, last, event, isOverflow, flash, panel, wifi>>

\* A commit may be running: the timer's, the button's or event 1's.
CommitPossible ==
  \/ pc \in Yielding /\ flash # cnt
  \/ pc = "button"
  \/ pc = "event" /\ event = 1

\* The power is cut and comes back: setup() runs on what the EEPROM holds.
PowerCycle ==
  /\ PowerCuts
  /\ flash' \in {flash} \cup (IF CommitPossible THEN {TornFlash} ELSE {})
  /\ cnt' = ReadCnt(flash')
  /\ buffer' = Num(cnt') /\ screen' = Num(cnt') /\ unseen' = FALSE
  /\ isOverflow' = (cnt' >= MaxCnt)
  /\ event' = 0
  /\ last' = NoKeys /\ rx' = <<>>
  /\ isWifiOn' = FALSE /\ led' = FALSE
  /\ pc' = "idle" /\ task' = "none"

-----------------------------------------------------------------------------

Loop ==
  \/ LoopStart \/ Available \/ CountReport \/ RwShown
  \/ NoPress \/ ShortPress \/ LongPress \/ MuchLongerPress
  \/ TextShown \/ WaitOver \/ ButtonDone \/ EventDone
  \/ NoEvent \/ ClearEvent \/ SetEvent

System ==
  \/ WebClear
  \/ \E p \in SetParams : WebSet(p)
  \/ TickerSave

Environment ==
  \/ \E v \in Reports : Arrive(v)
  \/ PowerCycle

Next == Loop \/ System \/ Environment

Spec == Init /\ [][Next]_vars

\* The core calls loop() for ever and every delay() ends.
\* The timer is periodic, and the core runs it when it is due and loop()
\* yields.
FairSpec == Spec /\ WF_vars(Loop) /\ SF_vars(TickerSave)

-----------------------------------------------------------------------------
(* The abstract specification                                              *)

Counter == INSTANCE StrokeCounter WITH
  Assignable <- {Wrap(ToInt(p)) : p \in SetParams},
  count   <- cnt,
  saved   <- flash,
  full    <- isOverflow,
  stopped <- isOverflow /\ pc \notin InRw

\* The device keeps the promises of StrokeCounter: whatever the web, the
\* timer, the button and power cuts do between the steps of loop(), strokes
\* change the count only while rw() is past the flag or the flag is clear,
\* and neither a clear nor a set gets a stopped counter counting again.
CounterSpec == Counter!Spec

-----------------------------------------------------------------------------
(* Properties                                                              *)

\* Every variable keeps to the values its C declaration and the code give it.
TypeOK ==
  /\ pc \in Places
  /\ task \in ButtonTasks \cup EventTasks \cup {"none"}
  /\ cnt \in Cnt
  /\ last \in [Slots -> ValidUsage \cup {0}]
  /\ event \in 0..2
  /\ isOverflow \in BOOLEAN
  /\ isWifiOn \in BOOLEAN
  /\ led \in BOOLEAN
  /\ rx \in Seq(Reports)
  /\ buffer \in Images
  /\ screen \in Images
  /\ flash \in Cnt
  /\ unseen \in BOOLEAN

\* The LED tells whether the access point is up, except while the message
\* of the switch-over is on the panel, when it still tells the old state
\* (enableWifi(), disableWifi() and the handlers that run meanwhile).
LedFollowsWifi ==
  led = IF task \in {"wifiOn", "wifiOff"} THEN ~isWifiOn ELSE isWifiOn

\* A full count stops the counting: wherever it comes from (a stroke, the
\* EEPROM after a torn commit, a /set), the flag is latched unless the message
\* of an event is still to come, which latches or clears it, or it is one of
\* those the panel never gets to show (displayNum() alone sets the flag).
FullIsLatched ==
  cnt = MaxCnt => isOverflow \/ event # 0 \/ unseen

\* "Saved !" is never said unless the EEPROM holds the count of that moment,
\* however erase and program operations fail (manualWriteCnt()).
SavedIsSaved ==
  [][buffer' = Text("Saved !") /\ buffer # buffer' => flash' = cnt]_vars

\* Whenever loop() is through with its messages and no event is pending, the
\* panel shows the count, whatever the handlers did while an image was being
\* transferred or a message was up.  Two changes of the count are not shown
\* before the next number is: strokes that rw() takes back in a report that
\* completes none, and a /set that falls into the transfer of the number
\* after the message of an event ("event = 0" then forgets it).
PanelShowsCount ==
  (pc = "idle" /\ event = 0 /\ ~unseen) => screen = Num(cnt)

\* A clear is whole: from "Cleared !" until the count is shown again both
\* copies are 0, even if the save timer fires meanwhile (manualClearCnt()
\* zeros cnt before it yields).  Needs a flash that works and no /set.
ClearIsWhole ==
  task \in {"clear", "clearEvent"} => cnt = 0 /\ flash = 0

\* A request to clear is only taken back once the count is 0 (the end of
\* loop(), "event = 0").
ClearIsNotDropped ==
  [][event = 1 /\ event' = 0 => cnt = 0]_vars

\* A clear that was asked for over the web is carried out, as long as no /set
\* comes in and the keyboard pauses often enough for rw() to return.
ClearTakesEffect ==
  []<>(pc \notin InRw) => (event = 1 ~> cnt = 0)

\* A report that arrived is read, unless the overflow flag stops reading.
ReportsAreRead ==
  rx # <<>> ~> (pc = "frame" \/ isOverflow)

\* The count and its copy agree again and again, even if the keyboard never
\* pauses and rw() never returns: the delays between the bytes let the save
\* timer in.
SavedAgainAndAgain ==
  []<>(flash = cnt)

-----------------------------------------------------------------------------
(* What the texts of the program say, and the program does not do          *)

\* "Count you keyboard stokes silently": a report that waits is read, unless
\* the count is at its maximum.
CountsUnlessFull ==
  rx # <<>> ~> (pc = "frame" \/ cnt = MaxCnt)

=============================================================================
