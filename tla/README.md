# byter: a verification project for the keyboard stroke counter

`src/byter/byter.ino` is the firmware of a small device that sits between a
keyboard and a computer and counts key strokes.  A CH9350 chip copies the
keyboard's reports to the serial port of an ESP8266; `rw()` finds the reports
in the byte stream and counts completed strokes in `cnt`; an SSD1306 panel
shows the count; one button saves it, switches a WiFi access point or clears
it; a small web server reads, clears and sets it; a timer saves it to the
EEPROM.  This directory holds TLA+ models of that program and of the parts of
its vendored libraries it runs on (the web server, its TCP client, the layout
of the panel), TLC configurations that check them, and TLAPS proofs.

Contents: [1 Inventory](#1-inventory) - [2 What is hard](#2-what-is-hard) -
[3 Modules](#3-modules) - [4 Runs and bounds](#4-runs-and-bounds) -
[5 Fairness](#5-fairness) - [6 What is proved](#6-what-is-proved) -
[7 Where program and texts disagree](#7-where-program-and-texts-disagree) -
[8 Only model-checked, not modelled](#8-only-model-checked-not-modelled) -
[9 Plan](#9-plan)

## 1 Inventory

The repository has 1073 files; all but eleven are vendored Arduino libraries
under `src/libraries`, most of which the program does not use.  The program
is the one sketch `src/byter/byter.ino` (445 lines).  The directories `src/_*`
are trials it was put together from.

| Part | Code (`byter.ino`) | State it keeps | Operations |
|---|---|---|---|
| stroke counting | `rw()` 174-231 | `cnt`, `last_v3 .. last_v8` | latch six slots, count freed slots, take repeated slots back |
| frame recognition | `rw()` 125-172 | none but the place in the code | match `57 AB 83 0C 12 01`, read `v1 .. v8` |
| count in the EEPROM | 64-71, 84-90, 97-104 | a flash sector | `writeCnt`, `readCnt`, `clearCnt` |
| panel | 309-363 | image in RAM and on the panel, `isOverflow` | `displayNum`, `displayText`, `startDisplay` |
| button | 407-433 | `lastState`, `pressedMillis` | classify a press: save, WiFi, clear |
| WiFi and LED | 242-248, 288-307 | `isWifiOn`, pin D6 | `enableWifi`, `disableWifi` |
| web server | 250-286 | `event` | `/`, `/clear`, `/set` |
| save timer | 399 | none | `writeCnt` periodically |
| life cycle | 366-445 | | `setup`, `loop`, power cuts |

Of the libraries, the sketch runs on these (`src/libraries`):

| Part | Code | State it keeps | Operations |
|---|---|---|---|
| request parser | `ESPAsyncWebServer-master/src/WebRequest.cpp` | `_temp`, `_parseState`, `_contentLength`, `_parsedLength` | `_onData`, `_parseLine`, `_parseReqHead`, `_parseReqHeader` |
| reply | `WebResponses.cpp`, `AsyncBasicResponse` | `_state`, `_content`, four lengths | `_respond`, `_ack` |
| TCP client | `ESPAsyncTCP-master/src/ESPAsyncTCP.cpp`, `AsyncClient` | `_pcb`, `_close_pcb`, `_pcb_busy`, unacknowledged bytes, two timers | `write`, `_sent`, `_recv`, `_poll`, `_error`, `_close` |
| text layout | `Adafruit_GFX.cpp` | cursor, text size | `write`, `drawChar` |
| panel driver | `Adafruit_SSD1306.cpp` | the image in RAM | `clearDisplay`, `drawPixel`, `display` |

**How they interact.**  Everything shares globals.  `loop()` runs `rw()`, then
the button code, then the event code, then `delay(1)`.  The ESP8266 core is
cooperative: web handlers and the timer run in the system context, which gets
the processor only where `loop()` yields, that is inside `delay()` and inside
`Adafruit_SSD1306::display()` (which calls `yield()` before and after the
transfer of the image).  Handlers do not touch the panel: `/clear` leaves
`event = 1` and `/set` sets `cnt` and leaves `event = 2` for the end of
`loop()`.  Each message (`displayText`) holds `loop()` for two seconds and
then shows the count again; until it is over nothing reads the serial port or
the button.

## 2 What is hard

The hazards are listed with their lines in `PROJECT.json`; in groups:

* **What runs while `loop()` waits.**  A `/clear` during a message, the timer
  between the halves of a clear, a `/set` during a transfer, the LED that
  follows `isWifiOn` two seconds later, a keyboard that never pauses.
* **Flags that outlive their reason.**  `isOverflow` is latched for ever, and
  is tested only once per `rw()`.
* **Persistence.**  `commit()` erases before it programs and may fail at both;
  `end()` commits again; the power may go at any moment.
* **Reports.**  Keys move between slots, several are held at once, reports are
  lost, repeated, or carry error codes; a slot may repeat another one.
* **Bytes.**  The receive buffer overflows between and inside frames, the
  checksum is never read, a failed match does not put its byte back.
* **Requests and replies.**  TCP cuts a request anywhere; a body may be longer
  than announced; a reply larger than the send buffer goes out in pieces from
  three different callbacks, "100 Continue" among them; two timers watch the
  peer; writes fail; the peer leaves at any moment.
* **What is on the panel.**  One page does not set its cursor, the size of the
  text depends on the number, and what does not fit is clipped without a sign.
* **Time and width.**  The pin is polled with a period from one millisecond to
  several seconds, `millis()` wraps, `cnt` wraps, `toInt()` saturates.

For each part, what makes it correct: the count equals the presses when all
keys are up (or never exceeds them, on a lossy line); what is decoded was
sent; a press is measured to within a round of `loop()`; "Saved !" is true; a
clear is whole and not forgotten; the panel shows the count, and it can be
read; the LED shows WiFi; a request is handled once and as it was sent; its
reply goes out unbroken; a peer that does not go on is dropped; and the device
as a whole is a counter that stops when full.

## 3 Modules

| Module | Models | Uses |
|---|---|---|
| `UnsignedInt` | `unsigned int`, wrap-around, `String::toInt()` | |
| `KeyReport` | one decoded report: `Latch`, `Released`, `Incr`, `Phantoms`, `Tally` | `UnsignedInt` |
| `StrokeCounting` | a keyboard and a line to `rw()` around `KeyReport` | `KeyReport` |
| `ReportLine` | abstract: what `rw()` promises about the reports it counts | `KeyReport` |
| `FrameReader` | `rw()` byte by byte, up to `v8`, with the receive buffer | `KeyReport`, `ReportLine` |
| `Eeprom` | outcomes of `writeCnt()`, `clearCnt()`, `readCnt()` | `UnsignedInt` |
| `Button` | the polling of the button and its clock | `UnsignedInt` |
| `StrokeCounter` | abstract: what the device promises about its count | `Eeprom` |
| `Byter` | the whole device | `KeyReport`, `Eeprom`, `StrokeCounter` |
| `Panel` | what can be read on the panel, on top of the device | `Byter` |
| `WebRequest` | one request put together from its segments | |
| `WebConnection` | one connection: request, reply, timers, faults | `WebRequest` |
| `MC...` | reports, lines, requests and parameters for TLC | |
| `...Proofs` | theorems | `TLAPS` |

**`KeyReport`.**  The slots are `3..8`, after `v3 .. v8`.  `Latch` is
`last_v3 .. last_v8` after a report (a valid usage or 0 is remembered, any
other value is not); a slot that was occupied and is now 0 is a completed
stroke (`Released`); `v3 = v7` or `v4 = v8` takes one back (`Phantoms`);
`Tally` is `cnt--` and `cnt + incr` with their wrap-around.  `Usage` includes
-1, what `Serial.read()` returns on an empty port.

**`StrokeCounting`.**  A report of the keyboard lists the keys held, one per
slot.  `Press` and `Release` occupy or free one slot and may rearrange the
others, since keyboards differ in this.  The set `effects` says what else this
line does: several keys at once (`chord`), reports that are `lost`,
`repeated`, `rollover` reports of error codes, and `phantom`, the repeated slot
that the comment at `byter.ino:220` describes.  It is chosen once, in `Init`,
from the constant `Lines`; each property says for which effects it holds.

**`FrameReader`.**  `got` holds the bytes taken since the `while` loop; its
length is the place in the nest of `if`s.  `FindStart` is the loop head,
`MatchHeader` the five inner comparisons, `ReadValue` and `ReadLastValue` the
reads of `v1 .. v8`.  The serial number and the checksum are left in the
buffer, as the code leaves them, and are dropped by the loop head.  The
external side is the chip (`StartFrame`, `SendByte`) and the receive buffer of
the core, which drops its oldest byte when full.  A byte takes a tenth of the
`delay(1)` before each read, so a frame that has been started does not run dry
(`Read`).  Histories: `sent`, `decoded`, `lost` (frames that lost a byte),
`torn` (those `rw()` was inside of when the buffer overflowed) and `skipped`
(those that lost a byte while `rw()` was inside some frame).  `Undisturbed`
says which frames `OthersDecoded` promises: the one before must not be cut
while `rw()` was inside that one or an earlier one (it would go on in the
middle of it, and from there into the next), and not end like a header begins.

**`ReportLine`** is the promise, without bytes: reports are taken in order from
a line that may lose some; what is garbled was torn before it is counted; and
what has been counted stays.  `FrameReader` implements it with
`counted <- decoded`.  It is the line `StrokeCounting` puts before the
counting, `lost` without `repeated`: the reader itself repeats nothing.

**`Eeprom`.**  `WriteOutcomes` and `ClearOutcomes` are the sets of what a call
may leave in the sector and return.  With `FlashFaults` a commit may fail
before the erase (old value), or after it (`Blank`, four bytes 0xFF, that is
the largest count).  `writeCnt()` returns the result of the first commit while
`end()` tries again, so a failure may be reported for a write that succeeded
in the end; `clearCnt()` returns nothing.

**`Button`.**  `Poll` is the button code of one round.  Time is counted in
ticks; a round takes between 1 and `MaxRound` ticks.  `now` wraps like
`millis()`, `PressMillis` is the unsigned difference stored in a signed
`long`.  The user leaves the button alone for more than one round between two
presses (`MinUp`).  The history variables `held`, `up`, `presses`, `long` are
what really happened.

**`Byter`.**  `pc` is where `loop()` stands.  The members of `Yielding` are the
places where the code yields; web handlers and the timer are enabled there
and nowhere else.  One action is one piece of code between two cuts:

| Actions | Code |
|---|---|
| `LoopStart`, `Available`, `CountReport`, `RwShown` | `rw()`: flag, loop test, report, panel |
| `NoPress`, `ShortPress`, `LongPress`, `MuchLongerPress` | the button code, up to the first yield of its message |
| `TextShown`, `WaitOver`, `ButtonDone`, `EventDone` | the rest of `displayText()` and of its caller (`task`) |
| `NoEvent`, `ClearEvent`, `SetEvent` | the event code |
| `WebClear`, `WebSet`, `TickerSave` | handlers and timer |
| `Arrive`, `PowerCycle` | keyboard, power supply with `setup()` |

The receive buffer holds whole reports here; how reports come out of bytes is
`FrameReader`.  Which press it was is left open here; that is `Button`.
`setup()` is part of `PowerCycle`: WiFi is off and the timer is not attached
until its end, so nothing can run inside it.  `CommitPossible` says where a
power cut can hit a commit.  The history `unseen` is set when the count changes
and nothing is left to show it: when `rw()` takes strokes back in a report that
completes none, and when a `/set` falls into the transfer of the number after
the message of an event, which `event = 0` (437, 442) then forgets.  The next
`displayNum()` ends it.

**`StrokeCounter`** is the promise: the count grows by at most six strokes at a
time and loses at most two, may be cleared, set, saved and lost to a power
cut, and once the full count has been noticed and the port drained counting
stops until a restart.  `Byter` implements it with

    count <- cnt, saved <- flash, full <- isOverflow,
    stopped <- isOverflow /\ pc \notin InRw

The last line is the point: the flag is tested at the start of `rw()` and not
in its loop, so counting goes on behind a latched flag until the port is empty.

**`Panel`** composes `Byter` with the layout of its pages.  A page is the set
of its characters with place and size; `Println` is `print()` with the wrap of
`write()`, `Whole` and `Some` are the clipping of `drawPixel()`.  `Drawing`
says what each step of `Byter` that fills the image draws there, and from
which cursor; `Transfer` is the moment the image reaches the panel.  A message
is its length, a count its number of digits (`Digits`).  The page of a full
count sets no cursor, so `cursor` is state: what is seen of that page depends
on the page before.  Even so its number (as opposed to its word) always lies
below the panel.

**`WebRequest`** is `_onData()`: a step is one round of its loop over the
lines of a segment.  The stream is a sequence of pieces of text, two to a
line, CR, LF and the bytes of the body, and `Segment` cuts it anywhere, in the
middle of a line and between CR and LF included.  What a line says is known
only if both its pieces are there, in order (`Says`); otherwise the parser
reads something "garbled".

**`WebConnection`** puts the parser, the reply and the client together.  All
of it runs in lwIP callbacks, one at a time: a segment (`Data`, then `OnData`
until it is used up), an acknowledgement of any part of what is queued
(`AckPart`, `AckAll`), a poll (`PollCloses`, `PollAckTimeout`,
`PollRxTimeout`, `PollGoesOn`), the peer's FIN or an error.  `Write`,
`Respond` and `Ack` are functions from a client and a response to what becomes
of them, as the methods of those names call one another.  `tcp.out` is what
lwIP was given: `ReplyUnbroken` compares it, with what the response still
holds, byte for byte with `Preamble` ("100 Continue", as much of it as the send
buffer takes) and the reply after it.  `faults` says what
may fail on this connection: `tcp_write()` (then nothing is sent), or
`tcp_output()` (then it is sent, but not counted).  The history `owedFor`
counts, from lwIP's side, the polls for which the peer has owed acknowledgements
since the last bytes lwIP was given (`Elapse`); `SlowPeerIsNotCut` compares the
client's own timer with it.  The lengths are those of
the code; a byte is its place in the head or the content.

## 4 Runs and bounds

| Run | Expect | What it shows |
|---|---|---|
| `byter_all` | pass | with flash faults, power cuts, repeated slots and `/set`: types, LED, "Saved !", that a full count is latched, the number on the panel between rounds, and that `Byter` implements `StrokeCounter` |
| `byter_quiet` | pass | without these: whole clears, no clear dropped, and the liveness properties |
| `strokes` | pass | four kinds of lines: never too many, exact, exact for clicks, slots undisturbed |
| `frames` | pass | what is counted was sent; `rw()` is back in step one frame after a disturbance; `FrameReader` implements `ReportLine` |
| `button_rounds` | pass | presses measured to within a round, none twice, no long one missed, no clear by accident |
| `web_connection` | pass | a request is handled once and whole; a reply goes out unbroken and to its end; the timers; a slow peer is cut off only after the whole acknowledgement time, and nobody silent is kept |
| `panel` | pass | counts and messages can be read; the panel is never dark |
| `byter_dropped_clear`, `byter_frozen`, `frames_sum57`, `button_tap`, `web_not_closed` | violation | section 7 |

Bounds, and why they are enough:

* `MaxCnt = 3` in the runs of `Byter`: the count reaches, jumps over and wraps
  around its maximum within a few reports; every comparison of the code is
  with 0 or `maxCnt`.  `SomeParams` has values below 0, inside and above the
  signed range.
* `RxCap = 1` report: with it a second report is already an overflow, and
  `rw()` both drains the port and goes on with a report that came in during
  its delays.  Reports with no key, one, two, and one repeated.
* `strokes`: two keys (the two ends of the valid range) in six slots, four
  presses, at most two keys down.  The slots do not influence one another
  except in pairs, and two keys reach every pair.  The proofs cover the rest.
* `frames`: three frames, because a disturbance reaches one frame on; a buffer
  of 22 bytes against the 48 that are sent, so that up to 26 bytes are lost:
  inside a header, inside the values, in between, and from the middle of one
  frame to that of another.  That is as much as it takes for each exception
  of `Undisturbed` to be needed.  The serial number 0x57, also as a key in the
  last slot; a serial number and checksum 0x57 0xAB; both command codes.
* `button_rounds`: limits 2, 5 and 8 ticks keep their order and are not
  multiples of the round of 3; presses of up to 10 ticks reach every class;
  `millis()` wraps after 32, and every start value is tried.

* `web_connection`: a send buffer of 3 bytes and a head of 2 against contents
  of 0, 2 and 5, so that a reply fits, fits but for the last byte, or takes
  three pieces, the first of which ends inside the head or inside the content
  ("100 Continue" takes up to the whole buffer before it).  Requests with and
  without a body of 2 bytes and "Expect", cut short, as announced, or with a
  byte too many, and an empty request line.  Two polls are either timeout: one
  would leave no poll between a write and its timeout.  `SizeT` of 16 lets the
  unsigned subtraction wrap, which it does when `tcp_output()` fails.
* `panel`: the size of the panel is the real one.  With `MaxCnt = 6` the counts
  0 to 5 stand for 5, 6, 7, 8 and 10 digits: both sides of every limit of
  `displayNum()`, and the widest numbers just below the maximum, which is
  where the real count has them.

Deadlock is checked in the runs of `Byter` and `Panel`: `loop()` never gets
stuck.  In the others the typist, the chip, the user or the peer stop, so
`CHECK_DEADLOCK` is off there.  Every property of a passing run has a mutant: a definition with
a plausible mistake (kept beside the original, its comment says "Mutant")
under which TLC finds the property violated.

## 5 Fairness

`FairSpec` of `Byter` assumes `WF_vars(Loop)`: the core calls `loop()` for ever
and every `delay()` ends; and `SF_vars(TickerSave)`: the timer is periodic,
and once due its callback runs at one of the next places where `loop()`
yields.  It is strong because `loop()` enters and leaves such places; the
timer cannot be disabled for ever, since every pass of `loop()` yields at
least once.  Nothing is assumed of keyboard, user and clients.  `ClearTakesEffect` needs one thing
more, stated in the property itself: the keyboard pauses often enough for
`rw()` to return.  `SavedAgainAndAgain` does not: even under a keyboard that
never pauses the delays between the bytes let the timer in (its mutant takes
these delays away).

`FairConnectionSpec` assumes `WF_vars(Poll)`: lwIP polls an open connection
again and again (every half second here, `tcp_poll(pcb, .., 1)`), and
`WF_vars(OnData)`: a callback that has begun runs to its end.  Nothing is
assumed of the peer, which may stop sending, stop acknowledging, or leave;
`RequestOrClosed` and `ReplyGoesOut` hold because of the polls alone.

## 6 What is proved

All theorems are checked by TLAPS for every value of the constants, from the
named assumptions of the modules, which TLC evaluates in the runs:

* `MaxCntAssumption`: the largest integer is a positive natural;
* `ByterAssumption`, `StrokeCountingAssumption`, `FrameReaderAssumption`: types;
* `ButtonAssumption`: the order of the limits, a press and a round fit into a
  signed `long`, the button is up for longer than a round between presses;
* `WebRequestAssumption`, `WebConnectionAssumption`: types, and a send buffer
  that a `size_t` can count;
* `PanelAssumption`, `MessageAssumption`: types; a message has 1 to 19
  characters, and so has "Overflowing"; the last word of the start page,
  "Counter", has 7.

Hypotheses that are not always true are stated in the theorem: no `/set`, no
power cuts or no flash faults (where a run says so too), a panel of at least
126 by 30 pixels (`LargeEnough`; the real one has 128 by 32), and that no key
has the usage 0xAB (`NoKeyIsAB`; the HID usage tables reserve it).
`PanelNeverDark` needs 127 columns, nobody who uses `/set` and no repeated
slots (`OnlyStrokes`: only strokes fill the count), and that the six counts
below the maximum have at least 8 digits (`LastAreLong`; those below
4294967295 have 10).  Section 7 says what happens without `OnlyStrokes`.

* **`KeyReportProofs`**: lemmas about `Wrap`, `Latch`, `Incr`, `Phantoms`,
  `Tally`: at most six strokes, at most two taken back, always an unsigned int.
* **`StrokeCountingProofs`**: `StrokeTypes`, `NeverOvercounts`,
  `CountsExactly`, `LatchFollowsKeys`, `ClicksAreExact`.  Most are not
  inductive.  `OwedInv` strengthens `NeverOvercount`: a slot that is occupied
  on the keyboard *or* in the latch stands for one stroke not yet counted, and
  count and such slots together do not exceed the presses.  `BalanceInv` is
  the exact form without losses.  Both are checked by TLC and proved
  (`OwedInvariant`, `BalanceInvariant`).  `DeliverFacts` is the heart: reading
  a report moves strokes from the owed slots to the count and loses none.
  `ClicksAreExact` has an invariant of its own (`ClickInv`): while the key of
  a click is down the count lacks one stroke, or two if two slots are latched
  for it, and this is carried across zero, where the take-back wraps.
* **`ByterProofs`**: `DeviceInvariant` is the inductive invariant: the types,
  how `task` belongs to `pc`, the LED against `isWifiOn`, and that a full
  count on the panel or in its image has latched the flag (`DrawnIsLatched`).
  From it follow `TypeCorrect`, `LedCorrect`, `SavedCorrect`.
  `DeviceIsCounter` is the refinement of `StrokeCounter`: initial states map to
  initial states and each action to a step or a stutter.  `PanelCorrect` has no
  hypotheses.  Its invariant (`PanelInvariant`) says for every place of `loop()`
  whether the image in RAM shows the count, or an event that will do so is
  pending, or nothing is left to show it (`unseen`).  `FullLatched` follows
  from the two: the number that is, or will be, shown is what latches the flag.
  `ClearCorrect` and `ClearNotDropped` prove `ClearIsWhole` and
  `ClearIsNotDropped` under the assumptions of the run `byter_quiet`, stated as
  hypotheses.
* **`ButtonProofs`**: `ButtonInvariant` relates the age of the remembered press
  to its real length (`ClockInv`) and counts presses (`CountInv`); `SinceTick`
  is the modular step: time since a moment grows by one at each tick, also
  across the wrap, until a full turn.  Then `HoldIsMeasured`,
  `PressesAreSeenOnce`, `ClearsAreMeant`, `ButtonTypesCorrect`.
* **`FrameReaderProofs`**: `CountedWereSent`, that `rw()` counts nothing that
  was not sent, for every number of frames, size of the buffer and serial
  number.  The bytes sent are numbered through, 16 to a frame.  `ReaderInv`
  says that the receive buffer is a window of that stream, that what `rw()`
  holds is the window just before it (`GotInv`) unless the buffer overflowed
  meanwhile, and that every report counted before belongs to an earlier frame
  (`OrderInv`).  The heart is `HeaderAtStart`: no six bytes in a row read like
  a header unless a frame begins there, since 0x57 may be a key, a serial
  number or a checksum, but then 0xAB does not follow, or what follows 0x57
  is the 0x57 of the next frame.  `NothingThere` shows that a
  `Serial.read()` which finds nothing cannot happen inside such a frame.
  `NoFrameMissed` is the other half: `OthersDecoded`, for any number of frames
  and any buffer.  It speaks of the end of a run, so it needs an invariant for
  every moment before (`SoundInv`, of which `AwaitedInv` is the core): an
  undisturbed frame is still to come, is just what `rw()` holds, or is counted.
  The hard step is that `rw()` looks for a header when such a frame begins
  (`InStep`): what it holds at that moment would have to be the end of the frame
  before, which does not read like a header, or of an earlier frame, which it
  would only still be inside of if the buffer had cut one in between
  (`StrayInv`, `TornInv`).  The proof is where the conditions of the property
  come from: it had not excepted a frame cut behind the one `rw()` is inside
  of, nor one that ends in 0x57 0xAB, and TLC confirmed both (`skipped`,
  `EndsLikeHeader`); and that the frame before may not be torn, which it once
  asked for, follows from the rest.
  `ReaderIsReportLine` is the refinement of `ReportLine`.  `HeldInv`, that what
  `rw()` holds is never of a frame before the last one counted, makes the
  garbled reports keep the order too.
* **`WebRequestProofs`**: `ParseInvariant` says that what the parser keeps, the
  rest of the segment and what is under way are, put together, the request
  from a place that `parseState` names.  The heart is that a line found in the
  segment with what was kept before it is the next line of the request,
  wherever the cuts were (`LineOf`, `EmptyLine`, `FirstLine`).  Then
  `RequestHandledWhenWhole`, `RequestHandledOnce`, `RequestTypesCorrect`.
* **`WebConnectionProofs`**: `ConnectionRefinesRequest` shows that a connection
  with its reply, timers and faults implements the specification of
  `WebRequest`, so that `ConnectionHandledWhenWhole` needs no new argument.
  `ConnectionInvariant` is about the rest: the bytes the client counts against
  those lwIP holds, the counters of the response against its content, and
  which phases of request, reply and connection go together.  From it follow
  `ConnectionTypesCorrect`, `LengthsAlwaysAgree`, `TimerAlwaysRunsWhileOwed`,
  `FinishedIsAlwaysAcked`.  `SlowPeerIsNeverCut` needs `OwedForInv` besides:
  while something is owed the timer of the client stands where `owedFor` does,
  since every function that gives bytes to lwIP starts it again and none that
  gives nothing touches it (`GivenOrNot`).  `ReplyAlwaysUnbroken`
  is that no byte of a reply is lost, repeated or moved, however large it is
  and however small the send buffer, in whatever order acknowledgements and
  polls come.  `BytesInv` adds to the property what goes out before the reply
  (nothing until the headers are read, then "100 Continue" only), so that
  the send buffer is known to be empty when it is written, and that what is
  out can always be completed to the whole, also after the connection is gone
  and with it the response.  `PieceSent` is the step: a piece cut off the content
  and given to `write()` leaves the whole as it was.
* **`PanelProofs`**: `PageInvariant`: what is drawn is the page of the image
  in RAM, and what is lit that of the image on the panel, from any cursor; then
  `CountsAreReadable` and `MessagesAlwaysReadable`, for every panel that is
  large enough and every assignment of up to ten digits to counts.
  `PanelIsDevice` says that `Panel` implements `Byter`, so that the invariant
  of the device can be used in what follows.  `PanelNeverDark`: the page of a
  full count begins where the page before it ended; `CursorInv` says where
  each page ends (`Foot`), that the image is that of the count unless a
  message is up, and that something is seen of both images; `FullComesFromNear`
  that a count fills only from the last six below the maximum, whose pages end
  on the panel.

## 7 Where program and texts disagree

Each is a run of its own in which TLC finds a counterexample.

* `byter_dropped_clear`: `/clear` answers "KeyStoke Count Cleared!"; if it comes
  in while the message of an earlier event is up, `event = 0` at the end of
  `loop()` forgets it.
* `byter_frozen`: after an overflow, a clear brings the count to 0, but
  nothing is counted until a restart.
* `frames_sum57`: a checksum 0x57 swallows the header of the next frame.
* `button_tap`: a tap that is down when a long round begins (a message, a burst
  of reports) is measured as a long press, since its release is seen, and
  timed, only when that round is over.

* `web_not_closed`: the library's README says that the client is closed when
  the response is sent.  Nothing closes it, and `send()` has switched the
  receive timeout off: a peer that stays silent keeps the connection for ever.

Read off the code, without a run: a `/set` that comes in while the number after
the message of an event is being transferred is forgotten by `event = 0`
(`byter.ino:437`, 442): the count is changed, but the old number stays on the
panel until the next is shown; counting goes on behind the "Overflowing" page
until the port is empty (124-125); an acknowledgement of a part of what is owed
gives the peer no more time (`ESPAsyncTCP.cpp:549-553`, 674); `/` answers with the count of the last save
(`byter.ino:252`); `/set` answers with the parameter and not with what
`toInt()` and `unsigned int` made of it (275); the comment at 265 calls the
path `/update`; "Cleared !" is shown although the commit failed (103);
frames with the command code 0x88 of the comment at 117 are never counted
(`frames` has such frames, and none is); a report can be put together from the
bytes of two frames if the buffer overflows while `rw()` is inside one (138;
`DecodedWereSent` excepts exactly these); a frame is missed although it came
in whole, when the frame before it was cut while `rw()` was inside that one or
an earlier one, or ends with the serial number 0x57 and the checksum 0xAB (127;
`Undisturbed`); the correction for a repeated slot
is right for a click and takes too much back from a chord (220); a roll-over
report (1 in every slot) takes two strokes back (221); the number of an
overflow always lies below the panel (330), and a count that gets full by a
`/set` or a wrap after a page that ends below the panel leaves it dark; a body
longer than announced never reaches its handler (`WebRequest.cpp:170`); a
piece of a reply whose `write()` fails is lost, while the rest goes out
(`WebResponses.cpp:232`).

## 8 Only model-checked, not modelled

*Only model-checked*: the liveness properties (`ClearTakesEffect`,
`ReportsAreRead`, `SavedAgainAndAgain`, `ReplyGoesOut`, `RequestOrClosed`),
which are outside what TLAPS proves here.  Every invariant and every action
property of a passing run is also proved.

*Left out of the models*: the texts sent to the serial monitor; `isCloseToMax`,
which nothing sets; SSID and password; the branches of `/set` that only answer.
The second `yield()` of `display()` is merged with the first: nothing `loop()`
does lies between them but the transfer.  Contact bounce is left out of
`Button`.  In `Panel` the cursor is not cut to 16 bits: pages that move it
without setting it do not follow one another often enough.  `setup()` is one
step: WiFi is taken to be off until the button switches it on, and the timer
is attached last, so nothing can run inside (that the core may keep a WiFi
mode across restarts is a setting outside the repository); that `setup()`
stops for ever when the image of the panel cannot be allocated is left out.

*Not modelled*: of ESPAsyncWebServer the choice of a handler by URL (string
comparison without state: the three URLs of the sketch are the three handlers
of `Byter`), form and multipart bodies, files, templates, chunked replies,
WebSocket and EventSource, and of ESPAsyncTCP connecting, DNS and SSL: the
sketch calls none of them.  Of Adafruit_GFX the other shapes; the bus under
Adafruit_SSD1306, and what the chip makes of a broken transmission.  The
libraries the sketch does not use, the trial sketches, the board design.  The
map covers a small share of all lines in the repository for that reason: 1062
of its 1073 files are libraries, most of them unused.

## 9 Plan

The order was: what a report does to the count (`KeyReport`,
`StrokeCounting`), the device with everything that runs between the steps of
`loop()` (`Eeprom`, `Byter`, `StrokeCounter`), then the two details `Byter`
abstracts from (`FrameReader`, `Button`), then what it runs on (`WebRequest`,
`WebConnection`, `Panel`), and proofs beside each.  What could follow:

1. The EEPROM driver in steps (begin, put, commit, end, erase, program, power
   cut), shown to have the outcomes of module `Eeprom`.
2. `Button` and `Byter` composed: rounds as long as what they do, so that
   `MaxRound` follows from the messages instead of being a parameter.
3. Several connections at once, with the handlers of `Byter` behind them.
