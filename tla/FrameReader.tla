---------------------------- MODULE FrameReader ----------------------------
(***************************************************************************)
(* How rw() finds key reports in the byte stream of the CH9350: from       *)
(* Serial.available() to v8.  What follows is module KeyReport.            *)
(*                                                                         *)
(* rw() knows a frame only by its first six bytes.  It reads a byte,       *)
(* compares, and gives up on the first one that is not the expected one,   *)
(* which it does not look at again.  After v8 it is back at the while      *)
(* loop, which drops the serial number and the checksum like any other     *)
(* byte that is not 0x57.                                                  *)
(***************************************************************************)
EXTENDS KeyReport, Sequences

CONSTANTS
  Frames,       \* the frames that are sent: key report, command code and
                \* serial number
  MaxFrames,    \* bound: how many are sent
  RxSize        \* bytes the serial receive buffer holds

ASSUME FrameReaderAssumption ==
  /\ Frames \subseteq
       [keys : [Slots -> 0..255], code : {131, 136}, serial : 0..255]
  /\ MaxFrames \in Nat
  /\ RxSize \in Nat \ {0}

\* Mutant of Header: the command code of the chip's state 0.
HeaderOfState0 == <<87, 171, 136, 12, 18, 1>>

\* 57 AB 83 0C 12 01
Header == <<87, 171, 131, 12, 18, 1>>

\* "One byte, sum of key values and serial number"; the 1 is the last byte of
\* the header, which marks a keyboard.
Checksum(f) ==
  (1 + f.keys[3] + f.keys[4] + f.keys[5] + f.keys[6] + f.keys[7] + f.keys[8]
     + f.serial) % 256

\* A frame as the chip sends it: header, modifiers v1, reserved v2, the keys
\* v3 .. v8, serial number, checksum.
Bytes(f) ==
  <<87, 171, f.code, 12, 18, 1>> \o <<0, 0>>
    \o [i \in 1..6 |-> f.keys[i + 2]] \o <<f.serial, Checksum(f)>>
\* Serial numbers need not be consecutive: frames of other kinds may lie in
\* between.
FrameLen == 16

VARIABLES
  sent,     \* history: the frames the chip has sent or is sending
  out,      \* how many bytes of the last of them are on their way
  rx,       \* serial receive buffer: bytes with the number of their frame
  got,      \* the bytes rw() has taken since the while loop
  decoded,  \* history: the reports rw() has counted, each with the number
            \* of the frame it began in
  lost,     \* history: the frames that lost a byte
  torn,     \* history: the frames rw() was reading at that moment
  skipped   \* history: the frames that lost a byte while rw() was reading one

line == <<sent, out>>
vars == <<sent, out, rx, got, decoded, lost, torn, skipped>>

Nothing == [val |-> -1, from |-> 0]

Init ==
  /\ sent = <<>> /\ out = FrameLen
  /\ rx = <<>>
  /\ got = <<>>
  /\ decoded = <<>>
  /\ lost = {} /\ torn = {} /\ skipped = {}

-----------------------------------------------------------------------------
(* The chip and the receive buffer, which loses its oldest byte when full  *)

StartFrame(f) ==
  /\ out = FrameLen
  /\ Len(sent) < MaxFrames
  /\ sent' = Append(sent, f)
  /\ out' = 0
  /\ UNCHANGED <<rx, got, decoded, lost, torn, skipped>>

SendByte ==
  /\ out < FrameLen
  /\ LET byte == [val |-> Bytes(sent[Len(sent)])[out + 1], from |-> Len(sent)] IN
       IF Len(rx) < RxSize
       THEN rx' = Append(rx, byte) /\ UNCHANGED <<lost, torn, skipped>>
       ELSE /\ rx' = Append(Tail(rx), byte)
            /\ lost' = lost \cup {Head(rx).from}
            /\ torn' = torn \cup {got[i].from : i \in DOMAIN got}
            /\ skipped' = IF got = <<>> THEN skipped
                          ELSE skipped \cup {Head(rx).from}
  /\ out' = out + 1
  /\ UNCHANGED <<sent, got, decoded>>

-----------------------------------------------------------------------------
(* rw()                                                                    *)

\* Serial.read(): -1 if there is nothing.  A byte takes less time than the
\* delay(1) before each read, so there is something while a frame is sent.
Byte == IF rx = <<>> THEN Nothing ELSE Head(rx)
Read ==
  /\ rx = <<>> => out = FrameLen
  /\ rx' = IF rx = <<>> THEN <<>> ELSE Tail(rx)

\* while (Serial.available() > 0) { if (Serial.read() == 0x57) { ...
FindStart ==
  /\ got = <<>> /\ rx # <<>>
  /\ got' = IF Head(rx).val = Header[1] THEN <<Head(rx)>> ELSE <<>>
  /\ rx' = Tail(rx)
  /\ UNCHANGED <<line, decoded, lost, torn, skipped>>

\* The other five bytes of the header.
MatchHeader ==
  /\ Len(got) \in 1..(Len(Header) - 1)
  /\ Read
  /\ got' = IF Byte.val = Header[Len(got) + 1] THEN Append(got, Byte) ELSE <<>>
  /\ UNCHANGED <<line, decoded, lost, torn, skipped>>

\* Mutants of FirstKey: v2 is taken for a key; the serial number is.
FirstKeyTooSoon == Len(Header) + 2
FirstKeyTooLate == Len(Header) + 4

\* v1 and v2 are read and not used.
FirstKey == Len(Header) + 3

\* v1 .. v7
ReadValue ==
  /\ Len(got) \in Len(Header)..(FirstKey + 3)
  /\ Read
  /\ got' = Append(got, Byte)
  /\ UNCHANGED <<line, decoded, lost, torn, skipped>>

\* v8: the report is complete and counted.
ReadLastValue ==
  /\ Len(got) = FirstKey + 4
  /\ Read
  /\ LET taken == Append(got, Byte) IN
       decoded' = Append(decoded,
                    [from |-> got[1].from,
                     keys |-> [s \in Slots |-> taken[FirstKey + s - 3].val]])
  /\ got' = <<>>
  /\ UNCHANGED <<line, lost, torn, skipped>>

-----------------------------------------------------------------------------

Next ==
  \/ \E f \in Frames : StartFrame(f)
  \/ SendByte
  \/ FindStart \/ MatchHeader \/ ReadValue \/ ReadLastValue

Spec == Init /\ [][Next]_vars

-----------------------------------------------------------------------------

\* The variables keep to their ranges; rw() takes 14 bytes of a frame at most.
\* Frame 0 in torn is a byte that was not there.
TypeOK ==
  /\ sent \in Seq(Frames)
  /\ out \in 0..FrameLen
  /\ Len(rx) <= RxSize
  /\ Len(got) < FrameLen - 2
  /\ \A i \in DOMAIN decoded : decoded[i].keys \in [Slots -> Usage]
  /\ torn \subseteq 0..Len(sent) /\ lost \subseteq 1..Len(sent)

IsWhole(report) == report.keys = sent[report.from].keys

\* What rw() counts was sent: a report is the frame it began in, whole, unless
\* the buffer overflowed while rw() was inside that frame.  These frames are
\* counted at most once, in the order they were sent.  In particular, after
\* the buffer has overflowed between two frames rw() starts in the middle of
\* one, and never puts a report together from the bytes of two.
DecodedWereSent ==
  \A i \in DOMAIN decoded :
    decoded[i].from \notin torn =>
      /\ IsWhole(decoded[i])
      /\ \A j \in 1..(i - 1) : decoded[j].from < decoded[i].from

\* The last bytes of frame f read like the first ones of a header, so that
\* rw() takes the next 0x57 for a wrong byte of that header: the checksum is
\* 0x57, or serial number and checksum are 0x57 0xAB, and so on.
EndsLikeHeader(f) ==
  \E k \in 1..Len(Header) :
    \A i \in 1..k : Bytes(f)[FrameLen - k + i] = Header[i]

\* rw() was not led astray on its way to frame n: the frame before it was not
\* cut while rw() was inside that one or an earlier one (and would then read
\* on from the middle of it into frame n), and does not end like a header
\* begins.
Undisturbed(n) ==
  n > 1 => n - 1 \notin skipped /\ ~EndsLikeHeader(sent[n - 1])

\* Once the line is quiet and rw() has drained the buffer, every frame of
\* state 1 that lost no byte has been counted, unless the frame before it
\* disturbed it: rw() is back in step after one frame, whatever happened.
OthersDecoded ==
  out = FrameLen /\ rx = <<>> /\ got = <<>> =>
    \A n \in DOMAIN sent :
      \/ n \in lost \/ sent[n].code # 131 \/ ~Undisturbed(n)
      \/ \E i \in DOMAIN decoded : decoded[i].from = n

-----------------------------------------------------------------------------
(* The abstract specification                                              *)

Reports == INSTANCE ReportLine WITH counted <- decoded

\* However it finds them, rw() takes reports from a line that loses some of
\* them and never repeats or reorders one: at the moment it counts a report
\* it is one that was sent, and later than all before it, or it is of a frame
\* that was already torn, and no earlier than these.  What has been counted
\* is not changed afterwards, and what is torn was not passed long ago.
ReportLineSpec == Reports!Spec

-----------------------------------------------------------------------------
(* What comments say, and the code does not do                             *)

\* A frame begins with 57 AB, its checksum is part of it: every frame that
\* lost no byte is counted.
AllDecoded ==
  out = FrameLen /\ rx = <<>> /\ got = <<>> =>
    \A n \in DOMAIN sent :
      n \in lost \/ \E i \in DOMAIN decoded : decoded[i].from = n

=============================================================================
