------------------------- MODULE FrameReaderProofs -------------------------
(***************************************************************************)
(* What rw() counts was sent, and no frame that nothing disturbed is       *)
(* missed, for every number of frames, every size of the receive buffer    *)
(* and all serial numbers.                                                 *)
(*                                                                         *)
(* The bytes sent are numbered through, 16 to a frame.  The buffer is      *)
(* always the last of them; the bytes rw() holds are those just before the *)
(* buffer, unless it overflowed meanwhile.  The heart is HeaderAtStart: no *)
(* six bytes in a row read like a header unless a frame begins there.      *)
(* That none is missed rests on InStep: rw() looks for a header when an    *)
(* undisturbed frame begins.                                               *)
(***************************************************************************)
EXTENDS FrameReader, SequenceTheorems, TLAPS

\* No key has the usage 0xAB, the second byte of the header.
NoKeyIsAB == \A f \in Frames : \A s \in Slots : f.keys[s] # 171

\* The frame and the place in it of the p-th byte.
FrameOf(p) == (p + 15) \div 16
PlaceOf(p) == p - 16 * (FrameOf(p) - 1)

LEMMA Places ==
  ASSUME NEW p \in Nat \ {0}
  PROVE  /\ FrameOf(p) \in Nat \ {0} /\ PlaceOf(p) \in 1..16
         /\ p = 16 * (FrameOf(p) - 1) + PlaceOf(p)
  BY DEF FrameOf, PlaceOf

LEMMA PlaceIs ==
  ASSUME NEW k \in Nat \ {0}, NEW b \in 1..16
  PROVE  /\ FrameOf(16 * (k - 1) + b) = k
         /\ PlaceOf(16 * (k - 1) + b) = b
  BY DEF FrameOf, PlaceOf

LEMMA FrameOrder ==
  ASSUME NEW p \in Nat, NEW q \in Nat, p <= q
  PROVE  FrameOf(p) \in Nat /\ FrameOf(q) \in Nat /\ FrameOf(p) <= FrameOf(q)
  BY DEF FrameOf

\* Before the first byte of frame k there are only earlier frames.
LEMMA FrameBefore ==
  ASSUME NEW k \in Nat \ {0}
  PROVE  FrameOf(16 * (k - 1)) = k - 1
  BY DEF FrameOf

\* The p-th byte of the frames q.
StreamByte(q, p) ==
  [val |-> Bytes(q[FrameOf(p)])[PlaceOf(p)], from |-> FrameOf(p)]

Total    == 16 * (Len(sent) - 1) + out
Consumed == Total - Len(rx)

-----------------------------------------------------------------------------
(* A frame                                                                 *)

LEMMA HeaderIs ==
  /\ Len(Header) = 6 /\ FirstKey = 9
  /\ Header[1] = 87 /\ Header[2] = 171 /\ Header[3] = 131
  /\ Header[4] = 12 /\ Header[5] = 18 /\ Header[6] = 1
  BY DEF Header, FirstKey

LEMMA FrameType ==
  ASSUME NEW f \in Frames
  PROVE  /\ f.keys \in [Slots -> 0..255]
         /\ f.code \in {131, 136} /\ f.serial \in 0..255
         /\ Checksum(f) \in 0..255
<1>3. /\ f.keys \in [Slots -> 0..255] /\ f.code \in {131, 136}
      /\ f.serial \in 0..255
  BY FrameReaderAssumption DEF FrameReaderAssumption
<1>4. \A s \in Slots : f.keys[s] \in 0..255
  BY <1>3
<1>5. 3 \in Slots /\ 4 \in Slots /\ 5 \in Slots /\ 6 \in Slots /\ 7 \in Slots /\ 8 \in Slots
  BY DEF Slots
<1>6. /\ f.keys[3] \in 0..255 /\ f.keys[4] \in 0..255 /\ f.keys[5] \in 0..255
      /\ f.keys[6] \in 0..255 /\ f.keys[7] \in 0..255 /\ f.keys[8] \in 0..255
  BY <1>4, <1>5
<1>8. Checksum(f) \in 0..255
  <2> DEFINE k3 == f.keys[3]
             k4 == f.keys[4]
             k5 == f.keys[5]
             k6 == f.keys[6]
             k7 == f.keys[7]
             k8 == f.keys[8]
             n  == f.serial
  <2>1. Checksum(f) = (1 + k3 + k4 + k5 + k6 + k7 + k8 + n) % 256
    BY DEF Checksum
  <2>2. /\ k3 \in 0..255 /\ k4 \in 0..255 /\ k5 \in 0..255 /\ k6 \in 0..255
        /\ k7 \in 0..255 /\ k8 \in 0..255 /\ n \in 0..255
    BY <1>3, <1>6
  <2> HIDE DEF k3, k4, k5, k6, k7, k8, n
  <2> QED
    <3>1. (1 + k3 + k4 + k5 + k6 + k7 + k8 + n) % 256 \in 0..255
      BY <2>2
    <3> QED
      BY <2>1, <3>1
<1> QED
  BY <1>3, <1>8

\* The i-th element of two sequences one after the other.
LEMMA Joined ==
  ASSUME NEW s \in Seq(Int), NEW t \in Seq(Int)
  PROVE  /\ s \o t \in Seq(Int) /\ Len(s \o t) = Len(s) + Len(t)
         /\ \A i \in 1..Len(s) : (s \o t)[i] = s[i]
         /\ \A i \in 1..Len(t) : (s \o t)[Len(s) + i] = t[i]
<1>1. /\ s \o t \in Seq(Int) /\ Len(s \o t) = Len(s) + Len(t)
      /\ \A i \in 1..(Len(s) + Len(t)) :
           (s \o t)[i] = IF i <= Len(s) THEN s[i] ELSE t[i - Len(s)]
  BY ConcatProperties
<1>2. Len(s) \in Nat /\ Len(t) \in Nat
  BY LenProperties
<1> DEFINE m == Len(s)
           n == Len(t)
           st == s \o t
<1>3. m \in Nat /\ n \in Nat
  BY <1>2
<1>4. \A i \in 1..(m + n) : st[i] = IF i <= m THEN s[i] ELSE t[i - m]
  BY <1>1
<1> HIDE DEF m, n, st
<1>5. ASSUME NEW i \in 1..m PROVE st[i] = s[i]
  <2>1. i \in 1..(m + n) /\ i <= m
    BY <1>3
  <2> QED
    BY <1>4, <2>1
<1>6. ASSUME NEW i \in 1..n PROVE st[m + i] = t[i]
  <2>1. m + i \in 1..(m + n) /\ ~(m + i <= m) /\ (m + i) - m = i
    BY <1>3
  <2> QED
    BY <1>4, <2>1
<1> QED
  BY <1>1, <1>5, <1>6 DEF m, n, st

\* Byte by byte.
LEMMA BytesAre ==
  ASSUME NEW f \in Frames
  PROVE  /\ Bytes(f)[1] = 87 /\ Bytes(f)[2] = 171 /\ Bytes(f)[3] = f.code
         /\ Bytes(f)[4] = 12 /\ Bytes(f)[5] = 18 /\ Bytes(f)[6] = 1
         /\ Bytes(f)[7] = 0 /\ Bytes(f)[8] = 0
         /\ \A i \in 1..6 : Bytes(f)[8 + i] = f.keys[i + 2]
         /\ Bytes(f)[15] = f.serial /\ Bytes(f)[16] = Checksum(f)
<1>0. f.code \in Int /\ f.serial \in Int /\ Checksum(f) \in Int
  <2>1. f.code \in {131, 136}
    BY FrameType
  <2>2. f.serial \in 0..255 /\ Checksum(f) \in 0..255
    BY FrameType
  <2>3. ASSUME NEW n, n \in 0..255 \/ n \in {131, 136} PROVE n \in Int
    BY <2>3
  <2> QED
    BY <2>1, <2>2, <2>3
<1> DEFINE h == <<87, 171, f.code, 12, 18, 1>>
           z == <<0, 0>>
           k == [i \in 1..6 |-> f.keys[i + 2]]
           e == <<f.serial, Checksum(f)>>
<1>1. /\ h \in Seq(Int) /\ Len(h) = 6
      /\ h[1] = 87 /\ h[2] = 171 /\ h[3] = f.code /\ h[4] = 12
      /\ h[5] = 18 /\ h[6] = 1
  BY <1>0
<1>2. z \in Seq(Int) /\ Len(z) = 2 /\ z[1] = 0 /\ z[2] = 0
  OBVIOUS
<1>3. k \in Seq(Int) /\ Len(k) = 6 /\ \A i \in 1..6 : k[i] = f.keys[i + 2]
  <2>1. \A i \in 1..6 : f.keys[i + 2] \in Int
    <3>1. \A i \in 1..6 : i + 2 \in Slots
      BY DEF Slots
    <3>2. \A s \in Slots : f.keys[s] \in Int
      BY FrameType
    <3> QED
      BY <3>1, <3>2
  <2>2. k \in [1..6 -> Int]
    BY <2>1
  <2> QED
    BY <2>2
<1>4. /\ e \in Seq(Int) /\ Len(e) = 2
      /\ e[1] = f.serial /\ e[2] = Checksum(f)
  BY <1>0
<1>5. Bytes(f) = ((h \o z) \o k) \o e
  BY DEF Bytes
<1> HIDE DEF h, z, k, e
<1> DEFINE hz == h \o z
           hzk == hz \o k
           all == hzk \o e
<1>6. /\ hz \in Seq(Int) /\ Len(hz) = 8
      /\ \A i \in 1..6 : hz[i] = h[i]
      /\ \A i \in 1..2 : hz[6 + i] = z[i]
  <2>1. /\ hz \in Seq(Int) /\ Len(hz) = Len(h) + Len(z)
        /\ \A i \in 1..Len(h) : hz[i] = h[i]
        /\ \A i \in 1..Len(z) : hz[Len(h) + i] = z[i]
    <3>1. h \in Seq(Int) /\ z \in Seq(Int)
      BY <1>1, <1>2
    <3> QED
      BY <3>1, Joined
  <2> HIDE DEF hz
  <2> QED
    BY <1>1, <1>2, <2>1
<1>7. /\ hzk \in Seq(Int) /\ Len(hzk) = 14
      /\ \A i \in 1..8 : hzk[i] = hz[i]
      /\ \A i \in 1..6 : hzk[8 + i] = k[i]
  <2> HIDE DEF hz
  <2>1. /\ hzk \in Seq(Int) /\ Len(hzk) = Len(hz) + Len(k)
        /\ \A i \in 1..Len(hz) : hzk[i] = hz[i]
        /\ \A i \in 1..Len(k) : hzk[Len(hz) + i] = k[i]
    BY <1>3, <1>6, Joined
  <2> HIDE DEF hzk
  <2> QED
    BY <1>3, <1>6, <2>1
<1>8. /\ \A i \in 1..14 : all[i] = hzk[i]
      /\ \A i \in 1..2 : all[14 + i] = e[i]
  <2> HIDE DEF hzk
  <2>1. /\ \A i \in 1..Len(hzk) : all[i] = hzk[i]
        /\ \A i \in 1..Len(e) : all[Len(hzk) + i] = e[i]
    BY <1>4, <1>7, Joined
  <2> HIDE DEF all
  <2> QED
    BY <1>4, <1>7, <2>1
<1>9. Bytes(f) = all
  BY <1>5
<1> HIDE DEF hz, hzk, all
<1>10. /\ \A i \in 1..8 : Bytes(f)[i] = hz[i]
       /\ \A i \in 1..6 : Bytes(f)[8 + i] = k[i]
       /\ Bytes(f)[14 + 1] = e[1] /\ Bytes(f)[14 + 2] = e[2]
  <2>1. \A i \in 1..8 : i \in 1..14
    OBVIOUS
  <2>2. \A i \in 1..6 : 8 + i \in 1..14
    OBVIOUS
  <2>3. 1 \in 1..2 /\ 2 \in 1..2
    OBVIOUS
  <2> QED
    BY <1>7, <1>8, <1>9, <2>1, <2>2, <2>3, Zenon
<1>11. /\ \A i \in 1..6 : Bytes(f)[i] = h[i]
       /\ Bytes(f)[6 + 1] = z[1] /\ Bytes(f)[6 + 2] = z[2]
  <2>1. \A i \in 1..6 : i \in 1..8
    OBVIOUS
  <2>2. 1 \in 1..2 /\ 2 \in 1..2 /\ 6 + 1 \in 1..8 /\ 6 + 2 \in 1..8
    OBVIOUS
  <2> QED
    BY <1>6, <1>10, <2>1, <2>2, Zenon
<1>12. /\ Bytes(f)[1] = h[1] /\ Bytes(f)[2] = h[2] /\ Bytes(f)[3] = h[3]
       /\ Bytes(f)[4] = h[4] /\ Bytes(f)[5] = h[5] /\ Bytes(f)[6] = h[6]
  BY <1>11
<1>13. 6 + 1 = 7 /\ 6 + 2 = 8 /\ 14 + 1 = 15 /\ 14 + 2 = 16
  OBVIOUS
<1>14. /\ Bytes(f)[7] = z[1] /\ Bytes(f)[8] = z[2]
       /\ Bytes(f)[15] = e[1] /\ Bytes(f)[16] = e[2]
  BY <1>10, <1>11, <1>13, Zenon
<1>15. /\ Bytes(f)[1] = 87 /\ Bytes(f)[2] = 171 /\ Bytes(f)[3] = f.code
       /\ Bytes(f)[4] = 12 /\ Bytes(f)[5] = 18 /\ Bytes(f)[6] = 1
  <2>1. /\ h[1] = 87 /\ h[2] = 171 /\ h[3] = f.code
        /\ h[4] = 12 /\ h[5] = 18 /\ h[6] = 1
    BY <1>1, Zenon
  <2> QED
    BY <1>12, <2>1, Zenon
<1>16. /\ Bytes(f)[7] = 0 /\ Bytes(f)[8] = 0
       /\ Bytes(f)[15] = f.serial /\ Bytes(f)[16] = Checksum(f)
  BY <1>2, <1>4, <1>14, Zenon
<1>17. \A i \in 1..6 : Bytes(f)[8 + i] = f.keys[i + 2]
  BY <1>3, <1>10, Zenon
<1> QED
  BY <1>15, <1>16, <1>17, Zenon

LEMMA BytesType ==
  ASSUME NEW f \in Frames, NEW b \in 1..16
  PROVE  Bytes(f)[b] \in 0..255
<1> DEFINE x == Bytes(f)
           c == f.code
           d == f.serial
           e == Checksum(f)
           u == f.keys
<1>1. /\ x[1] = 87 /\ x[2] = 171 /\ x[3] = c /\ x[4] = 12 /\ x[5] = 18
      /\ x[6] = 1 /\ x[7] = 0 /\ x[8] = 0 /\ x[15] = d /\ x[16] = e
  BY BytesAre
<1>2. \A i \in 1..6 : x[8 + i] = u[i + 2]
  BY BytesAre
<1>3. c \in 0..255 /\ d \in 0..255 /\ e \in 0..255
  BY FrameType
<1>4. \A s \in Slots : u[s] \in 0..255
  BY FrameType
<1> HIDE DEF x, c, d, e, u
<1>5. CASE b \in 9..14
  <2>1. b - 8 \in 1..6 /\ 8 + (b - 8) = b /\ (b - 8) + 2 \in Slots
    BY <1>5 DEF Slots
  <2>2. x[b] = u[(b - 8) + 2]
    BY <1>2, <2>1
  <2>3. u[(b - 8) + 2] \in 0..255
    BY <1>4, <2>1
  <2> QED
    BY <2>2, <2>3 DEF x
<1>6. CASE b \notin 9..14
  <2>1. \/ b = 1 \/ b = 2 \/ b = 3 \/ b = 4 \/ b = 5 \/ b = 6 \/ b = 7 \/ b = 8
        \/ b = 15 \/ b = 16
    BY <1>6
  <2>2. x[b] \in 0..255
    BY <1>1, <1>3, <2>1
  <2> QED
    BY <2>2 DEF x
<1> QED
  BY <1>5, <1>6

\* Six bytes in a row are those of a header only where a frame begins: 0x57
\* may be a key, a serial number or a checksum, but what follows is not 0xAB,
\* or what follows that is the 0x57 of the next frame.
LEMMA HeaderAtStart ==
  ASSUME NoKeyIsAB, NEW q \in Seq(Frames), NEW p \in Nat \ {0},
         FrameOf(p + 5) <= Len(q),
         \A i \in 1..6 : StreamByte(q, p + (i - 1)).val = Header[i]
  PROVE  PlaceOf(p) = 1
<1> DEFINE k == FrameOf(p)
           b == PlaceOf(p)
<1>1. k \in Nat \ {0} /\ b \in 1..16 /\ p = 16 * (k - 1) + b
  BY Places
<1> HIDE DEF k, b
<1>2. /\ StreamByte(q, p).val = 87 /\ StreamByte(q, p + 1).val = 171
      /\ StreamByte(q, p + 2).val = 131 /\ StreamByte(q, p + 3).val = 12
  <2>1. /\ StreamByte(q, p + (1 - 1)).val = Header[1]
        /\ StreamByte(q, p + (2 - 1)).val = Header[2]
        /\ StreamByte(q, p + (3 - 1)).val = Header[3]
        /\ StreamByte(q, p + (4 - 1)).val = Header[4]
    OBVIOUS
  <2>2. /\ p + (1 - 1) = p /\ p + (2 - 1) = p + 1
        /\ p + (3 - 1) = p + 2 /\ p + (4 - 1) = p + 3
    OBVIOUS
  <2> QED
    BY <2>1, <2>2, HeaderIs
<1>3. \A m \in 0..5 : FrameOf(p + m) \in 1..Len(q)
  <2> SUFFICES ASSUME NEW m \in 0..5 PROVE FrameOf(p + m) \in 1..Len(q)
    OBVIOUS
  <2>0. /\ p + m \in Nat \ {0} /\ p + m \in Nat /\ p + 5 \in Nat
        /\ p + m <= p + 5
    OBVIOUS
  <2>1. FrameOf(p + m) \in Nat \ {0}
    BY <2>0, Places, Zenon
  <2>2. FrameOf(p + m) <= FrameOf(p + 5) /\ FrameOf(p + 5) \in Nat
    BY <2>0, FrameOrder, Zenon
  <2>3. Len(q) \in Nat
    BY LenProperties
  <2> QED
    BY <2>1, <2>2, <2>3
\* The m-th byte after p, in this frame or the next.
<1>4. ASSUME NEW m \in 0..5, b + m <= 16
      PROVE  /\ k \in 1..Len(q)
             /\ StreamByte(q, p + m).val = Bytes(q[k])[b + m]
  <2>1. b + m \in 1..16 /\ p + m = 16 * (k - 1) + (b + m)
    BY <1>1, <1>4
  <2>2. FrameOf(p + m) = k /\ PlaceOf(p + m) = b + m
    <3>1. /\ FrameOf(16 * (k - 1) + (b + m)) = k
          /\ PlaceOf(16 * (k - 1) + (b + m)) = b + m
      BY <1>1, <2>1, PlaceIs, Zenon
    <3> QED
      BY <2>1, <3>1, Zenon
  <2> QED
    BY <1>3, <2>2 DEF StreamByte
<1>5. ASSUME NEW m \in 0..5, b + m = 17
      PROVE  StreamByte(q, p + m).val = 87
  <2>1. p + m = 16 * ((k + 1) - 1) + 1 /\ k + 1 \in Nat \ {0}
    BY <1>1, <1>5
  <2>2. FrameOf(p + m) = k + 1 /\ PlaceOf(p + m) = 1
    <3> DEFINE j == k + 1
    <3>1. j \in Nat \ {0} /\ 1 \in 1..16 /\ p + m = 16 * (j - 1) + 1
      BY <2>1
    <3> HIDE DEF j
    <3>2. FrameOf(16 * (j - 1) + 1) = j /\ PlaceOf(16 * (j - 1) + 1) = 1
      BY <3>1, PlaceIs
    <3> QED
      BY <3>1, <3>2 DEF j
  <2>3. q[k + 1] \in Frames
    BY <1>3, <2>2, ElementOfSeq
  <2> QED
    BY <2>2, <2>3, BytesAre DEF StreamByte
<1>6. k \in 1..Len(q) /\ Bytes(q[k])[b] = 87
  BY <1>1, <1>2, <1>4
<1>7. q[k] \in Frames
  BY <1>6, ElementOfSeq
<1> DEFINE x == Bytes(q[k])
           c == q[k].code
           u == q[k].keys
<1>17. /\ x[2] = 171 /\ x[3] = c /\ x[4] = 12 /\ x[5] = 18
       /\ x[6] = 1 /\ x[7] = 0 /\ x[8] = 0
       /\ \A i \in 1..6 : x[8 + i] = u[i + 2]
  BY <1>7, BytesAre
<1>18. c # 87
  <2>1. c \in {131, 136}
    BY <1>7, FrameType, Zenon
  <2> HIDE DEF c
  <2> QED
    BY <2>1
<1>19. \A s \in Slots : u[s] # 171
  BY <1>7 DEF NoKeyIsAB
<1>20. x[b] = 87 /\ (b <= 15 => x[b + 1] = 171)
  <2>1. b <= 15 => x[b + 1] = 171
    <3> SUFFICES ASSUME b <= 15 PROVE x[b + 1] = 171
      OBVIOUS
    <3>1. 1 \in 0..5 /\ b + 1 <= 16
      BY <1>1
    <3>2. StreamByte(q, p + 1).val = x[b + 1]
      BY <1>4, <3>1, Zenon
    <3> QED
      BY <1>2, <3>2, Zenon
  <2> QED
    BY <1>6, <2>1
<1> HIDE DEF x, c, u
<1>8. b \notin 2..8
  <2>2. /\ b # 2 /\ b # 3 /\ b # 4 /\ b # 5 /\ b # 6 /\ b # 7 /\ b # 8
    <3>1. x[b] = 87
      BY <1>20
    <3>2. /\ x[2] = 171 /\ x[3] = c /\ x[4] = 12 /\ x[5] = 18
          /\ x[6] = 1 /\ x[7] = 0 /\ x[8] = 0
      BY <1>17
    <3> QED
      BY ONLY <1>18, <3>1, <3>2
  <2>3. \A n \in 2..8 : n \in {2, 3, 4, 5, 6, 7, 8}
    OBVIOUS
  <2> QED
    BY <2>2, <2>3, Zenon
<1>9. b \notin 9..13
  <2> SUFFICES ASSUME b \in 9..13 PROVE FALSE
    OBVIOUS
  <2>1. b - 7 \in 1..6 /\ 8 + (b - 7) = b + 1 /\ (b - 7) + 2 \in Slots /\ b <= 15
    BY DEF Slots
  <2>2. x[8 + (b - 7)] = u[(b - 7) + 2]
    BY <1>17, <2>1
  <2>3. x[b + 1] = u[(b - 7) + 2]
    BY <2>1, <2>2
  <2>5. x[b + 1] = 171 /\ (b - 7) + 2 \in Slots
    BY <1>20, <2>1
  <2>4. u[(b - 7) + 2] = 171
    BY <2>3, <2>5, Zenon
  <2> QED
    BY <1>19, <2>4, <2>5
<1>10. b # 14
  <2> SUFFICES ASSUME b = 14 PROVE FALSE
    OBVIOUS
  <2>1. 3 \in 0..5 /\ b + 3 = 17
    OBVIOUS
  <2>2. StreamByte(q, p + 3).val = 87
    BY <1>5, <2>1, Zenon
  <2>3. StreamByte(q, p + 3).val = 12
    BY <1>2, Zenon
  <2> QED
    BY ONLY <2>2, <2>3
<1>11. b # 15
  <2> SUFFICES ASSUME b = 15 PROVE FALSE
    OBVIOUS
  <2>1. 2 \in 0..5 /\ b + 2 = 17
    OBVIOUS
  <2>2. StreamByte(q, p + 2).val = 87
    BY <1>5, <2>1, Zenon
  <2>3. StreamByte(q, p + 2).val = 131
    BY <1>2, Zenon
  <2> QED
    BY ONLY <2>2, <2>3
<1>12. b # 16
  <2> SUFFICES ASSUME b = 16 PROVE FALSE
    OBVIOUS
  <2>1. 1 \in 0..5 /\ b + 1 = 17
    OBVIOUS
  <2>2. StreamByte(q, p + 1).val = 87
    BY <1>5, <2>1, Zenon
  <2>3. StreamByte(q, p + 1).val = 171
    BY <1>2, Zenon
  <2> QED
    BY ONLY <2>2, <2>3
<1>13. b = 1
  BY <1>1, <1>8, <1>9, <1>10, <1>11, <1>12
<1> QED
  BY <1>13 DEF b

-----------------------------------------------------------------------------
(* Windows of the bytes sent                                               *)

RxByte == [val : -1..255, from : Nat]

\* r is what comes after the first c bytes of the frames q.
Window(r, q, c) == \A i \in 1..Len(r) : r[i] = StreamByte(q, c + i)

LEMMA StreamType ==
  ASSUME NEW q \in Seq(Frames), NEW p \in Nat \ {0}, FrameOf(p) <= Len(q)
  PROVE  /\ StreamByte(q, p) \in RxByte /\ StreamByte(q, p).from = FrameOf(p)
         /\ FrameOf(p) \in 1..Len(q)
<1> DEFINE k == FrameOf(p)
           b == PlaceOf(p)
           v == Bytes(q[k])[b]
<1>1. k \in Nat \ {0} /\ b \in 1..16 /\ k <= Len(q)
  BY Places
<1>2. StreamByte(q, p) = [val |-> v, from |-> k]
  BY DEF StreamByte
<1> HIDE DEF k, b
<1>3. k \in 1..Len(q) /\ q[k] \in Frames
  <2>1. Len(q) \in Nat
    BY LenProperties
  <2>2. k \in 1..Len(q)
    BY <1>1, <2>1
  <2> QED
    BY <2>2, ElementOfSeq
<1>4. v \in 0..255
  BY <1>1, <1>3, BytesType
<1> HIDE DEF v
<1>5. v \in -1..255 /\ k \in Nat
  BY <1>1, <1>4
<1> QED
  BY <1>2, <1>3, <1>5 DEF RxByte, k

LEMMA StreamGrows ==
  ASSUME NEW q \in Seq(Frames), NEW f \in Frames, NEW p \in Nat \ {0},
         FrameOf(p) <= Len(q)
  PROVE  StreamByte(Append(q, f), p) = StreamByte(q, p)
<1>1. FrameOf(p) \in 1..Len(q)
  BY StreamType
<1>2. Append(q, f)[FrameOf(p)] = q[FrameOf(p)]
  BY <1>1, AppendProperties
<1> QED
  BY <1>2 DEF StreamByte

LEMMA WindowTail ==
  ASSUME NEW q, NEW c \in Nat, NEW r \in Seq(RxByte), r # <<>>, Window(r, q, c)
  PROVE  /\ Head(r) \in RxByte /\ Head(r) = StreamByte(q, c + 1)
         /\ Tail(r) \in Seq(RxByte) /\ Len(Tail(r)) = Len(r) - 1
         /\ Len(r) \in Nat \ {0}
         /\ Window(Tail(r), q, c + 1)
<1>1. /\ Head(r) \in RxByte /\ Head(r) = r[1]
      /\ Tail(r) \in Seq(RxByte) /\ Len(Tail(r)) = Len(r) - 1
      /\ \A i \in 1..Len(Tail(r)) : Tail(r)[i] = r[i + 1]
  BY HeadTailProperties, LenProperties
<1>2. Len(r) \in Nat \ {0}
  BY EmptySeq, LenProperties
<1>3. Head(r) = StreamByte(q, c + 1)
  <2>1. 1 \in 1..Len(r)
    BY <1>2
  <2> QED
    BY <1>1, <2>1 DEF Window
<1>4. ASSUME NEW i \in 1..Len(Tail(r))
      PROVE  Tail(r)[i] = StreamByte(q, (c + 1) + i)
  <2>1. i + 1 \in 1..Len(r) /\ c + (i + 1) = (c + 1) + i
    BY <1>1, <1>2
  <2>2. r[i + 1] = StreamByte(q, c + (i + 1))
    BY <2>1 DEF Window
  <2> QED
    BY <1>1, <2>1, <2>2
<1> QED
  BY <1>1, <1>2, <1>3, <1>4 DEF Window

LEMMA WindowAppend ==
  ASSUME NEW q, NEW c \in Nat, NEW r \in Seq(RxByte), NEW b \in RxByte,
         Window(r, q, c), b = StreamByte(q, c + (Len(r) + 1))
  PROVE  /\ Append(r, b) \in Seq(RxByte) /\ Len(Append(r, b)) = Len(r) + 1
         /\ Window(Append(r, b), q, c)
<1>1. /\ Append(r, b) \in Seq(RxByte) /\ Len(Append(r, b)) = Len(r) + 1
      /\ \A i \in 1..Len(r) : Append(r, b)[i] = r[i]
      /\ Append(r, b)[Len(r) + 1] = b
  BY AppendProperties
<1>2. Len(r) \in Nat
  BY LenProperties
<1>3. ASSUME NEW i \in 1..Len(Append(r, b))
      PROVE  Append(r, b)[i] = StreamByte(q, c + i)
  <2>1. i \in 1..Len(r) \/ i = Len(r) + 1
    BY <1>1, <1>2
  <2>2. CASE i \in 1..Len(r)
    BY <1>1, <2>2 DEF Window
  <2>3. CASE i = Len(r) + 1
    BY <1>1, <2>3
  <2> QED
    BY <2>1, <2>2, <2>3
<1> QED
  BY <1>1, <1>3 DEF Window

LEMMA WindowGrows ==
  ASSUME NEW q \in Seq(Frames), NEW f \in Frames, NEW c \in Nat,
         NEW r \in Seq(RxByte), Window(r, q, c),
         FrameOf(c + Len(r)) <= Len(q)
  PROVE  Window(r, Append(q, f), c)
<1> SUFFICES ASSUME NEW i \in 1..Len(r)
             PROVE  r[i] = StreamByte(Append(q, f), c + i)
  BY DEF Window
<1>1. Len(r) \in Nat /\ Len(q) \in Nat
  BY LenProperties
<1>2. /\ c + i \in Nat \ {0} /\ c + i \in Nat /\ c + Len(r) \in Nat
      /\ c + i <= c + Len(r)
  BY <1>1
<1>3. /\ FrameOf(c + i) \in Nat /\ FrameOf(c + Len(r)) \in Nat
      /\ FrameOf(c + i) <= FrameOf(c + Len(r))
  BY <1>2, FrameOrder, Zenon
<1>4. FrameOf(c + i) <= Len(q)
  BY <1>1, <1>3
<1>5. StreamByte(Append(q, f), c + i) = StreamByte(q, c + i)
  BY <1>2, <1>4, StreamGrows
<1> QED
  BY <1>5 DEF Window

-----------------------------------------------------------------------------
(* The inductive invariant                                                 *)

Report == [from : Nat, keys : [Slots -> Usage]]

LineInv ==
  /\ sent \in Seq(Frames) /\ out \in 0..FrameLen
  /\ sent = <<>> => out = FrameLen

\* The buffer holds the last of the bytes sent.
RxInv ==
  /\ rx \in Seq(RxByte) /\ Len(rx) <= RxSize /\ Len(rx) <= Total
  /\ Window(rx, sent, Consumed)

\* The buffer has not overflowed since rw() took the first byte it holds.
Intact == got # <<>> /\ got[1].from \notin torn

\* rw() holds the bytes just before the buffer, and they read like a header.
GotInv ==
  /\ got \in Seq(RxByte) /\ Len(got) \in 0..13
  /\ \A i \in 1..Len(got) : got[i].from <= Len(sent)
  /\ \A i \in 1..6 : i <= Len(got) => got[i].val = Header[i]
  /\ got # <<>> => got[1].from <= FrameOf(Consumed)
  /\ Intact => Len(got) <= Consumed /\ Window(got, sent, Consumed - Len(got))

\* Nothing that is counted comes from a frame that is still to be read.
OrderInv ==
  /\ \A i \in DOMAIN decoded : decoded[i].from <= FrameOf(Consumed)
  /\ Intact => \A i \in DOMAIN decoded :
                 decoded[i].from <= FrameOf(Consumed - Len(got))

\* A report that was read in one piece is a frame that was sent, and later
\* than all before it.
CountedInv ==
  \A i \in DOMAIN decoded :
    decoded[i].from \notin torn =>
      /\ decoded[i].from \in 1..Len(sent) /\ IsWhole(decoded[i])
      /\ \A j \in 1..(i - 1) : decoded[j].from < decoded[i].from

HistoryInv ==
  /\ decoded \in Seq(Report)
  /\ torn \subseteq 0..Len(sent) /\ lost \subseteq 1..Len(sent)

ReaderInv == LineInv /\ RxInv /\ GotInv /\ OrderInv /\ CountedInv /\ HistoryInv

\* How much has been sent and consumed.
LEMMA Counts ==
  ASSUME LineInv, RxInv
  PROVE  /\ Total \in Nat /\ Consumed \in Nat /\ Len(rx) \in Nat
         /\ Consumed + Len(rx) = Total /\ Len(sent) \in Nat
         /\ Total <= 16 * Len(sent)
         /\ FrameOf(Consumed) \in Nat /\ FrameOf(Total) <= Len(sent)
<1>1. Len(rx) \in Nat /\ Len(sent) \in Nat
  BY LenProperties DEF RxInv, LineInv
<1>2. Len(sent) = 0 => out = 16
  BY EmptySeq DEF LineInv, FrameLen
<1>3. out \in 0..16 /\ Len(rx) <= Total
  BY DEF LineInv, RxInv, FrameLen
<1> DEFINE n == Len(sent)
           r == Len(rx)
<1>4. n \in Nat /\ r \in Nat /\ (n = 0 => out = 16)
  BY <1>1, <1>2
<1>5. Total = 16 * (n - 1) + out /\ Consumed = Total - r /\ r <= Total
  BY <1>3 DEF Total, Consumed
<1> HIDE DEF n, r
<1>6. Total \in Nat /\ Total <= 16 * n
  BY <1>3, <1>4, <1>5
<1>7. Consumed \in Nat /\ Consumed + r = Total
  BY <1>4, <1>5, <1>6
<1>8. FrameOf(Consumed) \in Nat
  BY <1>7 DEF FrameOf
<1>9. FrameOf(Total) <= n
  BY <1>4, <1>6 DEF FrameOf
<1> QED
  BY <1>4, <1>6, <1>7, <1>8, <1>9 DEF n, r

\* A report that rw() has read to the header, in one piece, starts a frame.
LEMMA HeldIsFrame ==
  ASSUME NoKeyIsAB, LineInv, RxInv, GotInv, Intact, Len(got) >= 6
  PROVE  /\ Len(got) <= Consumed
         /\ PlaceOf((Consumed - Len(got)) + 1) = 1
<1> DEFINE c == Consumed - Len(got)
           g == Len(got)
<1>1. g \in 6..13 /\ g <= Consumed /\ Window(got, sent, c)
  <2>1. g \in 0..13 /\ g >= 6 /\ g <= Consumed /\ Window(got, sent, c)
    BY Zenon DEF GotInv
  <2>2. \A m \in 0..13 : m >= 6 => m \in 6..13
    OBVIOUS
  <2> QED
    BY <2>1, <2>2, Zenon
<1>2. /\ Consumed \in Nat /\ Total \in Nat /\ Consumed <= Total
      /\ FrameOf(Total) <= Len(sent) /\ Len(sent) \in Nat
  BY Counts
<1>3. c \in Nat /\ c + g = Consumed
  BY <1>1, <1>2
<1>4. \A i \in 1..6 : i \in 1..g /\ got[i].val = Header[i]
  BY <1>1 DEF GotInv
<1> HIDE DEF c, g
<1>5. ASSUME NEW i \in 1..6
      PROVE  StreamByte(sent, (c + 1) + (i - 1)).val = Header[i]
  <2>1. (c + 1) + (i - 1) = c + i
    BY <1>3
  <2>2. got[i] = StreamByte(sent, c + i)
    BY <1>1, <1>4 DEF Window, g
  <2> QED
    BY <1>4, <2>1, <2>2
<1>6. /\ c + 1 \in Nat \ {0} /\ (c + 1) + 5 \in Nat /\ (c + 1) + 5 <= Total
  BY <1>1, <1>2, <1>3
<1>7. FrameOf((c + 1) + 5) <= Len(sent)
  <2>1. /\ FrameOf((c + 1) + 5) \in Nat /\ FrameOf(Total) \in Nat
        /\ FrameOf((c + 1) + 5) <= FrameOf(Total)
    BY <1>2, <1>6, FrameOrder, Zenon
  <2> QED
    BY <1>2, <2>1
<1>8. sent \in Seq(Frames)
  BY DEF LineInv
<1>9. PlaceOf(c + 1) = 1
  BY <1>5, <1>6, <1>7, <1>8, HeaderAtStart, Zenon
<1> QED
  BY <1>1, <1>9 DEF c, g

\* The first byte of the buffer leaves it.
LEMMA HeadIs ==
  ASSUME LineInv, RxInv, rx # <<>>
  PROVE  /\ Consumed + 1 \in Nat /\ Consumed + 1 <= Total
         /\ Head(rx) \in RxByte /\ Head(rx) = StreamByte(sent, Consumed + 1)
         /\ Head(rx).from = FrameOf(Consumed + 1)
         /\ FrameOf(Consumed + 1) \in 1..Len(sent)
         /\ FrameOf(Consumed) <= FrameOf(Consumed + 1)
         /\ Tail(rx) \in Seq(RxByte) /\ Len(Tail(rx)) = Len(rx) - 1
         /\ Window(Tail(rx), sent, Consumed + 1)
<1>1. /\ Consumed \in Nat /\ Total \in Nat /\ Len(rx) \in Nat
      /\ Consumed + Len(rx) = Total /\ FrameOf(Total) <= Len(sent)
      /\ Len(sent) \in Nat
  BY Counts
<1>2. rx \in Seq(RxByte) /\ Window(rx, sent, Consumed)
  BY DEF RxInv
<1>3. /\ Head(rx) \in RxByte /\ Head(rx) = StreamByte(sent, Consumed + 1)
      /\ Tail(rx) \in Seq(RxByte) /\ Len(Tail(rx)) = Len(rx) - 1
      /\ Len(rx) \in Nat \ {0}
      /\ Window(Tail(rx), sent, Consumed + 1)
  BY <1>1, <1>2, WindowTail
<1>4. /\ Consumed + 1 \in Nat /\ Consumed + 1 <= Total
      /\ Consumed + 1 \in Nat \ {0} /\ Consumed <= Consumed + 1
  BY <1>1, <1>3
<1>5. /\ FrameOf(Consumed + 1) \in Nat /\ FrameOf(Total) \in Nat
      /\ FrameOf(Consumed + 1) <= FrameOf(Total)
  BY <1>1, <1>4, FrameOrder, Zenon
<1>6. FrameOf(Consumed + 1) <= Len(sent)
  BY <1>1, <1>5
<1>7. /\ StreamByte(sent, Consumed + 1).from = FrameOf(Consumed + 1)
      /\ FrameOf(Consumed + 1) \in 1..Len(sent)
  <2>1. sent \in Seq(Frames)
    BY DEF LineInv
  <2> QED
    BY <1>4, <1>6, <2>1, StreamType, Zenon
<1>8. FrameOf(Consumed) <= FrameOf(Consumed + 1)
  BY <1>1, <1>4, FrameOrder, Zenon
<1> QED
  BY <1>3, <1>4, <1>7, <1>8, Zenon

\* rw() takes the first byte of the buffer.
LEMMA RxAfterRead ==
  ASSUME LineInv, RxInv, rx # <<>>, rx' = Tail(rx), UNCHANGED line
  PROVE  LineInv' /\ RxInv' /\ Total' = Total /\ Consumed' = Consumed + 1
<1>1. /\ Total \in Nat /\ Consumed \in Nat /\ Len(rx) \in Nat
      /\ Consumed + Len(rx) = Total
  BY Counts
<1>2. /\ Tail(rx) \in Seq(RxByte) /\ Len(Tail(rx)) = Len(rx) - 1
      /\ Window(Tail(rx), sent, Consumed + 1)
      /\ Consumed + 1 <= Total
  BY HeadIs
<1>3. sent' = sent /\ out' = out
  BY DEF line
<1>4. Total' = Total
  BY <1>3 DEF Total
<1>5. Consumed = Total - Len(rx) /\ Consumed' = Total' - Len(rx')
  BY DEF Consumed
<1>6. Len(rx') = Len(rx) - 1
  BY <1>2
<1>7. Consumed' = Consumed + 1
  BY <1>1, <1>4, <1>5, <1>6
<1>8. LineInv'
  BY <1>3 DEF LineInv
<1>9. RxInv'
  <2>1. Len(rx) <= RxSize /\ Len(rx) <= Total /\ RxSize \in Nat
    BY FrameReaderAssumption DEF RxInv, FrameReaderAssumption
  <2>2. Len(rx') <= RxSize /\ Len(rx') <= Total'
    BY <1>1, <1>4, <1>6, <2>1
  <2>3. rx' \in Seq(RxByte)
    BY <1>2
  <2>4. Window(rx', sent', Consumed')
    BY <1>2, <1>3, <1>7
  <2> QED
    BY <2>2, <2>3, <2>4 DEF RxInv
<1> QED
  BY <1>4, <1>7, <1>8, <1>9

\* The bytes rw() holds and the next one.
LEMMA OneMore ==
  ASSUME LineInv, RxInv, GotInv, rx # <<>>, got # <<>>,
         NEW t, t = Append(got, Head(rx))
  PROVE  /\ t \in Seq(RxByte) /\ Len(t) = Len(got) + 1
         /\ t # <<>> /\ t[1] = got[1]
         /\ \A i \in 1..Len(got) : t[i] = got[i]
         /\ t[Len(got) + 1] = Head(rx)
         /\ \A i \in 1..Len(t) : t[i].from <= Len(sent)
         /\ Intact => /\ Len(t) <= Consumed + 1
                      /\ Window(t, sent, (Consumed + 1) - Len(t))
<1>1. /\ got \in Seq(RxByte) /\ Len(got) \in 0..13
      /\ \A i \in 1..Len(got) : got[i].from <= Len(sent)
      /\ Intact => Len(got) <= Consumed /\ Window(got, sent, Consumed - Len(got))
  BY DEF GotInv
<1>2. Len(got) \in Nat \ {0}
  BY <1>1, EmptySeq
<1>3. /\ Consumed \in Nat /\ Head(rx) \in RxByte
      /\ Head(rx) = StreamByte(sent, Consumed + 1)
      /\ Head(rx).from <= Len(sent)
  <2>1. /\ Head(rx) \in RxByte /\ Head(rx) = StreamByte(sent, Consumed + 1)
        /\ Head(rx).from = FrameOf(Consumed + 1)
        /\ FrameOf(Consumed + 1) \in 1..Len(sent)
    BY HeadIs
  <2>2. Consumed \in Nat /\ Len(sent) \in Nat
    BY Counts
  <2>3. FrameOf(Consumed + 1) <= Len(sent)
    BY <2>1, <2>2
  <2> QED
    BY <2>1, <2>2, <2>3
<1>4. /\ t \in Seq(RxByte) /\ Len(t) = Len(got) + 1
      /\ \A i \in 1..Len(got) : t[i] = got[i]
      /\ t[Len(got) + 1] = Head(rx)
  BY <1>1, <1>3, AppendProperties
<1>5. t # <<>> /\ t[1] = got[1]
  <2>1. 1 \in 1..Len(got) /\ Len(t) # 0
    BY <1>2, <1>4
  <2> QED
    BY <1>4, <2>1, EmptySeq
<1>6. ASSUME NEW i \in 1..Len(t) PROVE t[i].from <= Len(sent)
  <2>1. i \in 1..Len(got) \/ i = Len(got) + 1
    BY <1>2, <1>4
  <2> QED
    BY <1>1, <1>3, <1>4, <2>1
<1>7. ASSUME Intact
      PROVE  /\ Len(t) <= Consumed + 1
             /\ Window(t, sent, (Consumed + 1) - Len(t))
  <2> DEFINE c == Consumed - Len(got)
  <2>1. /\ c \in Nat /\ (Consumed + 1) - Len(t) = c
        /\ Consumed + 1 = c + (Len(got) + 1) /\ Len(t) <= Consumed + 1
    BY <1>1, <1>2, <1>3, <1>4, <1>7
  <2>2. Window(got, sent, c)
    BY <1>1, <1>7
  <2> HIDE DEF c
  <2>3. Head(rx) = StreamByte(sent, c + (Len(got) + 1))
    BY <1>3, <2>1
  <2>4. Window(t, sent, c)
    BY <1>1, <1>3, <2>1, <2>2, <2>3, WindowAppend
  <2> QED
    BY <2>1, <2>4
<1> QED
  BY <1>4, <1>5, <1>6, <1>7

LEMMA DecodedType ==
  ASSUME HistoryInv
  PROVE  /\ Len(decoded) \in Nat /\ DOMAIN decoded = 1..Len(decoded)
         /\ \A i \in DOMAIN decoded :
              decoded[i].from \in Nat /\ decoded[i].keys \in [Slots -> Usage]
<1>1. decoded \in Seq(Report)
  BY DEF HistoryInv
<1>2. DOMAIN decoded = 1..Len(decoded) /\ Len(decoded) \in Nat
  BY <1>1, LenProperties
<1>3. \A i \in DOMAIN decoded : decoded[i] \in Report
  BY <1>1, <1>2, ElementOfSeq
<1> QED
  BY <1>2, <1>3 DEF Report

\* Reading goes on, and order is kept as long as no report is completed.
LEMMA OrderAfterRead ==
  ASSUME LineInv, RxInv, GotInv, OrderInv, HistoryInv, rx # <<>>, rx' = Tail(rx),
         UNCHANGED <<line, decoded, torn>>,
         \/ got' = <<>>
         \/ got = <<>> /\ Len(got') = 1
         \/ got # <<>> /\ got' = Append(got, Head(rx))
  PROVE  OrderInv'
<1>1. Consumed' = Consumed + 1
  BY RxAfterRead DEF line
<1>2. Consumed \in Nat /\ FrameOf(Consumed) <= FrameOf(Consumed + 1)
      /\ FrameOf(Consumed) \in Nat
  BY Counts, HeadIs
<1>3. FrameOf(Consumed + 1) \in Nat
  BY <1>2 DEF FrameOf
<1>4. \A i \in DOMAIN decoded : decoded[i].from \in Nat
  BY DecodedType
<1>5. \A i \in DOMAIN decoded : decoded[i].from <= FrameOf(Consumed)
  BY DEF OrderInv
<1>6. \A i \in DOMAIN decoded : decoded[i].from <= FrameOf(Consumed + 1)
  <2> DEFINE a == FrameOf(Consumed)
             b == FrameOf(Consumed + 1)
  <2>1. a \in Nat /\ b \in Nat /\ a <= b
    BY <1>2, <1>3
  <2> HIDE DEF a, b
  <2>2. \A n \in Nat : n <= a => n <= b
    BY <2>1
  <2> QED
    BY <1>4, <1>5, <2>2 DEF a, b
<1>7. decoded' = decoded /\ torn' = torn
  OBVIOUS
<1>8. ASSUME Intact'
      PROVE  \A i \in DOMAIN decoded :
               decoded[i].from <= FrameOf(Consumed' - Len(got'))
  <2>1. got' # <<>>
    BY <1>8 DEF Intact
  <2>2. CASE got = <<>> /\ Len(got') = 1
    <3>1. Consumed' - Len(got') = Consumed
      BY <1>1, <1>2, <2>2
    <3> QED
      BY <1>5, <3>1
  <2>3. CASE got # <<>> /\ got' = Append(got, Head(rx))
    <3>1. Len(got') = Len(got) + 1 /\ got'[1] = got[1]
      BY <2>3, OneMore
    <3>2. Intact
      BY <1>7, <1>8, <2>3, <3>1 DEF Intact
    <3>3. \A i \in DOMAIN decoded : decoded[i].from <= FrameOf(Consumed - Len(got))
      BY <3>2 DEF OrderInv
    <3>4. Consumed' - Len(got') = Consumed - Len(got)
      <4>1. Len(got) \in Nat
        BY DEF GotInv
      <4> QED
        BY <1>1, <1>2, <3>1, <4>1
    <3> QED
      BY <3>3, <3>4
  <2> QED
    BY <2>1, <2>2, <2>3
<1> QED
  BY <1>1, <1>6, <1>7, <1>8 DEF OrderInv

LEMMA NothingHeld ==
  got' = <<>> => GotInv'
<1> SUFFICES ASSUME got' = <<>> PROVE GotInv'
  OBVIOUS
<1>1. got' \in Seq(RxByte) /\ Len(got') = 0 /\ Len(got') \in 0..13
  OBVIOUS
<1>2. \A i \in 1..6 : ~(i <= Len(got'))
  BY <1>1
<1>3. \A i \in 1..Len(got') : FALSE
  BY <1>1
<1>4. ~Intact'
  BY DEF Intact
<1> QED
  BY <1>1, <1>2, <1>3, <1>4 DEF GotInv

LEMMA GotAfterRead ==
  ASSUME LineInv, RxInv, GotInv, rx # <<>>, rx' = Tail(rx),
         UNCHANGED <<line, torn>>,
         got # <<>>, Len(got) <= 12, got' = Append(got, Head(rx)),
         Len(got) < 6 => Head(rx).val = Header[Len(got) + 1]
  PROVE  GotInv'
<1>1. Consumed' = Consumed + 1 /\ sent' = sent /\ torn' = torn
  BY RxAfterRead DEF line
<1>2. /\ got' \in Seq(RxByte) /\ Len(got') = Len(got) + 1
      /\ got' # <<>> /\ got'[1] = got[1]
      /\ \A i \in 1..Len(got) : got'[i] = got[i]
      /\ got'[Len(got) + 1] = Head(rx)
      /\ \A i \in 1..Len(got') : got'[i].from <= Len(sent)
      /\ Intact => /\ Len(got') <= Consumed + 1
                   /\ Window(got', sent, (Consumed + 1) - Len(got'))
  BY OneMore
<1>3. Len(got) \in 0..13
  BY DEF GotInv
<1>4. Len(got') \in 0..13
  <2> DEFINE m == Len(got)
             n == Len(got')
  <2>1. n = m + 1 /\ m \in 0..13 /\ m <= 12
    BY <1>2, <1>3
  <2> HIDE DEF m, n
  <2>2. n \in 0..13
    BY <2>1
  <2> QED
    BY <2>2 DEF n
<1>5. ASSUME NEW i \in 1..6, i <= Len(got') PROVE got'[i].val = Header[i]
  <2>1. i \in 1..Len(got) \/ (i = Len(got) + 1 /\ Len(got) < 6)
    BY <1>2, <1>3, <1>5
  <2>2. CASE i \in 1..Len(got)
    <3>1. i <= Len(got)
      BY <1>3, <2>2
    <3> QED
      BY <1>2, <2>2, <3>1 DEF GotInv
  <2>3. CASE i = Len(got) + 1 /\ Len(got) < 6
    BY <1>2, <2>3
  <2> QED
    BY <2>1, <2>2, <2>3
<1>6. got'[1].from <= FrameOf(Consumed + 1)
  <2>1. got[1].from <= FrameOf(Consumed) /\ got[1].from \in Nat
    <3>1. 1 \in 1..Len(got)
      BY <1>3, EmptySeq DEF GotInv
    <3>2. got[1] \in RxByte
      BY <3>1, ElementOfSeq DEF GotInv
    <3> QED
      BY <3>2 DEF GotInv, RxByte
  <2>2. FrameOf(Consumed) <= FrameOf(Consumed + 1) /\ Consumed \in Nat
    BY Counts, HeadIs
  <2>3. FrameOf(Consumed) \in Nat /\ FrameOf(Consumed + 1) \in Nat
    BY <2>2 DEF FrameOf
  <2> QED
    BY <1>2, <2>1, <2>2, <2>3
<1>7. Intact' => Intact
  BY <1>1, <1>2 DEF Intact
<1>8. Intact' => /\ Len(got') <= Consumed'
                 /\ Window(got', sent', Consumed' - Len(got'))
  BY <1>1, <1>2, <1>7
<1> QED
  BY <1>1, <1>2, <1>4, <1>5, <1>6, <1>8 DEF GotInv

\* Nothing that is counted changes when the buffer overflows, or when another
\* frame is started.
LEMMA CountedStays ==
  ASSUME LineInv, CountedInv, HistoryInv,
         UNCHANGED decoded, torn \subseteq torn',
         \/ sent' = sent
         \/ \E f \in Frames : sent' = Append(sent, f)
  PROVE  CountedInv'
<1>1. sent \in Seq(Frames) /\ Len(sent) \in Nat
  BY LenProperties DEF LineInv
<1>2. /\ Len(sent') \in Nat /\ Len(sent) <= Len(sent')
      /\ \A n \in 1..Len(sent) : sent'[n] = sent[n]
  <2>1. CASE sent' = sent
    BY <1>1, <2>1
  <2>2. CASE \E f \in Frames : sent' = Append(sent, f)
    <3>1. PICK f \in Frames : sent' = Append(sent, f)
      BY <2>2
    <3>2. /\ Len(sent') = Len(sent) + 1
          /\ \A n \in 1..Len(sent) : sent'[n] = sent[n]
      BY <1>1, <3>1, AppendProperties
    <3> QED
      BY <1>1, <3>2
  <2> QED
    BY <2>1, <2>2
<1>3. ASSUME NEW i \in DOMAIN decoded, decoded[i].from \notin torn'
      PROVE  /\ decoded[i].from \in 1..Len(sent')
             /\ decoded[i].keys = sent'[decoded[i].from].keys
             /\ \A j \in 1..(i - 1) : decoded[j].from < decoded[i].from
  <2>1. /\ decoded[i].from \in 1..Len(sent) /\ IsWhole(decoded[i])
        /\ \A j \in 1..(i - 1) : decoded[j].from < decoded[i].from
    BY <1>3 DEF CountedInv
  <2>2. decoded[i].from \in 1..Len(sent')
    BY <1>1, <1>2, <2>1
  <2> QED
    BY <1>2, <2>1, <2>2 DEF IsWhole
<1> QED
  BY <1>3 DEF CountedInv, IsWhole

-----------------------------------------------------------------------------
(* The steps                                                               *)

LEMMA StartFrameStep ==
  ASSUME ReaderInv, NEW f \in Frames, StartFrame(f)
  PROVE  ReaderInv'
<1> USE DEF ReaderInv
<1>1. /\ out = 16 /\ sent' = Append(sent, f) /\ out' = 0 /\ rx' = rx
      /\ got' = got /\ decoded' = decoded /\ lost' = lost /\ torn' = torn
  BY DEF StartFrame, FrameLen
<1>2. /\ Total \in Nat /\ Consumed \in Nat /\ Len(rx) \in Nat
      /\ Consumed + Len(rx) = Total /\ Len(sent) \in Nat
      /\ FrameOf(Consumed) \in Nat /\ FrameOf(Total) <= Len(sent)
  BY Counts
<1>3. /\ sent \in Seq(Frames) /\ sent' \in Seq(Frames)
      /\ Len(sent') = Len(sent) + 1 /\ sent' # <<>>
  <2>1. sent \in Seq(Frames)
    BY DEF LineInv
  <2>2. sent' \in Seq(Frames) /\ Len(sent') = Len(sent) + 1
    BY <1>1, <2>1, AppendProperties
  <2> QED
    BY <1>2, <2>1, <2>2, EmptySeq
<1>4. Total' = Total /\ Consumed' = Consumed
  <2>1. Total = 16 * (Len(sent) - 1) + 16 /\ Total' = 16 * (Len(sent') - 1) + 0
    BY <1>1 DEF Total
  <2>2. Total' = Total
    BY <1>2, <1>3, <2>1
  <2> QED
    BY <1>1, <2>2 DEF Consumed
<1>5. LineInv'
  BY <1>1, <1>3 DEF LineInv, FrameLen
<1>6. RxInv'
  <2>1. Window(rx, Append(sent, f), Consumed)
    <3>1. rx \in Seq(RxByte) /\ Window(rx, sent, Consumed)
      BY DEF RxInv
    <3>2. FrameOf(Consumed + Len(rx)) <= Len(sent)
      BY <1>2
    <3> QED
      BY <1>2, <1>3, <3>1, <3>2, WindowGrows
  <2> QED
    BY <1>1, <1>4, <2>1 DEF RxInv
<1>7. GotInv'
  <2>1. Intact' <=> Intact
    BY <1>1 DEF Intact
  <2>2. ASSUME Intact
        PROVE  Window(got, Append(sent, f), Consumed - Len(got))
    <3> DEFINE c == Consumed - Len(got)
    <3>1. /\ got \in Seq(RxByte) /\ Len(got) \in 0..13 /\ Len(got) <= Consumed
          /\ Window(got, sent, c)
      BY <2>2 DEF GotInv
    <3>2. c \in Nat /\ c + Len(got) = Consumed
      BY <1>2, <3>1
    <3>3. FrameOf(Consumed) <= Len(sent)
      <4>1. Consumed <= Total
        BY <1>2
      <4>2. FrameOf(Consumed) <= FrameOf(Total) /\ FrameOf(Total) \in Nat
        BY <1>2, <4>1, FrameOrder
      <4> QED
        BY <1>2, <4>2
    <3> HIDE DEF c
    <3>4. Window(got, Append(sent, f), c)
      BY <1>3, <3>1, <3>2, <3>3, WindowGrows
    <3> QED
      BY <3>4 DEF c
  <2>3. \A i \in 1..Len(got) : got[i].from <= Len(sent')
    <3> SUFFICES ASSUME NEW i \in 1..Len(got) PROVE got[i].from <= Len(sent')
      OBVIOUS
    <3>1. got[i] \in RxByte /\ got[i].from <= Len(sent)
      BY ElementOfSeq DEF GotInv
    <3>2. got[i].from \in Nat
      BY <3>1 DEF RxByte
    <3> QED
      BY <1>2, <1>3, <3>1, <3>2
  <2> QED
    BY <1>1, <1>4, <2>1, <2>2, <2>3 DEF GotInv
<1>8. OrderInv'
  BY <1>1, <1>4 DEF OrderInv, Intact
<1>9. CountedInv'
  <2>1. UNCHANGED decoded /\ torn \subseteq torn'
    BY <1>1
  <2> QED
    BY <1>1, <2>1, CountedStays
<1>10. HistoryInv'
  <2>1. torn \subseteq 0..Len(sent) /\ lost \subseteq 1..Len(sent)
    BY DEF HistoryInv
  <2>2. 0..Len(sent) \subseteq 0..Len(sent') /\ 1..Len(sent) \subseteq 1..Len(sent')
    BY <1>2, <1>3
  <2> QED
    BY <1>1, <2>1, <2>2 DEF HistoryInv
<1> QED
  BY <1>5, <1>6, <1>7, <1>8, <1>9, <1>10

LEMMA SendByteStep ==
  ASSUME ReaderInv, SendByte
  PROVE  ReaderInv'
<1> DEFINE b == [val |-> Bytes(sent[Len(sent)])[out + 1], from |-> Len(sent)]
<1>0. LineInv /\ RxInv /\ GotInv /\ OrderInv /\ CountedInv /\ HistoryInv
  BY DEF ReaderInv
<1>1. /\ out \in 0..15 /\ out' = out + 1 /\ sent' = sent /\ got' = got
      /\ decoded' = decoded
  BY <1>0 DEF SendByte, LineInv, FrameLen
<1>2. \/ Len(rx) < RxSize /\ rx' = Append(rx, b) /\ lost' = lost /\ torn' = torn
      \/ /\ ~(Len(rx) < RxSize) /\ rx' = Append(Tail(rx), b)
         /\ lost' = lost \cup {Head(rx).from}
         /\ torn' = torn \cup {got[i].from : i \in DOMAIN got}
  BY DEF SendByte
<1>3. /\ Total \in Nat /\ Consumed \in Nat /\ Len(rx) \in Nat
      /\ Consumed + Len(rx) = Total /\ Len(sent) \in Nat
      /\ FrameOf(Consumed) \in Nat /\ FrameOf(Total) <= Len(sent)
  BY <1>0, Counts
<1>4. sent \in Seq(Frames) /\ sent # <<>> /\ Len(sent) \in Nat \ {0}
  <2>1. sent \in Seq(Frames) /\ sent # <<>>
    BY <1>0, <1>1 DEF LineInv, FrameLen
  <2> QED
    BY <1>3, <2>1, EmptySeq
<1>5. Total = 16 * (Len(sent) - 1) + out /\ Total' = Total + 1
  BY <1>1, <1>3, <1>4 DEF Total
\* The byte is the next one.
<1>6. b = StreamByte(sent, Total + 1) /\ b \in RxByte /\ Total + 1 \in Nat
  <2> DEFINE n == Len(sent)
             o == out + 1
  <2>1. n \in Nat \ {0} /\ o \in 1..16 /\ Total + 1 = 16 * (n - 1) + o
    BY <1>1, <1>4, <1>5
  <2> HIDE DEF n, o
  <2>2. FrameOf(16 * (n - 1) + o) = n /\ PlaceOf(16 * (n - 1) + o) = o
    BY <2>1, PlaceIs
  <2>3. FrameOf(Total + 1) = n /\ PlaceOf(Total + 1) = o
    BY <2>1, <2>2
  <2>4. b = StreamByte(sent, Total + 1)
    BY <2>3 DEF StreamByte, n, o
  <2>5. Total + 1 \in Nat \ {0} /\ FrameOf(Total + 1) <= Len(sent)
    BY <1>3, <2>3 DEF n
  <2>6. StreamByte(sent, Total + 1) \in RxByte
    BY <1>4, <2>5, StreamType
  <2> QED
    BY <2>4, <2>5, <2>6
<1> HIDE DEF b
<1>7. LineInv'
  BY <1>1, <1>4 DEF LineInv, FrameLen
<1>8. \A r \in {torn, torn'} : r \subseteq torn'
  BY <1>2
<1>9. CountedInv'
  BY <1>0, <1>1, <1>8, CountedStays
<1>10. CASE Len(rx) < RxSize /\ rx' = Append(rx, b) /\ lost' = lost /\ torn' = torn
  <2>1. rx \in Seq(RxByte) /\ Window(rx, sent, Consumed)
    BY <1>0 DEF RxInv
  <2>2. b = StreamByte(sent, Consumed + (Len(rx) + 1))
    <3>1. Consumed + (Len(rx) + 1) = Total + 1
      BY <1>3
    <3> QED
      BY <1>6, <3>1
  <2>3. /\ rx' \in Seq(RxByte) /\ Len(rx') = Len(rx) + 1
        /\ Window(rx', sent, Consumed)
    BY <1>3, <1>6, <1>10, <2>1, <2>2, WindowAppend
  <2>4. Consumed' = Consumed
    <3>1. Consumed' = Total' - Len(rx')
      BY DEF Consumed
    <3> QED
      BY <1>3, <1>5, <2>3, <3>1
  <2>5. RxInv'
    <3>1. Len(rx') <= RxSize /\ Len(rx') <= Total'
      <4>1. RxSize \in Nat
        BY FrameReaderAssumption DEF FrameReaderAssumption
      <4> QED
        BY <1>3, <1>5, <1>10, <2>3, <4>1
    <3> QED
      BY <1>1, <2>3, <2>4, <3>1 DEF RxInv
  <2>6. GotInv' /\ OrderInv'
    BY <1>0, <1>1, <1>10, <2>4 DEF GotInv, OrderInv, Intact
  <2>7. HistoryInv'
    BY <1>0, <1>1, <1>10 DEF HistoryInv
  <2> QED
    BY <1>7, <1>9, <2>5, <2>6, <2>7 DEF ReaderInv
<1>11. CASE /\ ~(Len(rx) < RxSize) /\ rx' = Append(Tail(rx), b)
            /\ lost' = lost \cup {Head(rx).from}
            /\ torn' = torn \cup {got[i].from : i \in DOMAIN got}
  <2>1. RxSize \in Nat \ {0} /\ Len(rx) <= RxSize
    BY <1>0, FrameReaderAssumption DEF RxInv, FrameReaderAssumption
  <2>2. Len(rx) \in Nat \ {0} /\ Len(rx) = RxSize /\ rx # <<>>
    <3>1. Len(rx) = RxSize
      BY <1>3, <1>11, <2>1
    <3>2. Len(rx) # 0
      BY <2>1, <3>1
    <3> QED
      BY <1>3, <3>1, <3>2, EmptySeq
  <2>3. /\ Tail(rx) \in Seq(RxByte) /\ Len(Tail(rx)) = Len(rx) - 1
        /\ Window(Tail(rx), sent, Consumed + 1)
        /\ Consumed + 1 \in Nat
        /\ Head(rx).from = FrameOf(Consumed + 1)
        /\ FrameOf(Consumed + 1) \in 1..Len(sent)
        /\ FrameOf(Consumed) <= FrameOf(Consumed + 1)
    BY <1>0, <2>2, HeadIs
  <2>4. b = StreamByte(sent, (Consumed + 1) + (Len(Tail(rx)) + 1))
    <3>1. (Consumed + 1) + (Len(Tail(rx)) + 1) = Total + 1
      BY <1>3, <2>3
    <3> QED
      BY <1>6, <3>1
  <2>5. /\ rx' \in Seq(RxByte) /\ Len(rx') = Len(Tail(rx)) + 1
        /\ Window(rx', sent, Consumed + 1)
    BY <1>6, <1>11, <2>3, <2>4, WindowAppend
  <2>6. Len(rx') = Len(rx)
    <3>1. Len(rx') = (Len(rx) - 1) + 1
      BY <2>3, <2>5, Zenon
    <3>2. \A m \in Nat : (m - 1) + 1 = m
      OBVIOUS
    <3> QED
      BY <1>3, <3>1, <3>2, Zenon
  <2>7. Consumed' = Consumed + 1
    <3>1. Consumed' = (Total + 1) - Len(rx)
      BY <1>5, <2>6, Zenon DEF Consumed
    <3>2. \A i, j, n \in Nat : i + j = n => (n + 1) - j = i + 1
      OBVIOUS
    <3> QED
      BY <1>3, <3>1, <3>2, Zenon
  <2>8. RxInv'
    <3>1. Len(rx') <= RxSize /\ Len(rx') <= Total'
      BY <1>3, <1>5, <2>1, <2>2, <2>6
    <3> QED
      BY <1>1, <2>5, <2>7, <3>1 DEF RxInv
  \* What rw() holds is torn now.
  <2>9. ~Intact'
    <3> SUFFICES ASSUME got # <<>> PROVE got[1].from \in torn'
      BY <1>1 DEF Intact
    <3>1. got \in Seq(RxByte) /\ Len(got) \in 0..13
      BY <1>0 DEF GotInv
    <3>2. 1 \in DOMAIN got
      BY <3>1, EmptySeq
    <3> QED
      BY <1>11, <3>2
  <2>10. FrameOf(Consumed) \in Nat /\ FrameOf(Consumed + 1) \in Nat
    BY <1>3 DEF FrameOf
  <2>11. ASSUME NEW n \in Nat, n <= FrameOf(Consumed)
         PROVE  n <= FrameOf(Consumed')
    BY <2>3, <2>7, <2>10, <2>11
  <2>12. GotInv'
    <3>1. ASSUME got # <<>> PROVE got[1].from <= FrameOf(Consumed')
      <4>1. got \in Seq(RxByte) /\ Len(got) \in 0..13
        BY <1>0 DEF GotInv
      <4>2. got[1] \in RxByte
        BY <3>1, <4>1, EmptySeq, ElementOfSeq
      <4>3. got[1].from \in Nat
        BY <4>2 DEF RxByte
      <4> QED
        BY <1>0, <2>11, <3>1, <4>3 DEF GotInv
    <3> QED
      BY <1>0, <1>1, <2>9, <3>1 DEF GotInv
  <2>13. OrderInv'
    <3>1. \A i \in DOMAIN decoded : decoded[i].from \in Nat
      BY <1>0, DecodedType
    <3>2. \A i \in DOMAIN decoded : decoded[i].from <= FrameOf(Consumed')
      BY <1>0, <2>11, <3>1 DEF OrderInv
    <3> QED
      BY <1>1, <2>9, <3>2 DEF OrderInv
  <2>14. HistoryInv'
    <3>1. /\ decoded \in Seq(Report)
          /\ torn \subseteq 0..Len(sent) /\ lost \subseteq 1..Len(sent)
      BY <1>0 DEF HistoryInv
    <3>2. ASSUME NEW i \in DOMAIN got PROVE got[i].from \in 0..Len(sent)
      <4>1. got \in Seq(RxByte) /\ i \in 1..Len(got)
        BY <1>0, LenProperties DEF GotInv
      <4>2. got[i] \in RxByte /\ got[i].from <= Len(sent)
        BY <1>0, <4>1, ElementOfSeq DEF GotInv
      <4>3. got[i].from \in Nat
        BY <4>2 DEF RxByte
      <4> QED
        BY <1>3, <4>2, <4>3
    <3>3. torn' \subseteq 0..Len(sent)
      BY <1>11, <3>1, <3>2
    <3>4. lost' \subseteq 1..Len(sent)
      BY <1>11, <2>3, <3>1
    <3> QED
      BY <1>1, <3>1, <3>3, <3>4 DEF HistoryInv
  <2> QED
    BY <1>7, <1>9, <2>8, <2>12, <2>13, <2>14 DEF ReaderInv
<1> QED
  BY <1>2, <1>10, <1>11

LEMMA FindStartStep ==
  ASSUME ReaderInv, FindStart
  PROVE  ReaderInv'
<1>0. LineInv /\ RxInv /\ GotInv /\ OrderInv /\ CountedInv /\ HistoryInv
  BY DEF ReaderInv
<1>1. /\ got = <<>> /\ rx # <<>> /\ rx' = Tail(rx)
      /\ got' = IF Head(rx).val = Header[1] THEN <<Head(rx)>> ELSE <<>>
      /\ sent' = sent /\ out' = out
      /\ decoded' = decoded /\ lost' = lost /\ torn' = torn
  BY DEF FindStart, line
<1>2. UNCHANGED line /\ UNCHANGED <<line, decoded, torn>>
  BY <1>1 DEF line
<1>3. LineInv' /\ RxInv' /\ Consumed' = Consumed + 1
  BY <1>0, <1>1, <1>2, RxAfterRead
<1>4. /\ Head(rx) \in RxByte /\ Head(rx) = StreamByte(sent, Consumed + 1)
      /\ Head(rx).from = FrameOf(Consumed + 1)
      /\ FrameOf(Consumed + 1) \in 1..Len(sent)
      /\ Consumed \in Nat /\ Len(sent) \in Nat
  BY <1>0, <1>1, HeadIs, Counts
<1>5. GotInv'
  <2>1. CASE Head(rx).val = Header[1]
    <3>1. got' = <<Head(rx)>> /\ got' \in Seq(RxByte) /\ Len(got') = 1
          /\ got'[1] = Head(rx)
      BY <1>1, <1>4, <2>1
    <3>2. Consumed' - Len(got') = Consumed /\ Len(got') <= Consumed'
      BY <1>3, <1>4, <3>1
    <3>3. Window(got', sent', Consumed)
      <4> SUFFICES ASSUME NEW i \in 1..Len(got')
                   PROVE  got'[i] = StreamByte(sent, Consumed + i)
        BY <1>1 DEF Window
      <4>1. i = 1
        BY <3>1
      <4> QED
        BY <1>4, <3>1, <4>1
    <3>4. FrameOf(Consumed + 1) <= FrameOf(Consumed')
          /\ FrameOf(Consumed + 1) <= Len(sent')
      BY <1>1, <1>3, <1>4
    <3>5. \A i \in 1..Len(got') : got'[i].from <= Len(sent')
      <4> SUFFICES ASSUME NEW i \in 1..Len(got') PROVE got'[i].from <= Len(sent')
        OBVIOUS
      <4>1. i = 1
        BY <3>1
      <4> QED
        BY <1>4, <3>1, <3>4, <4>1
    <3>6. \A i \in 1..6 : i <= Len(got') => got'[i].val = Header[i]
      <4> SUFFICES ASSUME NEW i \in 1..6, i <= Len(got')
                   PROVE  got'[i].val = Header[i]
        OBVIOUS
      <4>1. i = 1
        BY <3>1
      <4> QED
        BY <2>1, <3>1, <4>1
    <3>7. got'[1].from <= FrameOf(Consumed')
      BY <1>4, <3>1, <3>4
    <3>8. Len(got') \in 0..13
      BY <3>1
    <3> QED
      BY <3>1, <3>2, <3>3, <3>5, <3>6, <3>7, <3>8 DEF GotInv
  <2>2. CASE Head(rx).val # Header[1]
    BY <1>1, <2>2, NothingHeld
  <2> QED
    BY <2>1, <2>2
<1>6. got' = <<>> \/ (got = <<>> /\ Len(got') = 1)
  BY <1>1
<1>7. OrderInv'
  BY <1>0, <1>1, <1>2, <1>6, OrderAfterRead
<1>8. CountedInv'
  BY <1>0, <1>1, CountedStays
<1>9. HistoryInv'
  BY <1>0, <1>1 DEF HistoryInv
<1> QED
  BY <1>3, <1>5, <1>7, <1>8, <1>9 DEF ReaderInv

\* Serial.read() finds nothing: what rw() holds was disturbed, or the frame it
\* is in would still be on its way.
LEMMA NothingThere ==
  ASSUME NoKeyIsAB, LineInv, RxInv, GotInv, rx = <<>>, out = FrameLen,
         Len(got) >= 6
  PROVE  ~Intact
<1> SUFFICES ASSUME Intact PROVE FALSE
  OBVIOUS
<1> DEFINE p == (Consumed - Len(got)) + 1
           g == Len(got)
           n == Len(sent)
<1>1. g <= Consumed /\ PlaceOf(p) = 1
  BY HeldIsFrame
<1>2. g \in 6..13
  <2>1. g \in 0..13 /\ g >= 6
    BY DEF GotInv
  <2> HIDE DEF g
  <2> QED
    BY <2>1
<1>3. /\ Consumed = Total /\ Consumed \in Nat /\ n \in Nat
      /\ Total = 16 * (n - 1) + 16
  <2>1. Len(rx) = 0
    BY EmptySeq
  <2>2. Consumed \in Nat /\ Consumed + Len(rx) = Total /\ n \in Nat
    BY Counts
  <2>3. Total = 16 * (n - 1) + 16
    BY DEF Total, FrameLen
  <2> QED
    BY <2>1, <2>2, <2>3
<1>4. p = (Consumed - g) + 1
  OBVIOUS
<1> HIDE DEF p, g, n
<1>5. p \in Nat \ {0} /\ p = 16 * n - g + 1
  BY <1>1, <1>2, <1>3, <1>4
<1>6. /\ FrameOf(p) \in Nat \ {0}
      /\ p = 16 * (FrameOf(p) - 1) + PlaceOf(p)
  BY <1>5, Places
<1> QED
  BY <1>1, <1>2, <1>3, <1>5, <1>6

LEMMA ValueOf ==
  ASSUME NEW r, NEW x, NEW k, r = [val |-> x, from |-> k]
  PROVE  r.val = x
  OBVIOUS

LEMMA OneLonger ==
  ASSUME NEW r \in Seq(RxByte), NEW b \in RxByte
  PROVE  Append(r, b) \in Seq(RxByte) /\ Len(Append(r, b)) = Len(r) + 1
  BY AppendProperties

\* While rw() is in the header, and in the values.
LEMMA InHeader ==
  ASSUME NEW m \in 1..5
  PROVE  m # 0 /\ m <= 12 /\ m + 1 \in 2..6
  OBVIOUS

LEMMA InValues ==
  ASSUME NEW m \in 6..13
  PROVE  /\ m # 0 /\ m >= 6 /\ ~(m < 6) /\ m + 1 \in 0..14
         /\ m <= 12 => m + 1 \in 0..13
         /\ 1 \in 1..m /\ \A i \in 1..6 : i \in 1..m /\ i <= m
  OBVIOUS

\* What is left alone when nothing is read.
LEMMA NothingTaken ==
  ASSUME LineInv, RxInv, rx = <<>>, rx' = <<>>, UNCHANGED line
  PROVE  LineInv' /\ RxInv' /\ Consumed' = Consumed /\ sent' = sent
<1>1. sent' = sent /\ out' = out /\ rx' = rx
  BY DEF line
<1>2. Total' = Total /\ Consumed' = Consumed
  BY <1>1 DEF Total, Consumed
<1> QED
  BY <1>1, <1>2 DEF LineInv, RxInv

LEMMA MatchHeaderStep ==
  ASSUME ReaderInv, MatchHeader
  PROVE  ReaderInv'
<1>0. LineInv /\ RxInv /\ GotInv /\ OrderInv /\ CountedInv /\ HistoryInv
  BY DEF ReaderInv
<1>1. /\ Len(got) \in 1..5
      /\ rx' = IF rx = <<>> THEN <<>> ELSE Tail(rx)
      /\ got' = IF Byte.val = Header[Len(got) + 1] THEN Append(got, Byte) ELSE <<>>
      /\ UNCHANGED line
      /\ decoded' = decoded /\ lost' = lost /\ torn' = torn
  BY HeaderIs DEF MatchHeader, Read
<1>2. sent' = sent
  BY <1>1 DEF line
<1>7. Len(got) \in 1..5
  BY <1>1
<1>3. got # <<>>
  BY <1>7, EmptySeq
<1>4. CountedInv' /\ HistoryInv'
  <2>1. CountedInv'
    BY <1>0, <1>1, <1>2, CountedStays
  <2> QED
    BY <1>0, <1>1, <1>2, <2>1 DEF HistoryInv
<1>5. CASE rx = <<>>
  <2>0. Byte.val = -1
    BY <1>5 DEF Byte, Nothing
  <2>1. Len(got) + 1 \in 2..6 /\ Byte.val = -1
    BY <1>7, <2>0, InHeader, Zenon
  <2>2. Header[Len(got) + 1] # -1
    <3> DEFINE m == Len(got) + 1
    <3>1. m = 2 \/ m = 3 \/ m = 4 \/ m = 5 \/ m = 6
      BY <2>1
    <3> HIDE DEF m
    <3>2. Header[m] # -1
      BY <3>1, HeaderIs
    <3> QED
      BY <3>2 DEF m
  <2>3. got' = <<>>
    BY <1>1, <2>1, <2>2
  <2>4. LineInv' /\ RxInv' /\ Consumed' = Consumed
    BY <1>0, <1>1, <1>5, NothingTaken
  <2>5. GotInv'
    BY <2>3, NothingHeld
  <2>6. OrderInv'
    BY <1>0, <1>1, <2>3, <2>4 DEF OrderInv, Intact
  <2> QED
    BY <1>4, <2>4, <2>5, <2>6 DEF ReaderInv
<1>6. CASE rx # <<>>
  <2>1. rx' = Tail(rx) /\ Byte = Head(rx)
    BY <1>1, <1>6 DEF Byte
  <2>2. UNCHANGED <<line, decoded, torn>> /\ UNCHANGED <<line, torn>>
    BY <1>1
  <2>3. LineInv' /\ RxInv'
    BY <1>0, <1>1, <1>6, <2>1, RxAfterRead
  <2>4. \/ got' = <<>>
        \/ /\ Head(rx).val = Header[Len(got) + 1]
           /\ got' = Append(got, Head(rx))
    BY <1>1, <2>1
  <2>5. GotInv'
    <3>1. CASE got' = <<>>
      BY <3>1, NothingHeld
    <3>2. CASE /\ Head(rx).val = Header[Len(got) + 1]
               /\ got' = Append(got, Head(rx))
      <4>1. Len(got) <= 12
        BY <1>7, InHeader, Zenon
      <4> QED
        BY <1>0, <1>3, <1>6, <2>1, <2>2, <3>2, <4>1, GotAfterRead
    <3> QED
      BY <2>4, <3>1, <3>2
  <2>6. OrderInv'
    BY <1>0, <1>3, <1>6, <2>1, <2>2, <2>4, OrderAfterRead
  <2> QED
    BY <1>4, <2>3, <2>5, <2>6 DEF ReaderInv
<1> QED
  BY <1>5, <1>6

LEMMA ReadValueStep ==
  ASSUME NoKeyIsAB, ReaderInv, ReadValue
  PROVE  ReaderInv'
<1>0. LineInv /\ RxInv /\ GotInv /\ OrderInv /\ CountedInv /\ HistoryInv
  BY DEF ReaderInv
<1>1. /\ Len(got) \in 6..12
      /\ rx = <<>> => out = FrameLen
      /\ rx' = IF rx = <<>> THEN <<>> ELSE Tail(rx)
      /\ got' = Append(got, Byte)
      /\ UNCHANGED line
      /\ decoded' = decoded /\ lost' = lost /\ torn' = torn
  BY HeaderIs DEF ReadValue, Read
<1>2. sent' = sent
  BY <1>1 DEF line
<1>7. Len(got) \in 6..13 /\ Len(got) <= 12
  <2>1. \A m \in 6..12 : m \in 6..13 /\ m <= 12
    OBVIOUS
  <2> QED
    BY <1>1, <2>1, Zenon
<1>8. Len(got) # 0 /\ Len(got) >= 6 /\ ~(Len(got) < 6)
  BY <1>7, InValues, Zenon
<1>3. got # <<>> /\ Len(got) >= 6 /\ Len(got) <= 12 /\ ~(Len(got) < 6)
  BY <1>7, <1>8, EmptySeq, Zenon
<1>4. CountedInv' /\ HistoryInv'
  <2>1. CountedInv'
    BY <1>0, <1>1, <1>2, CountedStays
  <2> QED
    BY <1>0, <1>1, <1>2, <2>1 DEF HistoryInv
<1>5. CASE rx = <<>>
  <2>1. got' = Append(got, Nothing) /\ Nothing \in RxByte /\ Nothing.from = 0
    BY <1>1, <1>5 DEF Byte, Nothing, RxByte
  <2>2. /\ got \in Seq(RxByte)
        /\ \A i \in 1..Len(got) : got[i].from <= Len(sent)
        /\ got[1].from <= FrameOf(Consumed)
    BY <1>0, <1>3 DEF GotInv
  <2>3. /\ got' \in Seq(RxByte) /\ Len(got') = Len(got) + 1
        /\ \A i \in 1..Len(got) : got'[i] = got[i]
        /\ got'[Len(got) + 1] = Nothing
    BY <2>1, <2>2, AppendProperties
  <2>4. Len(got') \in 0..13 /\ got'[1] = got[1]
    <3>1. Len(got') = Len(got) + 1
      BY <2>3
    <3>2. Len(got') \in 0..13 /\ 1 \in 1..Len(got)
      BY <1>7, <3>1, InValues, Zenon
    <3> QED
      BY <2>3, <3>2
  <2>5. LineInv' /\ RxInv' /\ Consumed' = Consumed
    BY <1>0, <1>1, <1>5, NothingTaken
  <2>6. ~Intact'
    <3>1. ~Intact
      BY <1>0, <1>1, <1>3, <1>5, NothingThere
    <3> QED
      BY <1>1, <1>3, <2>4, <3>1 DEF Intact
  <2>7. GotInv'
    <3>1. \A i \in 1..Len(got') : got'[i].from <= Len(sent')
      <4> SUFFICES ASSUME NEW i \in 1..Len(got') PROVE got'[i].from <= Len(sent')
        OBVIOUS
      <4>1. i \in 1..Len(got) \/ i = Len(got) + 1
        BY <1>1, <2>3
      <4>2. Len(sent) \in Nat
        BY <1>0, Counts
      <4> QED
        BY <1>2, <2>1, <2>2, <2>3, <4>1, <4>2
    <3>2. \A i \in 1..6 : i <= Len(got') => got'[i].val = Header[i]
      <4> SUFFICES ASSUME NEW i \in 1..6 PROVE got'[i].val = Header[i]
        OBVIOUS
      <4>1. i \in 1..Len(got) /\ i <= Len(got)
        BY <1>7, InValues, Zenon
      <4> QED
        BY <1>0, <2>3, <4>1 DEF GotInv
    <3> QED
      BY <2>2, <2>3, <2>4, <2>5, <2>6, <3>1, <3>2 DEF GotInv
  <2>8. OrderInv'
    BY <1>0, <1>1, <2>5, <2>6 DEF OrderInv
  <2> QED
    BY <1>4, <2>5, <2>7, <2>8 DEF ReaderInv
<1>6. CASE rx # <<>>
  <2>1. rx' = Tail(rx) /\ got' = Append(got, Head(rx))
    BY <1>1, <1>6 DEF Byte
  <2>2. UNCHANGED <<line, decoded, torn>> /\ UNCHANGED <<line, torn>>
    BY <1>1
  <2>3. LineInv' /\ RxInv'
    BY <1>0, <1>1, <1>6, <2>1, RxAfterRead
  <2>4. GotInv'
    BY <1>0, <1>3, <1>6, <2>1, <2>2, GotAfterRead
  <2>5. OrderInv'
    BY <1>0, <1>3, <1>6, <2>1, <2>2, OrderAfterRead
  <2> QED
    BY <1>4, <2>3, <2>4, <2>5 DEF ReaderInv
<1> QED
  BY <1>5, <1>6

\* The report that is complete with the next byte is a frame that was sent.
LEMMA TakenIsFrame ==
  ASSUME NoKeyIsAB, LineInv, RxInv, GotInv, rx # <<>>, Intact, Len(got) = 13,
         NEW t, t = Append(got, Head(rx))
  PROVE  /\ got[1].from \in 1..Len(sent)
         /\ FrameOf(Consumed - Len(got)) = got[1].from - 1
         /\ \A s \in Slots : t[s + 6].val = sent[got[1].from].keys[s]
<1> DEFINE c == Consumed - Len(got)
           k == FrameOf(c + 1)
<1>1. Len(got) <= Consumed /\ PlaceOf(c + 1) = 1
  BY HeldIsFrame
<1>2. /\ Consumed \in Nat /\ Total \in Nat /\ Len(sent) \in Nat
      /\ FrameOf(Total) <= Len(sent)
  BY Counts
<1>3. got # <<>>
  BY DEF Intact
<1>4. /\ Len(t) = 14 /\ t[1] = got[1] /\ Window(t, sent, (Consumed + 1) - Len(t))
  <2>1. /\ Len(t) = Len(got) + 1 /\ t[1] = got[1]
        /\ Window(t, sent, (Consumed + 1) - Len(t))
    BY <1>3, OneMore
  <2> QED
    BY <2>1
<1>5. c \in Nat /\ (Consumed + 1) - Len(t) = c /\ c + 14 = Consumed + 1
  BY <1>1, <1>2, <1>4
<1>6. c + 14 <= Total
  BY <1>5, HeadIs
<1> HIDE DEF c
<1>7. k \in Nat \ {0} /\ c + 1 = 16 * (k - 1) + 1
  BY <1>1, <1>5, Places
<1> HIDE DEF k
<1>8. \A i \in 1..14 : t[i] = StreamByte(sent, c + i)
  BY <1>4, <1>5 DEF Window
<1>9. ASSUME NEW i \in 1..14
      PROVE  FrameOf(c + i) = k /\ PlaceOf(c + i) = i
  <2>1. i \in 1..16 /\ c + i = 16 * (k - 1) + i
    BY <1>5, <1>7
  <2> QED
    BY <1>7, <2>1, PlaceIs
<1>10. k \in 1..Len(sent)
  <2>1. FrameOf(c + 14) = k
    BY <1>9
  <2>2. FrameOf(c + 14) <= FrameOf(Total) /\ FrameOf(Total) \in Nat
    BY <1>2, <1>5, <1>6, FrameOrder
  <2> QED
    BY <1>2, <1>7, <2>1, <2>2
<1>11. got[1].from = k
  <2>1. t[1] = StreamByte(sent, c + 1)
    BY <1>8
  <2>2. FrameOf(c + 1) = k
    BY DEF k
  <2> QED
    BY <1>4, <2>1, <2>2 DEF StreamByte
<1>12. FrameOf(c) = k - 1
  <2>1. c = 16 * (k - 1)
    BY <1>5, <1>7
  <2> QED
    BY <1>7, <2>1, FrameBefore
<1>13. ASSUME NEW s \in Slots PROVE t[s + 6].val = sent[k].keys[s]
  <2>1. s + 6 \in 1..14 /\ s - 2 \in 1..6 /\ 8 + (s - 2) = s + 6 /\ (s - 2) + 2 = s
    BY DEF Slots
  <2>2. t[s + 6].val = Bytes(sent[k])[s + 6]
    <3>1. t[s + 6] = StreamByte(sent, c + (s + 6))
      BY <1>8, <2>1
    <3>2. FrameOf(c + (s + 6)) = k /\ PlaceOf(c + (s + 6)) = s + 6
      BY <1>9, <2>1
    <3> DEFINE x == Bytes(sent[k])[s + 6]
    <3>3. t[s + 6] = [val |-> x, from |-> k]
      BY <3>1, <3>2, Zenon DEF StreamByte
    <3> HIDE DEF x
    <3>4. t[s + 6].val = x
      BY ONLY <3>3, ValueOf
    <3> QED
      BY <3>4, Zenon DEF x
  <2>3. sent[k] \in Frames
    BY <1>10, ElementOfSeq DEF LineInv
  <2>4. Bytes(sent[k])[8 + (s - 2)] = sent[k].keys[(s - 2) + 2]
    BY <2>1, <2>3, BytesAre
  <2> QED
    BY <2>1, <2>2, <2>4
<1> QED
  BY <1>10, <1>11, <1>12, <1>13 DEF c

LEMMA ReadLastValueStep ==
  ASSUME NoKeyIsAB, ReaderInv, ReadLastValue
  PROVE  ReaderInv'
<1> DEFINE t == Append(got, Byte)
           report == [from |-> got[1].from,
                      keys |-> [s \in Slots |-> t[FirstKey + s - 3].val]]
<1>0. LineInv /\ RxInv /\ GotInv /\ OrderInv /\ CountedInv /\ HistoryInv
  BY DEF ReaderInv
<1>1. /\ Len(got) = 13
      /\ rx = <<>> => out = FrameLen
      /\ rx' = IF rx = <<>> THEN <<>> ELSE Tail(rx)
      /\ got' = <<>>
      /\ decoded' = Append(decoded, report)
      /\ UNCHANGED line
      /\ lost' = lost /\ torn' = torn
  BY HeaderIs DEF ReadLastValue, Read
<1>2. sent' = sent
  BY <1>1 DEF line
<1>3. got # <<>> /\ Len(got) >= 6
  <2>1. 13 # 0 /\ 13 >= 6
    OBVIOUS
  <2> QED
    BY <1>1, <2>1, EmptySeq, Zenon
<1>4. Byte \in RxByte
  <2>1. CASE rx = <<>>
    BY <2>1 DEF Byte, Nothing, RxByte
  <2>2. CASE rx # <<>>
    BY <1>0, <2>2, HeadIs DEF Byte
  <2> QED
    BY <2>1, <2>2
<1>5. got[1] \in RxByte /\ got[1].from \in Nat /\ got[1].from <= FrameOf(Consumed)
  <2>1. got \in Seq(RxByte) /\ got[1].from <= FrameOf(Consumed)
    BY <1>0, <1>3 DEF GotInv
  <2>2. 1 \in 1..Len(got)
    BY <1>1
  <2>3. got[1] \in RxByte
    BY <2>1, <2>2, ElementOfSeq
  <2> QED
    BY <2>1, <2>3 DEF RxByte
<1>6. t \in Seq(RxByte) /\ Len(t) = 14
  <2>1. got \in Seq(RxByte) /\ Len(got) = 13
    BY <1>0, <1>1 DEF GotInv
  <2> HIDE DEF t
  <2>3. t = Append(got, Byte)
    BY DEF t
  <2>2. t \in Seq(RxByte) /\ Len(t) = Len(got) + 1
    BY <1>4, <2>1, <2>3, OneLonger, Zenon
  <2> QED
    BY <2>1, <2>2
<1>7. /\ report.from = got[1].from
      /\ \A s \in Slots : report.keys[s] = t[s + 6].val
      /\ report \in Report
  <2> HIDE DEF t
  <2>1. ASSUME NEW s \in Slots
        PROVE  FirstKey + s - 3 = s + 6 /\ s + 6 \in 1..14
    BY HeaderIs DEF Slots
  <2>2. \A s \in Slots : t[s + 6].val \in Usage
    <3> SUFFICES ASSUME NEW s \in Slots PROVE t[s + 6].val \in Usage
      OBVIOUS
    <3>1. t[s + 6] \in RxByte
      BY <1>6, <2>1, ElementOfSeq
    <3> QED
      BY <3>1 DEF RxByte, Usage
  <2> DEFINE u == [s \in Slots |-> t[FirstKey + s - 3].val]
  <2>3. \A s \in Slots : u[s] = t[s + 6].val
    BY <2>1
  <2>4. u \in [Slots -> Usage]
    BY <2>1, <2>2
  <2>5. report = [from |-> got[1].from, keys |-> u]
    OBVIOUS
  <2> HIDE DEF u
  <2> QED
    BY <1>5, <2>3, <2>4, <2>5 DEF Report
<1> HIDE DEF report
<1>8. /\ LineInv' /\ RxInv'
      /\ \A n \in Nat : n <= FrameOf(Consumed) => n <= FrameOf(Consumed')
  <2>1. FrameOf(Consumed) \in Nat
    BY <1>0, Counts
  <2>2. CASE rx = <<>>
    BY <1>0, <1>1, <2>1, <2>2, NothingTaken
  <2>3. CASE rx # <<>>
    <3>1. rx' = Tail(rx)
      BY <1>1, <2>3
    <3>2. LineInv' /\ RxInv' /\ Consumed' = Consumed + 1
      BY <1>0, <1>1, <2>3, <3>1, RxAfterRead
    <3>3. FrameOf(Consumed) <= FrameOf(Consumed + 1) /\ Consumed \in Nat
      BY <1>0, <2>3, HeadIs, Counts
    <3>4. FrameOf(Consumed + 1) \in Nat
      BY <3>3 DEF FrameOf
    <3>5. \A n \in Nat : n <= FrameOf(Consumed) => n <= FrameOf(Consumed + 1)
      BY <2>1, <3>3, <3>4
    <3> QED
      BY <3>2, <3>5
  <2> QED
    BY <2>2, <2>3
<1>9. GotInv' /\ ~Intact'
  BY <1>1, NothingHeld DEF Intact
<1>10. /\ Len(decoded) \in Nat /\ DOMAIN decoded = 1..Len(decoded)
       /\ \A i \in DOMAIN decoded : decoded[i].from \in Nat
  BY <1>0, DecodedType
<1>11. /\ decoded' \in Seq(Report) /\ Len(decoded') = Len(decoded) + 1
       /\ \A i \in 1..Len(decoded) : decoded'[i] = decoded[i]
       /\ decoded'[Len(decoded) + 1] = report
  <2>1. decoded \in Seq(Report)
    BY <1>0 DEF HistoryInv
  <2> QED
    BY <1>1, <1>7, <2>1, AppendProperties
<1>12. DOMAIN decoded' = 1..(Len(decoded) + 1)
  BY <1>11, LenProperties
<1>13. OrderInv'
  <2>1. ASSUME NEW i \in DOMAIN decoded'
        PROVE  decoded'[i].from <= FrameOf(Consumed')
    <3>1. i \in 1..Len(decoded) \/ i = Len(decoded) + 1
      BY <1>10, <1>12
    <3>2. CASE i \in 1..Len(decoded)
      BY <1>0, <1>8, <1>10, <1>11, <3>2 DEF OrderInv
    <3>3. CASE i = Len(decoded) + 1
      BY <1>5, <1>7, <1>8, <1>11, <3>3
    <3> QED
      BY <3>1, <3>2, <3>3
  <2> QED
    BY <1>9, <2>1 DEF OrderInv
<1>14. HistoryInv'
  BY <1>0, <1>1, <1>2, <1>11 DEF HistoryInv
\* The new report, if it was read in one piece.
<1>15. ASSUME report.from \notin torn
       PROVE  /\ report.from \in 1..Len(sent)
              /\ report.keys = sent[report.from].keys
              /\ \A j \in 1..Len(decoded) : decoded[j].from < report.from
  <2>1. Intact
    BY <1>3, <1>7, <1>15 DEF Intact
  <2>2. rx # <<>>
    BY <1>0, <1>1, <1>3, <2>1, NothingThere
  <2>3. t = Append(got, Head(rx))
    BY <2>2 DEF Byte
  <2> HIDE DEF t
  <2>4. /\ got[1].from \in 1..Len(sent)
        /\ FrameOf(Consumed - Len(got)) = got[1].from - 1
        /\ \A s \in Slots : t[s + 6].val = sent[got[1].from].keys[s]
    BY <1>0, <1>1, <2>1, <2>2, <2>3, TakenIsFrame
  <2>5. report.keys = sent[report.from].keys
    <3>1. \A s \in Slots : report.keys[s] = sent[report.from].keys[s]
      BY <1>7, <2>4
    <3>2. report.keys \in [Slots -> Usage]
      BY <1>7 DEF Report
    <3>3. sent[report.from] \in Frames
      BY <1>0, <1>7, <2>4, ElementOfSeq DEF LineInv
    <3>4. sent[report.from].keys \in [Slots -> 0..255]
      BY <3>3, FrameType
    <3> QED
      BY <3>1, <3>2, <3>4
  <2>6. \A j \in 1..Len(decoded) : decoded[j].from < report.from
    <3> SUFFICES ASSUME NEW j \in 1..Len(decoded)
                 PROVE  decoded[j].from < report.from
      OBVIOUS
    <3>1. decoded[j].from <= got[1].from - 1
      BY <1>0, <1>10, <2>1, <2>4 DEF OrderInv
    <3> QED
      BY <1>5, <1>7, <1>10, <3>1
  <2> QED
    BY <1>7, <2>4, <2>5, <2>6
<1>16. CountedInv'
  <2> SUFFICES ASSUME NEW i \in DOMAIN decoded', decoded'[i].from \notin torn
               PROVE  /\ decoded'[i].from \in 1..Len(sent)
                      /\ decoded'[i].keys = sent[decoded'[i].from].keys
                      /\ \A j \in 1..(i - 1) : decoded'[j].from < decoded'[i].from
    BY <1>1, <1>2 DEF CountedInv, IsWhole
  <2>1. i \in 1..Len(decoded) \/ i = Len(decoded) + 1
    BY <1>10, <1>12
  <2>2. CASE i \in 1..Len(decoded)
    <3>1. /\ decoded[i].from \in 1..Len(sent) /\ IsWhole(decoded[i])
          /\ \A j \in 1..(i - 1) : decoded[j].from < decoded[i].from
      BY <1>0, <1>10, <1>11, <2>2 DEF CountedInv
    <3>2. \A j \in 1..(i - 1) : j \in 1..Len(decoded)
      BY <1>10, <2>2
    <3> QED
      BY <1>11, <2>2, <3>1, <3>2 DEF IsWhole
  <2>3. CASE i = Len(decoded) + 1
    <3>1. decoded'[i] = report
      BY <1>11, <2>3
    <3>2. \A j \in 1..(i - 1) : j \in 1..Len(decoded)
      BY <1>10, <2>3
    <3>3. report.from \notin torn
      BY <3>1
    <3> QED
      BY <1>11, <1>15, <3>1, <3>2, <3>3
  <2> QED
    BY <2>1, <2>2, <2>3
<1> QED
  BY <1>8, <1>9, <1>13, <1>14, <1>16 DEF ReaderInv

-----------------------------------------------------------------------------
(* The theorems                                                            *)

LEMMA ReaderInit == Init => ReaderInv
<1> SUFFICES ASSUME Init PROVE ReaderInv
  OBVIOUS
<1>1. /\ sent = <<>> /\ out = 16 /\ rx = <<>> /\ got = <<>>
      /\ decoded = <<>> /\ lost = {} /\ torn = {}
  BY DEF Init, FrameLen
<1>2. Len(sent) = 0 /\ Len(rx) = 0 /\ Len(got) = 0 /\ Len(decoded) = 0
  BY <1>1, EmptySeq
<1>3. Total = 0 /\ Consumed = 0
  BY <1>1, <1>2 DEF Total, Consumed
<1>4. LineInv
  BY <1>1 DEF LineInv, FrameLen
<1>5. RxInv
  <2>1. rx \in Seq(RxByte)
    BY <1>1
  <2>2. Window(rx, sent, Consumed)
    BY <1>2 DEF Window
  <2>3. Len(rx) <= RxSize /\ Len(rx) <= Total
    BY <1>2, <1>3, FrameReaderAssumption DEF FrameReaderAssumption
  <2> QED
    BY <2>1, <2>2, <2>3 DEF RxInv
<1>6. ~Intact
  BY <1>1 DEF Intact
<1>7. GotInv
  <2>1. got \in Seq(RxByte)
    BY <1>1
  <2>2. Len(got) \in 0..13 /\ \A i \in 1..6 : ~(i <= Len(got))
    BY <1>2
  <2>3. \A i \in 1..Len(got) : FALSE
    BY <1>2
  <2> QED
    BY <1>1, <1>6, <2>1, <2>2, <2>3 DEF GotInv
<1>8. \A i \in DOMAIN decoded : FALSE
  BY <1>1
<1>9. OrderInv /\ CountedInv
  BY <1>6, <1>8 DEF OrderInv, CountedInv
<1>10. HistoryInv
  BY <1>1 DEF HistoryInv
<1> QED
  BY <1>4, <1>5, <1>7, <1>9, <1>10 DEF ReaderInv

LEMMA ReaderStep ==
  ASSUME NoKeyIsAB
  PROVE  ReaderInv /\ [Next]_vars => ReaderInv'
<1> SUFFICES ASSUME ReaderInv, [Next]_vars PROVE ReaderInv'
  OBVIOUS
<1>1. CASE \E f \in Frames : StartFrame(f)
  BY <1>1, StartFrameStep
<1>2. CASE SendByte
  BY <1>2, SendByteStep
<1>3. CASE FindStart
  BY <1>3, FindStartStep
<1>4. CASE MatchHeader
  BY <1>4, MatchHeaderStep
<1>5. CASE ReadValue
  BY <1>5, ReadValueStep
<1>6. CASE ReadLastValue
  BY <1>6, ReadLastValueStep
<1>7. CASE UNCHANGED vars
  BY <1>7 DEF vars, ReaderInv, LineInv, RxInv, GotInv, OrderInv, CountedInv,
              HistoryInv, Intact, Total, Consumed, IsWhole
<1> QED
  BY <1>1, <1>2, <1>3, <1>4, <1>5, <1>6, <1>7 DEF Next

\* The receive buffer is always the last of the bytes sent, and what rw()
\* holds comes just before it, unless the buffer has overflowed meanwhile.
THEOREM ReaderInvariant ==
  ASSUME NoKeyIsAB
  PROVE  Spec => []ReaderInv
<1>1. Init => ReaderInv
  BY ReaderInit
<1>2. ReaderInv /\ [Next]_vars => ReaderInv'
  BY ReaderStep
<1> QED
  BY <1>1, <1>2, PTL DEF Spec

\* A report that rw() counts is the frame it began in, whole, and is counted
\* once and in order, unless the buffer overflowed while rw() was inside it.
THEOREM CountedWereSent ==
  ASSUME NoKeyIsAB
  PROVE  Spec => []DecodedWereSent
<1>1. ReaderInv => DecodedWereSent
  BY DEF ReaderInv, CountedInv, DecodedWereSent
<1> QED
  BY <1>1, ReaderInvariant, PTL

\* The variables keep to their ranges; rw() holds 13 bytes at most.
THEOREM ReaderTypesCorrect ==
  ASSUME NoKeyIsAB
  PROVE  Spec => []TypeOK
<1>1. ReaderInv => TypeOK
  <2> SUFFICES ASSUME ReaderInv PROVE TypeOK
    OBVIOUS
  <2>1. LineInv /\ RxInv /\ GotInv /\ HistoryInv
    BY DEF ReaderInv
  <2>2. \A i \in DOMAIN decoded : decoded[i].keys \in [Slots -> Usage]
    BY <2>1, DecodedType
  <2>3. Len(got) < FrameLen - 2
    <3>1. Len(got) \in 0..13
      BY <2>1 DEF GotInv
    <3>2. \A m \in 0..13 : m < 16 - 2
      OBVIOUS
    <3> QED
      BY <3>1, <3>2, Zenon DEF FrameLen
  <2> QED
    BY <2>1, <2>2, <2>3 DEF TypeOK, LineInv, RxInv, HistoryInv
<1> QED
  BY <1>1, ReaderInvariant, PTL
-----------------------------------------------------------------------------
(* No frame is missed                                                      *)

Before(n) == 16 * (n - 1)
Sound(n)  == n \notin lost /\ sent[n].code = 131 /\ Undisturbed(n)
Counted(n) == \E i \in DOMAIN decoded : decoded[i].from = n

\* What rw() holds from an earlier frame than the one it takes bytes of is
\* longer than what it took of that one.
StrayInv ==
  got # <<>> =>
    /\ Consumed > 0
    /\ got[1].from < FrameOf(Consumed) /\ FrameOf(Consumed) \notin skipped =>
         Len(got) > PlaceOf(Consumed)

\* A sound frame is still to come, is what rw() holds, or is counted.
AwaitedInv ==
  \A n \in 1..Len(sent) :
    Sound(n) =>
      \/ Consumed <= Before(n)
      \/ /\ Consumed \in Before(n) + 1 .. Before(n) + 13
         /\ Len(got) = Consumed - Before(n) /\ got[1].from = n
      \/ Consumed >= Before(n) + 14 /\ Counted(n)

\* What rw() holds is of frames up to the one it takes bytes of, and of none
\* before the last one it counted; the first byte it holds was sent.
HeldInv ==
  /\ got # <<>> => got[1].from > 0
  /\ \A j \in 1..Len(got) : got[j].from <= FrameOf(Consumed)
  /\ \A j \in 1..Len(got) : got[j].from # 0 =>
       \A i \in DOMAIN decoded : decoded[i].from <= got[j].from

\* A frame that was torn has lost a byte itself, or rw() is past it.
TornInv == \A n \in torn : n \in skipped \/ Consumed > 16 * n

SoundInv == ReaderInv /\ StrayInv /\ HeldInv /\ TornInv /\ AwaitedInv

\* The five things that can happen to the stream: a frame is started, a byte
\* is received or pushes out another, rw() takes a byte, or finds none.
Started(f) ==
  /\ out = 16 /\ sent' = Append(sent, f) /\ Consumed' = Consumed
  /\ UNCHANGED <<got, decoded, lost, torn, skipped>>

Received ==
  /\ Consumed' = Consumed
  /\ UNCHANGED <<sent, got, decoded, lost, torn, skipped>>

Dropped ==
  /\ Consumed' = Consumed + 1
  /\ UNCHANGED <<sent, got, decoded>>
  /\ lost' = lost \cup {FrameOf(Consumed + 1)}
  /\ torn' = torn \cup {got[i].from : i \in DOMAIN got}
  /\ skipped \subseteq skipped'
  /\ got # <<>> => FrameOf(Consumed + 1) \in skipped'

\* What becomes of the bytes that rw() holds when it reads b.
Reads(b) ==
  \/ /\ got = <<>> /\ UNCHANGED decoded
     /\ got' = IF b.val = Header[1] THEN <<b>> ELSE <<>>
  \/ /\ Len(got) \in 1..5 /\ UNCHANGED decoded
     /\ got' = IF b.val = Header[Len(got) + 1] THEN Append(got, b) ELSE <<>>
  \/ /\ Len(got) \in 6..12 /\ UNCHANGED decoded
     /\ got' = Append(got, b)
  \/ /\ Len(got) = 13 /\ got' = <<>>
     /\ \E r : decoded' = Append(decoded, r) /\ r.from = got[1].from

Taken ==
  /\ rx # <<>> /\ Consumed' = Consumed + 1
  /\ UNCHANGED <<sent, lost, torn, skipped>>
  /\ Reads(Head(rx))

NoneTaken ==
  /\ got # <<>>
  /\ Consumed = 16 * Len(sent) /\ Consumed' = Consumed
  /\ UNCHANGED <<sent, lost, torn, skipped>>
  /\ Reads(Nothing)

LEMMA ReaderMoves ==
  ASSUME NoKeyIsAB, ReaderInv, Next
  PROVE  (\E f \in Frames : Started(f)) \/ Received \/ Dropped \/ Taken
           \/ NoneTaken
<1>0. LineInv /\ RxInv /\ GotInv /\ OrderInv /\ CountedInv /\ HistoryInv
  BY DEF ReaderInv
<1>1. /\ Total \in Nat /\ Consumed \in Nat /\ Len(rx) \in Nat
      /\ Consumed + Len(rx) = Total /\ Len(sent) \in Nat
  BY <1>0, Counts
<1>2. sent \in Seq(Frames) /\ rx \in Seq(RxByte) /\ Len(rx) <= RxSize
  BY <1>0 DEF LineInv, RxInv
<1>3. CASE \E f \in Frames : StartFrame(f)
  <2>1. PICK f \in Frames : StartFrame(f)
    BY <1>3
  <2>2. /\ out = 16 /\ sent' = Append(sent, f) /\ out' = 0 /\ rx' = rx
        /\ UNCHANGED <<got, decoded, lost, torn, skipped>>
    BY <2>1 DEF StartFrame, FrameLen
  <2>3. Len(sent') = Len(sent) + 1
    BY <1>2, <2>2, AppendProperties
  <2>4. Total' = Total
    <3>1. Total = 16 * (Len(sent) - 1) + 16 /\ Total' = 16 * (Len(sent') - 1) + 0
      BY <2>2 DEF Total
    <3> QED
      BY <1>1, <2>3, <3>1
  <2>5. Started(f)
    BY <2>2, <2>4 DEF Started, Consumed
  <2> QED
    BY <2>5
<1>4. CASE SendByte
  <2> DEFINE b == [val |-> Bytes(sent[Len(sent)])[out + 1], from |-> Len(sent)]
  <2>1. /\ out' = out + 1 /\ UNCHANGED <<sent, got, decoded>>
        /\ out \in 0..15
    BY <1>0, <1>4 DEF SendByte, LineInv, FrameLen
  <2>2. \/ /\ Len(rx) < RxSize /\ rx' = Append(rx, b)
           /\ UNCHANGED <<lost, torn, skipped>>
        \/ /\ ~(Len(rx) < RxSize) /\ rx' = Append(Tail(rx), b)
           /\ lost' = lost \cup {Head(rx).from}
           /\ torn' = torn \cup {got[i].from : i \in DOMAIN got}
           /\ skipped' = IF got = <<>> THEN skipped
                         ELSE skipped \cup {Head(rx).from}
    BY <1>4 DEF SendByte
  <2> HIDE DEF b
  <2>3. Total' = Total + 1
    BY <1>1, <2>1 DEF Total
  <2>4. CASE /\ Len(rx) < RxSize /\ rx' = Append(rx, b)
             /\ UNCHANGED <<lost, torn, skipped>>
    <3>1. Len(rx') = Len(rx) + 1
      BY <1>2, <2>4
    <3>2. Consumed' = Total' - Len(rx')
      BY DEF Consumed
    <3>3. Consumed' = Consumed
      BY <1>1, <2>3, <3>1, <3>2
    <3> QED
      BY <2>1, <2>4, <3>3 DEF Received
  <2>5. CASE /\ ~(Len(rx) < RxSize) /\ rx' = Append(Tail(rx), b)
             /\ lost' = lost \cup {Head(rx).from}
             /\ torn' = torn \cup {got[i].from : i \in DOMAIN got}
             /\ skipped' = IF got = <<>> THEN skipped
                           ELSE skipped \cup {Head(rx).from}
    <3>1. Len(rx) \in Nat \ {0} /\ rx # <<>>
      <4>1. RxSize \in Nat \ {0}
        BY FrameReaderAssumption DEF FrameReaderAssumption
      <4>2. Len(rx) # 0
        BY <1>1, <2>5, <4>1
      <4> QED
        BY <1>1, <4>2, EmptySeq
    <3>2. /\ Head(rx).from = FrameOf(Consumed + 1)
          /\ Tail(rx) \in Seq(RxByte) /\ Len(Tail(rx)) = Len(rx) - 1
      BY <1>0, <3>1, HeadIs
    <3>3. Len(rx') = Len(rx)
      <4>1. Len(rx') = Len(Tail(rx)) + 1
        BY <2>5, <3>2
      <4> QED
        BY <3>1, <3>2, <4>1
    <3>4. Consumed' = Total' - Len(rx')
      BY DEF Consumed
    <3>5. Consumed' = Consumed + 1
      BY <1>1, <2>3, <3>3, <3>4
    <3>6. /\ lost' = lost \cup {FrameOf(Consumed + 1)}
          /\ skipped \subseteq skipped'
          /\ got # <<>> => FrameOf(Consumed + 1) \in skipped'
      BY <2>5, <3>2
    <3> QED
      BY <2>1, <2>5, <3>5, <3>6 DEF Dropped
  <2> QED
    BY <2>2, <2>4, <2>5
\* The four actions of rw() differ in what they do with the byte.
<1>5. ASSUME UNCHANGED line, rx' = Tail(rx), rx # <<>>, UNCHANGED <<lost, torn, skipped>>,
             Reads(Head(rx))
      PROVE  Taken
  <2>1. Consumed' = Consumed + 1
    BY <1>0, <1>5, RxAfterRead
  <2> QED
    BY <1>5, <2>1 DEF Taken, line
<1>6. ASSUME UNCHANGED line, rx' = <<>>, rx = <<>>, out = 16, got # <<>>,
             UNCHANGED <<lost, torn, skipped>>, Reads(Nothing)
      PROVE  NoneTaken
  <2>1. Consumed' = Consumed
    BY <1>0, <1>6, NothingTaken
  <2>2. Consumed = 16 * Len(sent)
    <3>1. Len(rx) = 0
      BY <1>6
    <3>2. Total = 16 * (Len(sent) - 1) + 16
      BY <1>6 DEF Total
    <3> QED
      BY <1>1, <3>1, <3>2
  <2> QED
    BY <1>6, <2>1, <2>2 DEF NoneTaken, line
<1>7. CASE FindStart
  <2>1. Reads(Head(rx))
    BY <1>7 DEF FindStart, Reads
  <2> QED
    BY <1>5, <1>7, <2>1 DEF FindStart
<1>8. ASSUME Read, got # <<>>, UNCHANGED line, UNCHANGED <<lost, torn, skipped>>,
             Reads(Byte)
      PROVE  Taken \/ NoneTaken
  <2>1. CASE rx = <<>>
    <3>1. Byte = Nothing /\ rx' = <<>> /\ out = 16
      BY <1>8, <2>1 DEF Byte, Read, FrameLen
    <3> QED
      BY <1>6, <1>8, <2>1, <3>1
  <2>2. CASE rx # <<>>
    <3>1. Byte = Head(rx) /\ rx' = Tail(rx)
      BY <1>8, <2>2 DEF Byte, Read
    <3> QED
      BY <1>5, <1>8, <2>2, <3>1
  <2> QED
    BY <2>1, <2>2
<1>9. Len(got) # 0 => got # <<>>
  BY EmptySeq
<1>13. (\A m \in 1..5 : m # 0) /\ (\A m \in 6..12 : m # 0) /\ 13 # 0
  OBVIOUS
<1>10. CASE MatchHeader
  <2>1. /\ Len(got) \in 1..5 /\ Read /\ UNCHANGED decoded
        /\ got' = IF Byte.val = Header[Len(got) + 1] THEN Append(got, Byte) ELSE <<>>
        /\ UNCHANGED line /\ UNCHANGED <<lost, torn, skipped>>
    BY <1>10, HeaderIs DEF MatchHeader
  <2>2. Reads(Byte)
    BY <2>1 DEF Reads
  <2>3. Len(got) # 0
    BY <1>13, <2>1, Zenon
  <2> QED
    BY <1>8, <1>9, <2>1, <2>2, <2>3
<1>11. CASE ReadValue
  <2>1. /\ Len(got) \in 6..12 /\ Read /\ UNCHANGED decoded
        /\ got' = Append(got, Byte)
        /\ UNCHANGED line /\ UNCHANGED <<lost, torn, skipped>>
    BY <1>11, HeaderIs DEF ReadValue
  <2>2. Reads(Byte)
    BY <2>1 DEF Reads
  <2>3. Len(got) # 0
    BY <1>13, <2>1, Zenon
  <2> QED
    BY <1>8, <1>9, <2>1, <2>2, <2>3
<1>12. CASE ReadLastValue
  <2> DEFINE k == [s \in Slots |-> Append(got, Byte)[FirstKey + s - 3].val]
             r == [from |-> got[1].from, keys |-> k]
  <2>1. /\ Len(got) = 13 /\ Read /\ got' = <<>>
        /\ decoded' = Append(decoded, r)
        /\ UNCHANGED line /\ UNCHANGED <<lost, torn, skipped>>
    BY <1>12, HeaderIs DEF ReadLastValue
  <2> HIDE DEF k
  <2>2. r.from = got[1].from
    OBVIOUS
  <2> HIDE DEF r
  <2>3. Reads(Byte)
    BY <2>1, <2>2 DEF Reads
  <2>4. Len(got) # 0
    BY <1>13, <2>1, Zenon
  <2> QED
    BY <1>8, <1>9, <2>1, <2>3, <2>4
<1> QED
  BY <1>3, <1>4, <1>7, <1>10, <1>11, <1>12 DEF Next

LEMMA NextPlace ==
  ASSUME NEW c \in Nat \ {0}
  PROVE  \/ FrameOf(c + 1) = FrameOf(c) /\ PlaceOf(c + 1) = PlaceOf(c) + 1
         \/ PlaceOf(c + 1) = 1
<1> DEFINE k == FrameOf(c)
           b == PlaceOf(c)
<1>1. k \in Nat \ {0} /\ b \in 1..16 /\ c = 16 * (k - 1) + b
  BY Places
<1> HIDE DEF k, b
<1>2. CASE b <= 15
  <2>1. b + 1 \in 1..16 /\ c + 1 = 16 * (k - 1) + (b + 1)
    BY <1>1, <1>2
  <2>2. FrameOf(c + 1) = k /\ PlaceOf(c + 1) = b + 1
    BY <1>1, <2>1, PlaceIs
  <2> QED
    BY <2>2 DEF k, b
<1>3. CASE b = 16
  <2> DEFINE j == k + 1
  <2>1. j \in Nat \ {0} /\ 1 \in 1..16 /\ c + 1 = 16 * (j - 1) + 1
    BY <1>1, <1>3
  <2> HIDE DEF j
  <2>2. PlaceOf(16 * (j - 1) + 1) = 1
    BY <2>1, PlaceIs
  <2> QED
    BY <2>1, <2>2
<1> QED
  BY <1>1, <1>2, <1>3

\* rw() holds something: at least one byte, the first of a known frame.
LEMMA Held ==
  ASSUME GotInv, got # <<>>
  PROVE  Len(got) \in 1..13 /\ got[1].from \in Nat
<1>1. got \in Seq(RxByte) /\ Len(got) \in 0..13
  BY DEF GotInv
<1>2. Len(got) # 0
  BY <1>1, EmptySeq
<1>3. Len(got) \in 1..13
  <2>1. \A m \in 0..13 : m # 0 => m \in 1..13
    OBVIOUS
  <2> QED
    BY <1>1, <1>2, <2>1, Zenon
<1>4. 1 \in 1..Len(got)
  BY <1>3
<1>5. got[1] \in RxByte
  BY <1>1, <1>4, ElementOfSeq
<1> QED
  BY <1>3, <1>5 DEF RxByte

\* A byte more, or nothing.
LEMMA AfterRead ==
  ASSUME GotInv, NEW b \in RxByte, Reads(b), got # <<>>
  PROVE  got' = <<>> \/ (Len(got') = Len(got) + 1 /\ got'[1] = got[1])
<1> SUFFICES ASSUME got' # <<>> PROVE Len(got') = Len(got) + 1 /\ got'[1] = got[1]
  OBVIOUS
<1>1. got' = Append(got, b)
  BY DEF Reads
<1>2. 1 \in 1..Len(got) /\ got \in Seq(RxByte)
  <2>1. Len(got) \in 1..13
    BY Held
  <2>2. \A m \in 1..13 : 1 \in 1..m
    OBVIOUS
  <2> QED
    BY <2>1, <2>2 DEF GotInv
<1> QED
  BY <1>1, <1>2, AppendProperties

LEMMA StrayStep ==
  ASSUME ReaderInv, StrayInv,
         (\E f \in Frames : Started(f)) \/ Received \/ Dropped \/ Taken
           \/ NoneTaken
  PROVE  StrayInv'
<1>0. LineInv /\ RxInv /\ GotInv
  BY DEF ReaderInv
<1>1. Consumed \in Nat /\ FrameOf(Consumed) \in Nat /\ FrameOf(Consumed + 1) \in Nat
  <2>1. Consumed \in Nat /\ FrameOf(Consumed) \in Nat
    BY <1>0, Counts
  <2> QED
    BY <2>1 DEF FrameOf
<1>2. CASE (\E f \in Frames : Started(f)) \/ Received
  <2>1. UNCHANGED <<got, skipped>> /\ Consumed' = Consumed
    BY <1>2 DEF Started, Received
  <2> QED
    BY <2>1 DEF StrayInv
<1>3. CASE Dropped
  BY <1>1, <1>3 DEF Dropped, StrayInv
<1>4. CASE Taken
  <2>1. /\ Consumed' = Consumed + 1 /\ skipped' = skipped
        /\ Reads(Head(rx)) /\ rx # <<>>
    BY <1>4 DEF Taken
  <2>2. Head(rx) \in RxByte /\ Head(rx).from = FrameOf(Consumed + 1)
    BY <1>0, <2>1, HeadIs
  <2>3. Consumed' > 0
    BY <1>1, <2>1
  <2>4. CASE got = <<>>
    <3>1. Len(got) = 0
      BY <2>4
    <3>2. got' = <<>> \/ got' = <<Head(rx)>>
      <4>1. Len(got) \notin 1..5 /\ Len(got) \notin 6..12 /\ Len(got) # 13
        BY <3>1
      <4> QED
        BY <2>1, <4>1 DEF Reads
    <3>3. got' # <<>> => got'[1].from = FrameOf(Consumed + 1)
      BY <2>2, <3>2
    <3> QED
      BY <1>1, <2>1, <2>3, <3>3 DEF StrayInv
  <2>5. CASE got # <<>>
    <3> SUFFICES ASSUME got' # <<>>, got'[1].from < FrameOf(Consumed + 1),
                        FrameOf(Consumed + 1) \notin skipped
                 PROVE  Len(got') > PlaceOf(Consumed + 1)
      BY <2>1, <2>3 DEF StrayInv
    <3>1. Len(got') = Len(got) + 1 /\ got'[1] = got[1]
      BY <1>0, <2>1, <2>2, <2>5, AfterRead
    <3>2. Consumed \in Nat \ {0} /\ Len(got) \in 1..13
      BY <1>0, <1>1, <2>5, Held DEF StrayInv
    <3>3. PlaceOf(Consumed) \in 1..16
      BY <3>2, Places
    <3>4. CASE PlaceOf(Consumed + 1) = 1
      <4> DEFINE m == Len(got)
      <4>1. m \in 1..13
        BY <3>2
      <4> HIDE DEF m
      <4>2. m + 1 > 1
        BY <4>1
      <4> QED
        BY <3>1, <3>4, <4>2 DEF m
    <3>5. CASE /\ FrameOf(Consumed + 1) = FrameOf(Consumed)
               /\ PlaceOf(Consumed + 1) = PlaceOf(Consumed) + 1
      <4>1. Len(got) > PlaceOf(Consumed)
        BY <2>5, <3>1, <3>5 DEF StrayInv
      <4> DEFINE m == Len(got)
                 q == PlaceOf(Consumed)
      <4>2. m \in 1..13 /\ q \in 1..16 /\ m > q
        BY <3>2, <3>3, <4>1
      <4> HIDE DEF m, q
      <4>3. m + 1 > q + 1
        BY <4>2
      <4> QED
        BY <3>1, <3>5, <4>3 DEF m, q
    <3> QED
      BY <3>2, <3>4, <3>5, NextPlace
  <2> QED
    BY <2>4, <2>5
<1>5. CASE NoneTaken
  <2>1. /\ got # <<>> /\ Consumed' = Consumed /\ skipped' = skipped
        /\ Reads(Nothing)
    BY <1>5 DEF NoneTaken
  <2>2. Nothing \in RxByte
    BY DEF Nothing, RxByte
  <2>3. got' = <<>> \/ (Len(got') = Len(got) + 1 /\ got'[1] = got[1])
    BY <1>0, <2>1, <2>2, AfterRead
  <2>4. Len(got) \in 1..13 /\ Consumed \in Nat \ {0}
    BY <1>0, <1>1, <2>1, Held DEF StrayInv
  <2>5. PlaceOf(Consumed) \in 1..16
    BY <2>4, Places
  <2> DEFINE m == Len(got)
             q == PlaceOf(Consumed)
  <2>6. m \in 1..13 /\ q \in 1..16
    BY <2>4, <2>5
  <2>7. m > q => m + 1 > q
    <3> HIDE DEF m, q
    <3> QED
      BY <2>6
  <2> QED
    BY <2>1, <2>3, <2>7 DEF StrayInv
<1> QED
  BY <1>2, <1>3, <1>4, <1>5

\* What rw() holds stays in order as it takes bytes and counts reports.
LEMMA HeldStep ==
  ASSUME ReaderInv, HeldInv,
         (\E f \in Frames : Started(f)) \/ Received \/ Dropped \/ Taken
           \/ NoneTaken
  PROVE  HeldInv'
<1>0. LineInv /\ RxInv /\ GotInv /\ OrderInv /\ HistoryInv
  BY DEF ReaderInv
<1>7. \A j \in 1..Len(got) : got[j].from \in Nat
  <2> SUFFICES ASSUME NEW j \in 1..Len(got) PROVE got[j].from \in Nat
    OBVIOUS
  <2>1. got[j] \in RxByte
    BY <1>0, ElementOfSeq DEF GotInv
  <2> QED
    BY <2>1 DEF RxByte
<1>8. \A i \in DOMAIN decoded : decoded[i].from \in Nat
  BY <1>0, DecodedType
<1>1. /\ Consumed \in Nat /\ FrameOf(Consumed) \in Nat
      /\ FrameOf(Consumed + 1) \in Nat /\ FrameOf(Consumed) <= FrameOf(Consumed + 1)
  <2>1. Consumed \in Nat
    BY <1>0, Counts
  <2> QED
    BY <2>1, FrameOrder
<1>2. CASE (\E f \in Frames : Started(f)) \/ Received
  <2>1. UNCHANGED <<got, decoded>> /\ Consumed' = Consumed
    BY <1>2 DEF Started, Received
  <2> QED
    BY <2>1 DEF HeldInv
<1>3. CASE Dropped
  <2>1. UNCHANGED <<got, decoded>> /\ Consumed' = Consumed + 1
    BY <1>3 DEF Dropped
  <2>2. \A j \in 1..Len(got) : got[j].from <= FrameOf(Consumed + 1)
    <3> SUFFICES ASSUME NEW j \in 1..Len(got)
                 PROVE  got[j].from <= FrameOf(Consumed + 1)
      OBVIOUS
    <3>1. got[j].from \in Nat
      BY <1>7
    <3>2. got[j].from <= FrameOf(Consumed)
      BY DEF HeldInv
    <3> QED
      BY <1>1, <3>1, <3>2
  <2> QED
    BY <2>1, <2>2 DEF HeldInv
\* What is read is a byte of the frame that comes, or nothing.
<1>4. ASSUME NEW b \in RxByte, Reads(b),
             b.from <= FrameOf(Consumed)', FrameOf(Consumed) <= FrameOf(Consumed)',
             FrameOf(Consumed)' \in Nat,
             b.from # 0 => b.from = FrameOf(Consumed)', got = <<>> => b.from > 0
      PROVE  HeldInv'
  <2>1. CASE got' = <<>>
    BY <2>1 DEF HeldInv
  <2>2. CASE got = <<>> /\ got' = <<b>> /\ decoded' = decoded
    <3>1. Len(got') = 1 /\ got'[1] = b
      BY <2>2
    <3>2. \A i \in DOMAIN decoded : decoded[i].from <= b.from
      <4> SUFFICES ASSUME NEW i \in DOMAIN decoded
                   PROVE  decoded[i].from <= b.from
        OBVIOUS
      <4>1. decoded[i].from \in Nat
        BY <1>8
      <4>2. decoded[i].from <= FrameOf(Consumed)
        BY <1>0 DEF OrderInv
      <4>3. b.from = FrameOf(Consumed)'
        BY <1>4, <2>2
      <4> QED
        BY <1>1, <1>4, <4>1, <4>2, <4>3
    <3>3. \A j \in 1..Len(got') : j = 1
      BY <3>1
    <3>4. b.from > 0
      BY <1>4, <2>2
    <3> QED
      BY <1>4, <2>2, <3>1, <3>2, <3>3, <3>4 DEF HeldInv
  <2>3. CASE got # <<>> /\ got' = Append(got, b) /\ decoded' = decoded
    <3>1. got \in Seq(RxByte) /\ Len(got) \in Nat /\ 1 \in 1..Len(got)
      BY <1>0, <2>3, Held DEF GotInv
    <3>2. /\ Len(got') = Len(got) + 1 /\ got'[Len(got) + 1] = b
          /\ \A j \in 1..Len(got) : got'[j] = got[j]
      BY <2>3, <3>1, AppendProperties
    <3>3. \A i \in DOMAIN decoded : b.from # 0 => decoded[i].from <= b.from
      <4> SUFFICES ASSUME NEW i \in DOMAIN decoded, b.from # 0
                   PROVE  decoded[i].from <= b.from
        OBVIOUS
      <4>1. decoded[i].from \in Nat
        BY <1>8
      <4>2. decoded[i].from <= FrameOf(Consumed)
        BY <1>0 DEF OrderInv
      <4> QED
        BY <1>1, <1>4, <4>1, <4>2
    <3>4. ASSUME NEW j \in 1..Len(got')
          PROVE  /\ got'[j].from <= FrameOf(Consumed)'
                 /\ got'[j].from # 0 =>
                      \A i \in DOMAIN decoded : decoded[i].from <= got'[j].from
      <4>1. CASE j = Len(got) + 1
        BY <1>4, <3>2, <3>3, <4>1
      <4>2. CASE j \in 1..Len(got)
        <5>1. got'[j] = got[j] /\ got[j].from \in Nat
          BY <1>7, <3>2, <4>2
        <5>2. got[j].from <= FrameOf(Consumed)
          BY <4>2 DEF HeldInv
        <5>3. got[j].from <= FrameOf(Consumed)'
          BY <1>1, <1>4, <5>1, <5>2
        <5> QED
          BY <4>2, <5>1, <5>3 DEF HeldInv
      <4> QED
        BY <3>1, <3>2, <4>1, <4>2
    <3>5. got'[1].from > 0
      BY <2>3, <3>1, <3>2 DEF HeldInv
    <3> QED
      BY <2>3, <3>4, <3>5 DEF HeldInv
  <2>4. CASE got = <<>>
    <3>1. Len(got) = 0
      BY <2>4
    <3>2. got' \in {<<>>, <<b>>} /\ decoded' = decoded
      BY <1>4, <3>1 DEF Reads
    <3> QED
      BY <2>1, <2>2, <2>4, <3>2
  <2>5. CASE got # <<>>
    <3>1. got' = <<>> \/ (got' = Append(got, b) /\ decoded' = decoded)
      BY <1>4, <2>5 DEF Reads
    <3> QED
      BY <2>1, <2>3, <2>5, <3>1
  <2> QED
    BY <2>4, <2>5
<1>5. CASE Taken
  <2>1. Consumed' = Consumed + 1 /\ rx # <<>> /\ Reads(Head(rx))
    BY <1>5 DEF Taken
  <2>2. /\ Head(rx) \in RxByte /\ Head(rx).from = FrameOf(Consumed + 1)
        /\ FrameOf(Consumed + 1) \in 1..Len(sent)
    BY <1>0, <2>1, HeadIs
  <2>3. FrameOf(Consumed)' = FrameOf(Consumed + 1)
    BY <2>1
  <2>4. Head(rx).from > 0
    BY <1>1, <2>2
  <2>5. FrameOf(Consumed + 1) <= FrameOf(Consumed + 1)
    BY <1>1
  <2> QED
    BY <1>1, <1>4, <2>1, <2>2, <2>3, <2>4, <2>5
<1>6. CASE NoneTaken
  <2>1. Consumed' = Consumed /\ got # <<>> /\ Reads(Nothing)
    BY <1>6 DEF NoneTaken
  <2>2. Nothing \in RxByte /\ Nothing.from = 0
    BY DEF Nothing, RxByte
  <2>3. FrameOf(Consumed)' = FrameOf(Consumed)
    BY <2>1
  <2>4. 0 <= FrameOf(Consumed) /\ FrameOf(Consumed) <= FrameOf(Consumed)
    BY <1>1
  <2> QED
    BY <1>1, <1>4, <2>1, <2>2, <2>3, <2>4
<1> QED
  BY <1>2, <1>3, <1>5, <1>6

LEMMA TornStep ==
  ASSUME ReaderInv, HeldInv, TornInv,
         (\E f \in Frames : Started(f)) \/ Received \/ Dropped \/ Taken
           \/ NoneTaken
  PROVE  TornInv'
<1>0. LineInv /\ RxInv /\ GotInv /\ HistoryInv
  BY DEF ReaderInv
<1>1. Consumed \in Nat
  BY <1>0, Counts
<1>2. CASE UNCHANGED <<torn, skipped>> /\ Consumed' \in {Consumed, Consumed + 1}
  <2> SUFFICES ASSUME NEW n \in torn, n \notin skipped
               PROVE  Consumed' > 16 * n
    BY <1>2 DEF TornInv
  <2>1. n \in Nat /\ Consumed > 16 * n
    BY <1>0 DEF TornInv, HistoryInv
  <2> QED
    BY <1>1, <1>2, <2>1
<1>3. CASE Dropped
  <2>1. /\ Consumed' = Consumed + 1 /\ skipped \subseteq skipped'
        /\ torn' = torn \cup {got[i].from : i \in DOMAIN got}
        /\ got # <<>> => FrameOf(Consumed + 1) \in skipped'
    BY <1>3 DEF Dropped
  <2> SUFFICES ASSUME NEW n \in torn', n \notin skipped'
               PROVE  Consumed + 1 > 16 * n
    BY <2>1 DEF TornInv
  <2>2. CASE n \in torn
    <3>1. n \in Nat /\ Consumed > 16 * n
      BY <1>0, <2>1, <2>2 DEF TornInv, HistoryInv
    <3> QED
      BY <1>1, <3>1
  <2>3. CASE n \in {got[i].from : i \in DOMAIN got}
    <3>1. PICK i \in DOMAIN got : n = got[i].from
      BY <2>3
    <3>2. got \in Seq(RxByte) /\ i \in 1..Len(got) /\ got # <<>>
      BY <1>0, <3>1 DEF GotInv
    <3>3. n \in Nat /\ n <= FrameOf(Consumed)
      <4>1. got[i] \in RxByte
        BY <3>2, ElementOfSeq
      <4> QED
        BY <3>1, <3>2, <4>1 DEF HeldInv, RxByte
    <3>4. n # FrameOf(Consumed + 1)
      BY <2>1, <3>2
    <3> QED
      BY <1>1, <3>3, <3>4 DEF FrameOf
  <2> QED
    BY <2>1, <2>2, <2>3
<1> QED
  BY <1>2, <1>3 DEF Started, Received, Taken, NoneTaken

\* When the bytes of an undisturbed frame are next, rw() holds nothing.
LEMMA InStep ==
  ASSUME NoKeyIsAB, ReaderInv, StrayInv, TornInv, NEW n \in 1..Len(sent),
         Consumed = Before(n), Undisturbed(n)
  PROVE  got = <<>>
<1> SUFFICES ASSUME got # <<>> PROVE FALSE
  OBVIOUS
<1> DEFINE m == n - 1
           g == Len(got)
<1>0. LineInv /\ RxInv /\ GotInv
  BY DEF ReaderInv
<1>1. /\ n \in Nat \ {0} /\ n <= Len(sent) /\ Len(sent) \in Nat
      /\ Consumed = 16 * (n - 1) /\ Consumed > 0
  <2>1. Len(sent) \in Nat
    BY <1>0, Counts
  <2> QED
    BY <2>1 DEF Before, StrayInv
<1>2. m \in Nat \ {0} /\ m \in 1..Len(sent) /\ Consumed = 16 * (m - 1) + 16 /\ n > 1
  BY <1>1
<1>3. m \notin torn /\ m \notin skipped /\ ~EndsLikeHeader(sent[m])
  <2>1. m \notin skipped /\ ~EndsLikeHeader(sent[m])
    BY <1>2 DEF Undisturbed
  <2>2. ~(Consumed > 16 * m)
    <3> HIDE DEF m
    <3> QED
      BY <1>2
  <2> QED
    BY <2>1, <2>2 DEF TornInv
<1>4. g \in 1..13 /\ got[1].from \in Nat /\ got[1].from <= FrameOf(Consumed)
  BY <1>0, Held DEF GotInv
<1> HIDE DEF m
<1>5. FrameOf(Consumed) = m /\ PlaceOf(Consumed) = 16
  <2>1. 16 \in 1..16
    OBVIOUS
  <2>2. FrameOf(16 * (m - 1) + 16) = m /\ PlaceOf(16 * (m - 1) + 16) = 16
    BY <1>2, <2>1, PlaceIs
  <2> QED
    BY <1>2, <2>2
\* Nothing of an earlier frame: that would be 17 bytes.
<1>6. got[1].from = m
  <2>1. ~(g > 16)
    <3> HIDE DEF g
    <3> QED
      BY <1>4
  <2>2. ~(got[1].from < m)
    BY <1>3, <1>5, <2>1 DEF StrayInv
  <2> QED
    BY <1>2, <1>4, <1>5, <2>2
\* In one piece, then: the end of frame m.
<1>7. Intact /\ g <= Consumed /\ Window(got, sent, Consumed - g)
  BY <1>0, <1>3, <1>6 DEF Intact, GotInv
<1> HIDE DEF g
<1>8. CASE g >= 6
  <2>1. PlaceOf((Consumed - g) + 1) = 1
    BY <1>0, <1>7, <1>8, HeldIsFrame DEF g
  <2> DEFINE b == 17 - g
  <2>2. b \in 1..16 /\ b # 1 /\ (Consumed - g) + 1 = 16 * (m - 1) + b
    BY <1>2, <1>4, <1>8
  <2> HIDE DEF b
  <2>3. PlaceOf(16 * (m - 1) + b) = b
    BY <1>2, <2>2, PlaceIs
  <2> QED
    BY <2>1, <2>2, <2>3
<1>9. CASE g < 6
  <2>1. g \in 1..Len(Header)
    BY <1>4, <1>9, HeaderIs
  <2>2. ASSUME NEW i \in 1..g
        PROVE  Bytes(sent[m])[FrameLen - g + i] = Header[i]
    <3> DEFINE b == 16 - g + i
    <3>1. b \in 1..16 /\ (Consumed - g) + i = 16 * (m - 1) + b /\ i \in 1..6
          /\ i <= g
      BY <1>2, <1>4, <1>9
    <3> HIDE DEF b
    <3>2. FrameOf(16 * (m - 1) + b) = m /\ PlaceOf(16 * (m - 1) + b) = b
      BY <1>2, <3>1, PlaceIs
    <3>3. got[i] = StreamByte(sent, (Consumed - g) + i)
      BY <1>7 DEF Window, g
    <3> DEFINE x == Bytes(sent[m])[b]
    <3>4. got[i] = [val |-> x, from |-> m]
      BY <3>1, <3>2, <3>3, Zenon DEF StreamByte
    <3> HIDE DEF x
    <3>5. got[i].val = x
      BY ONLY <3>4, ValueOf
    <3>6. got[i].val = Header[i]
      BY <1>0, <3>1 DEF GotInv, g
    <3> QED
      BY <3>5, <3>6 DEF x, b, FrameLen
  <2>3. EndsLikeHeader(sent[m])
    BY <2>1, <2>2 DEF EndsLikeHeader
  <2> QED
    BY <1>3, <2>3
<1> QED
  BY <1>4, <1>8, <1>9

\* The next byte of frame n, and what it is if n is a report of state 1.
LEMMA NextByte ==
  ASSUME LineInv, RxInv, NEW n \in 1..Len(sent), NEW b \in 0..15,
         Consumed = Before(n) + b
  PROVE  /\ FrameOf(Consumed + 1) = n
         /\ rx # <<>> => Head(rx).from = n
         /\ rx # <<>> /\ sent[n].code = 131 /\ b < 6 =>
              Head(rx).val = Header[b + 1]
<1> DEFINE d == b + 1
<1>1. n \in Nat \ {0} /\ d \in 1..16 /\ Consumed + 1 = 16 * (n - 1) + d
  <2>1. n \in Nat \ {0}
    BY Counts
  <2> QED
    BY <2>1 DEF Before
<1>2. FrameOf(Consumed + 1) = n /\ PlaceOf(Consumed + 1) = d
  <2> HIDE DEF d
  <2>1. FrameOf(16 * (n - 1) + d) = n /\ PlaceOf(16 * (n - 1) + d) = d
    BY <1>1, PlaceIs
  <2> QED
    BY <1>1, <2>1
<1>3. ASSUME rx # <<>>
      PROVE  Head(rx).from = n /\ Head(rx).val = Bytes(sent[n])[d]
  <2>1. Head(rx).from = FrameOf(Consumed + 1) /\ Head(rx) = StreamByte(sent, Consumed + 1)
    BY <1>3, HeadIs
  <2> DEFINE x == Bytes(sent[n])[d]
  <2>2. Head(rx) = [val |-> x, from |-> n]
    BY <1>2, <2>1, Zenon DEF StreamByte
  <2> HIDE DEF x
  <2>3. Head(rx).val = x
    BY ONLY <2>2, ValueOf
  <2> QED
    BY <1>2, <2>1, <2>3 DEF x
<1>4. ASSUME sent[n].code = 131, b < 6
      PROVE  Bytes(sent[n])[d] = Header[b + 1]
  <2> DEFINE x == Bytes(sent[n])
             c == sent[n].code
  <2>1. sent[n] \in Frames
    BY ElementOfSeq DEF LineInv
  <2>2. /\ x[1] = 87 /\ x[2] = 171 /\ x[3] = c /\ x[4] = 12 /\ x[5] = 18
        /\ x[6] = 1
    BY <2>1, BytesAre
  <2>3. c = 131
    BY <1>4
  <2>4. d = 1 \/ d = 2 \/ d = 3 \/ d = 4 \/ d = 5 \/ d = 6
    BY <1>4
  <2> HIDE DEF x, c, d
  <2>5. x[d] = Header[d]
    BY <2>2, <2>3, <2>4, HeaderIs
  <2> QED
    BY <2>5 DEF x, d
<1> QED
  BY <1>2, <1>3, <1>4

\* A sound frame has been sound: nothing is ever taken out of the histories.
LEMMA SoundBefore ==
  ASSUME NEW n, Sound(n)', sent'[n] = sent[n],
         n > 1 => sent'[n - 1] = sent[n - 1],
         lost \subseteq lost', torn \subseteq torn', skipped \subseteq skipped'
  PROVE  Sound(n)
  BY DEF Sound, Undisturbed, EndsLikeHeader

\* What rw() holds of a sound frame gets one byte longer, up to v8.
LEMMA SoundTaken ==
  ASSUME NoKeyIsAB, ReaderInv, StrayInv, TornInv, Taken, NEW n \in 1..Len(sent),
         Sound(n), NEW b \in 0..13, Consumed = Before(n) + b,
         b > 0 => Len(got) = b /\ got[1].from = n
  PROVE  /\ b < 13 => Len(got') = b + 1 /\ got'[1].from = n
         /\ b = 13 => Counted(n)'
<1>0. LineInv /\ RxInv /\ GotInv /\ HistoryInv
  BY DEF ReaderInv
<1>1. rx # <<>> /\ Reads(Head(rx))
  BY DEF Taken
<1>2. /\ Head(rx) \in RxByte /\ Head(rx).from = n
      /\ b < 6 => Head(rx).val = Header[b + 1]
  <2>1. b \in 0..15 /\ sent[n].code = 131
    BY DEF Sound
  <2> QED
    BY <1>0, <1>1, <2>1, NextByte, HeadIs
<1>3. CASE b = 0
  <2>1. Consumed = Before(n)
    <3>1. Before(n) \in Int
      BY DEF Before
    <3> QED
      BY <1>3, <3>1
  <2>2. got = <<>> /\ Len(got) = 0
    BY <2>1, InStep DEF Sound
  <2>3. Len(got) \notin 1..5 /\ Len(got) \notin 6..12 /\ Len(got) # 13
    BY <2>2
  <2>4. Head(rx).val = Header[1]
    BY <1>2, <1>3
  <2>5. got' = <<Head(rx)>>
    BY <1>1, <2>3, <2>4 DEF Reads
  <2> QED
    BY <1>2, <1>3, <2>5
<1>4. CASE b \in 1..12
  <2>1. Len(got) = b /\ got[1].from = n
    BY <1>4
  <2>2. got # <<>> /\ b # 13
    BY <1>4, <2>1, EmptySeq
  <2>3. got' = Append(got, Head(rx))
    <3>1. CASE b \in 1..5
      <4>1. Head(rx).val = Header[Len(got) + 1] /\ b \notin 6..12
        BY <1>2, <2>1, <3>1
      <4> QED
        BY <1>1, <2>1, <2>2, <4>1 DEF Reads
    <3>2. CASE b \in 6..12
      <4>1. b \notin 1..5
        BY <3>2
      <4> QED
        BY <1>1, <2>1, <2>2, <4>1 DEF Reads
    <3> QED
      BY <1>4, <3>1, <3>2
  <2>4. got \in Seq(RxByte) /\ 1 \in 1..Len(got)
    BY <1>0, <1>4, <2>1 DEF GotInv
  <2>5. Len(got') = b + 1 /\ got'[1] = got[1]
    BY <1>2, <2>1, <2>3, <2>4, AppendProperties
  <2> QED
    BY <1>4, <2>1, <2>2, <2>5
<1>5. CASE b = 13
  <2>1. Len(got) = 13 /\ got[1].from = n
    BY <1>5
  <2>2. got # <<>> /\ Len(got) \notin 1..5 /\ Len(got) \notin 6..12
    <3>1. 13 # 0 /\ 13 \notin 1..5 /\ 13 \notin 6..12
      OBVIOUS
    <3> QED
      BY <2>1, <3>1, EmptySeq, Zenon
  <2>3. PICK r : decoded' = Append(decoded, r) /\ r.from = got[1].from
    BY <1>1, <2>1, <2>2 DEF Reads
  <2>4. /\ Len(decoded) + 1 \in DOMAIN decoded'
        /\ decoded'[Len(decoded) + 1] = r
    BY <1>0, <2>3 DEF HistoryInv
  <2>5. Counted(n)'
    BY <2>1, <2>3, <2>4 DEF Counted
  <2> QED
    BY <1>5, <2>5
<1> QED
  BY <1>3, <1>4, <1>5

\* A counted report is not forgotten.
LEMMA CountedOnce ==
  ASSUME HistoryInv, NEW n, Counted(n),
         UNCHANGED decoded \/ \E r : decoded' = Append(decoded, r)
  PROVE  Counted(n)'
<1>1. PICK i \in DOMAIN decoded : decoded[i].from = n
  BY DEF Counted
<1>2. i \in DOMAIN decoded' /\ decoded'[i] = decoded[i]
  <2>1. CASE UNCHANGED decoded
    BY <2>1
  <2>2. CASE \E r : decoded' = Append(decoded, r)
    BY <2>2 DEF HistoryInv
  <2> QED
    BY <2>1, <2>2
<1> QED
  BY <1>1, <1>2 DEF Counted

LEMMA AwaitedStep ==
  ASSUME NoKeyIsAB, SoundInv,
         (\E f \in Frames : Started(f)) \/ Received \/ Dropped \/ Taken
           \/ NoneTaken
  PROVE  AwaitedInv'
<1>0. /\ LineInv /\ RxInv /\ GotInv /\ HistoryInv
      /\ ReaderInv /\ StrayInv /\ TornInv /\ AwaitedInv
  BY DEF SoundInv, ReaderInv
<1>1. Consumed \in Nat /\ Len(sent) \in Nat /\ sent \in Seq(Frames)
  BY <1>0, Counts DEF LineInv
\* A frame that is just begun is still to come.
<1>2. CASE \E f \in Frames : Started(f)
  <2>1. PICK f \in Frames : Started(f)
    BY <1>2
  <2>2. /\ sent' = Append(sent, f) /\ Consumed' = Consumed
        /\ UNCHANGED <<got, decoded, lost, torn, skipped>>
    BY <2>1 DEF Started
  <2>3. /\ Len(sent') = Len(sent) + 1
        /\ \A i \in 1..Len(sent) : sent'[i] = sent[i]
    BY <1>1, <2>2, AppendProperties
  <2> SUFFICES ASSUME NEW n \in 1..Len(sent'), Sound(n)'
               PROVE  \/ Consumed <= Before(n)
                      \/ /\ Consumed \in Before(n) + 1 .. Before(n) + 13
                         /\ Len(got) = Consumed - Before(n) /\ got[1].from = n
                      \/ Consumed >= Before(n) + 14 /\ Counted(n)
    BY <2>2 DEF AwaitedInv, Before, Counted
  <2>4. CASE n \in 1..Len(sent)
    <3>1. n > 1 => n - 1 \in 1..Len(sent)
      BY <1>1, <2>4
    <3>2. sent'[n] = sent[n] /\ (n > 1 => sent'[n - 1] = sent[n - 1])
      BY <2>3, <2>4, <3>1
    <3>3. Sound(n)
      BY <2>2, <3>2, SoundBefore
    <3> QED
      BY <1>0, <2>4, <3>3 DEF AwaitedInv
  <2>5. CASE n \notin 1..Len(sent)
    <3>1. n = Len(sent) + 1
      BY <1>1, <2>3, <2>5
    <3>2. Consumed <= 16 * Len(sent)
      <4>1. Len(rx) \in Nat /\ Consumed + Len(rx) = Total /\ Total <= 16 * Len(sent)
        BY <1>0, Counts
      <4> QED
        BY <1>1, <4>1
    <3>3. Before(n) = 16 * Len(sent)
      BY <1>1, <3>1 DEF Before
    <3> QED
      BY <3>2, <3>3
  <2> QED
    BY <2>4, <2>5
<1>3. CASE Received \/ Dropped \/ Taken \/ NoneTaken
  <2>1. /\ sent' = sent /\ Consumed' \in {Consumed, Consumed + 1}
        /\ lost \subseteq lost' /\ torn \subseteq torn' /\ skipped \subseteq skipped'
    BY <1>3 DEF Received, Dropped, Taken, NoneTaken
  <2>2. UNCHANGED decoded \/ \E r : decoded' = Append(decoded, r)
    BY <1>3 DEF Received, Dropped, Taken, NoneTaken, Reads
  <2> SUFFICES ASSUME NEW n \in 1..Len(sent), Sound(n)'
               PROVE  \/ Consumed' <= Before(n)
                      \/ /\ Consumed' \in Before(n) + 1 .. Before(n) + 13
                         /\ Len(got') = Consumed' - Before(n) /\ got'[1].from = n
                      \/ Consumed' >= Before(n) + 14 /\ Counted(n)'
    BY <2>1 DEF AwaitedInv, Before
  <2>3. Sound(n)
    BY <2>1, SoundBefore
  <2>4. Before(n) \in Nat /\ n \in Nat \ {0} /\ n <= Len(sent)
    BY <1>1 DEF Before
  <2>5. \/ Consumed <= Before(n)
        \/ /\ Consumed \in Before(n) + 1 .. Before(n) + 13
           /\ Len(got) = Consumed - Before(n) /\ got[1].from = n
        \/ Consumed >= Before(n) + 14 /\ Counted(n)
    BY <1>0, <2>3 DEF AwaitedInv
  <2>6. CASE Consumed < Before(n)
    BY <1>1, <2>1, <2>4, <2>6
  <2>7. CASE Consumed >= Before(n) + 14 /\ Counted(n)
    <3>1. Counted(n)'
      BY <1>0, <2>2, <2>7, CountedOnce
    <3> QED
      BY <1>1, <2>1, <2>4, <2>7, <3>1
  <2>8. CASE \/ Consumed = Before(n)
             \/ /\ Consumed \in Before(n) + 1 .. Before(n) + 13
                /\ Len(got) = Consumed - Before(n) /\ got[1].from = n
    <3> DEFINE b == Consumed - Before(n)
    <3>1. /\ b \in 0..13 /\ Consumed = Before(n) + b
          /\ b > 0 => Len(got) = b /\ got[1].from = n
      <4> DEFINE p == Before(n)
      <4>1. p \in Nat /\ Consumed \in Nat /\ (Consumed = p \/ Consumed \in p + 1 .. p + 13)
        BY <1>1, <2>4, <2>8
      <4> HIDE DEF p
      <4>2. Consumed - p \in 0..13 /\ Consumed = p + (Consumed - p)
        BY <4>1
      <4>3. Consumed - p > 0 => Consumed # p
        BY <4>1
      <4> QED
        BY <2>8, <4>2, <4>3 DEF p
    <3> HIDE DEF b
    <3>2. CASE Received
      <4>1. Consumed' = Consumed /\ UNCHANGED got
        BY <3>2 DEF Received
      <4> QED
        BY <1>1, <2>4, <2>8, <4>1
    <3>3. CASE Dropped
      <4>1. b \in 0..15
        BY <3>1
      <4>2. FrameOf(Consumed + 1) = n
        BY <1>0, <3>1, <4>1, NextByte
      <4>3. n \in lost'
        BY <3>3, <4>2 DEF Dropped
      <4> QED
        BY <4>3 DEF Sound
    <3>4. CASE Taken
      <4>1. /\ b < 13 => Len(got') = b + 1 /\ got'[1].from = n
            /\ b = 13 => Counted(n)'
        BY <1>0, <2>3, <3>1, <3>4, SoundTaken
      <4>2. Consumed' = Consumed + 1
        BY <3>4 DEF Taken
      <4>3. CASE b < 13
        <5>1. Consumed' \in Before(n) + 1 .. Before(n) + 13 /\ Consumed' - Before(n) = b + 1
          BY <2>4, <3>1, <4>2, <4>3
        <5> QED
          BY <4>1, <4>3, <5>1
      <4>4. CASE b = 13
        BY <2>4, <3>1, <4>1, <4>2, <4>4
      <4> QED
        BY <3>1, <4>3, <4>4
    <3>5. CASE NoneTaken
      <4>1. Consumed = 16 * Len(sent)
        BY <3>5 DEF NoneTaken
      <4> DEFINE l == Len(sent)
      <4>2. /\ l \in Nat /\ n \in Nat /\ b \in 0..13
            /\ n <= l /\ 16 * l = 16 * (n - 1) + b
        BY <1>1, <2>4, <3>1, <4>1 DEF Before
      <4> HIDE DEF l
      <4>3. FALSE
        BY ONLY <4>2
      <4> QED
        BY <4>3
    <3> QED
      BY <1>3, <3>2, <3>3, <3>4, <3>5
  <2> QED
    BY <1>1, <2>4, <2>5, <2>6, <2>7, <2>8
<1> QED
  BY <1>2, <1>3

LEMMA SoundInit == Init => SoundInv
<1> SUFFICES ASSUME Init PROVE SoundInv
  OBVIOUS
<1>1. sent = <<>> /\ got = <<>> /\ torn = {}
  BY DEF Init
<1>2. (\A n \in 1..Len(sent) : FALSE) /\ (\A j \in 1..Len(got) : FALSE)
  BY <1>1
<1> QED
  BY <1>1, <1>2, ReaderInit
  DEF SoundInv, StrayInv, HeldInv, TornInv, AwaitedInv

LEMMA SoundStep ==
  ASSUME NoKeyIsAB
  PROVE  SoundInv /\ [Next]_vars => SoundInv'
<1> SUFFICES ASSUME SoundInv, [Next]_vars PROVE SoundInv'
  OBVIOUS
<1>1. ReaderInv /\ StrayInv /\ HeldInv /\ TornInv /\ ReaderInv'
  BY ReaderStep DEF SoundInv
<1>2. CASE Next
  BY <1>1, <1>2, ReaderMoves, StrayStep, HeldStep, TornStep, AwaitedStep
  DEF SoundInv
<1>3. CASE UNCHANGED vars
  BY <1>1, <1>3 DEF vars, SoundInv, StrayInv, HeldInv, TornInv, AwaitedInv,
                    Sound, Undisturbed, EndsLikeHeader, Counted, Before,
                    Consumed, Total
<1> QED
  BY <1>2, <1>3

\* A frame that nothing disturbs is still to come, is what rw() holds, or is
\* counted.
THEOREM SoundInvariant ==
  ASSUME NoKeyIsAB
  PROVE  Spec => []SoundInv
<1>1. Init => SoundInv
  BY SoundInit
<1>2. SoundInv /\ [Next]_vars => SoundInv'
  BY SoundStep
<1> QED
  BY <1>1, <1>2, PTL DEF Spec

\* Once the line is quiet, every frame of state 1 that lost no byte has been
\* counted, unless the frame before it disturbed it: however often the buffer
\* overflows, rw() is back in step after one frame.
THEOREM NoFrameMissed ==
  ASSUME NoKeyIsAB
  PROVE  Spec => []OthersDecoded
<1>1. SoundInv => OthersDecoded
  <2> SUFFICES ASSUME SoundInv, out = FrameLen, rx = <<>>,
                      NEW n \in DOMAIN sent, Sound(n)
               PROVE  Counted(n)
    BY DEF OthersDecoded, Sound, Counted
  <2>1. LineInv /\ RxInv /\ AwaitedInv
    BY DEF SoundInv, ReaderInv
  <2>2. n \in 1..Len(sent) /\ Len(sent) \in Nat
    BY <2>1, Counts DEF LineInv
  <2>3. Consumed = 16 * Len(sent)
    <3>1. Len(rx) = 0
      OBVIOUS
    <3>2. Total = 16 * (Len(sent) - 1) + 16
      BY DEF Total, FrameLen
    <3>3. Consumed + Len(rx) = Total /\ Consumed \in Nat
      BY <2>1, Counts
    <3> QED
      BY <2>2, <3>1, <3>2, <3>3
  <2> DEFINE l == Len(sent)
  <2>4. l \in Nat /\ n \in 1..l /\ Consumed = 16 * l /\ Before(n) = 16 * (n - 1)
    BY <2>2, <2>3 DEF Before
  <2> HIDE DEF l
  <2>5. ~(Consumed <= Before(n)) /\ Consumed \notin Before(n) + 1 .. Before(n) + 13
    BY <2>4
  <2> QED
    BY <2>1, <2>2, <2>5 DEF AwaitedInv
<1> QED
  BY <1>1, SoundInvariant, PTL

-----------------------------------------------------------------------------
(* rw() reads from a line of reports                                       *)

\* The report that is completed is a frame as it was sent, or one of a frame
\* that was torn.
LEMMA CountsOrTorn ==
  ASSUME SoundInv, SoundInv', ReadLastValue
  PROVE  (\E n \in DOMAIN sent : Reports!Count(n)) \/ Reports!CountTorn
<1> DEFINE taken == Append(got, Byte)
           k == [s \in Slots |-> taken[FirstKey + s - 3].val]
           r == [from |-> got[1].from, keys |-> k]
<1>0. /\ HistoryInv /\ HistoryInv' /\ CountedInv' /\ LineInv /\ GotInv /\ RxInv
      /\ HeldInv
  BY DEF SoundInv, ReaderInv
<1>1. /\ Len(got) = 13 /\ decoded' = Append(decoded, r)
      /\ sent' = sent /\ torn' = torn
  BY HeaderIs DEF ReadLastValue, line
<1> HIDE DEF k
<1>2. r.from = got[1].from /\ r.keys = k
  OBVIOUS
<1>3. 1 \in 1..Len(got) /\ got # <<>>
  <2>1. 1 \in 1..13 /\ 13 # 0 /\ Len(<<>>) = 0
    OBVIOUS
  <2>2. 1 \in 1..Len(got) /\ Len(got) # 0
    BY <1>1, <2>1, Zenon
  <2> QED
    BY <2>1, <2>2, Zenon
<1>4. /\ Len(decoded) \in Nat /\ decoded \in Seq(Report)
      /\ DOMAIN decoded = 1..Len(decoded)
  BY <1>0, DecodedType DEF HistoryInv
<1>5. /\ Len(decoded') = Len(decoded) + 1
      /\ decoded'[Len(decoded) + 1] = r
      /\ \A i \in 1..Len(decoded) : decoded'[i] = decoded[i]
  BY <1>1, <1>4, AppendProperties
<1>6. Len(decoded) + 1 \in DOMAIN decoded'
  BY <1>0, <1>4, <1>5, DecodedType
<1>7. r.keys \in [Slots -> Usage]
  <2>1. decoded' \in Seq(Report)
    BY <1>0 DEF HistoryInv
  <2>2. decoded'[Len(decoded) + 1] \in Report
    BY <1>6, <2>1
  <2> QED
    BY <1>5, <2>2 DEF Report
<1>8. r.from > 0 /\ \A i \in DOMAIN decoded : decoded[i].from <= r.from
  <2>1. got[1].from > 0 /\ got[1].from \in Nat
    BY <1>0, <1>3, Held DEF HeldInv
  <2>2. got[1].from # 0
    BY <2>1
  <2> QED
    BY <1>0, <1>2, <1>3, <2>1, <2>2 DEF HeldInv
<1> HIDE DEF r
<1>9. CASE r.from \in torn
  <2>1. decoded'[Len(decoded')] = r
    BY <1>5
  <2>2. UNCHANGED <<sent, torn>>
    BY <1>1
  <2>3. Reports!CountTorn
    <3>1. r.keys \in [Reports!Slots -> Reports!Usage]
      BY <1>7 DEF Slots, Usage, Reports!Slots, Reports!Usage
    <3> QED
      BY <1>1, <1>5, <1>8, <1>9, <2>1, <2>2, <3>1 DEF Reports!CountTorn
  <2> QED
    BY <2>3
<1>10. CASE r.from \notin torn
  <2> DEFINE m == Len(decoded) + 1
  <2>1. m \in DOMAIN decoded' /\ decoded'[m] = r /\ decoded'[m].from \notin torn'
    BY <1>1, <1>5, <1>6, <1>10
  <2>2. r.keys = sent[r.from].keys /\ r.from \in 1..Len(sent)
        /\ \A j \in 1..(m - 1) : decoded'[j].from < r.from
    <3> HIDE DEF m
    <3> QED
      BY <1>0, <1>1, <2>1 DEF CountedInv, IsWhole
  <2>3. \A j \in DOMAIN decoded : decoded[j].from < r.from
    <3>1. m - 1 = Len(decoded)
      BY <1>4
    <3> QED
      BY <1>4, <1>5, <2>2, <3>1
  <2>4. r = [from |-> r.from, keys |-> sent[r.from].keys]
    BY <2>2 DEF r
  <2>5. r.from \in DOMAIN sent
    BY <1>0, <2>2, LenProperties DEF LineInv
  <2>6. Reports!Count(r.from)
    BY <1>1, <1>10, <2>3, <2>4 DEF Reports!Count
  <2> QED
    BY <2>5, <2>6
<1> QED
  BY <1>9, <1>10

\* A byte that pushes out another may tear the frames rw() is inside of.
LEMMA SendsOrTears ==
  ASSUME SoundInv, SendByte
  PROVE  \/ \E some \in SUBSET (0..Len(sent)) : Reports!Tear(some)
         \/ UNCHANGED <<sent, decoded, torn>>
<1>0. GotInv /\ HeldInv
  BY DEF SoundInv, ReaderInv
<1> DEFINE some == {got[i].from : i \in DOMAIN got}
<1>1. /\ UNCHANGED <<sent, decoded>>
      /\ torn' = torn \/ torn' = torn \cup some
  BY DEF SendByte
<1>2. got \in Seq(RxByte) /\ DOMAIN got = 1..Len(got)
  BY <1>0, LenProperties DEF GotInv
<1>3. some \subseteq 0..Len(sent)
  <2> SUFFICES ASSUME NEW i \in 1..Len(got) PROVE got[i].from \in 0..Len(sent)
    BY <1>2
  <2>1. got[i] \in RxByte
    BY <1>2, ElementOfSeq
  <2>2. got[i].from \in Nat /\ got[i].from <= Len(sent)
    BY <1>0, <2>1 DEF GotInv, RxByte
  <2>3. Len(sent) \in Nat
    BY LenProperties DEF SoundInv, ReaderInv, LineInv
  <2> QED
    BY <2>2, <2>3
<1>4. \A n \in some \ {0} : \A i \in DOMAIN decoded : decoded[i].from <= n
  BY <1>0, <1>2 DEF HeldInv
<1> HIDE DEF some
<1>5. torn' = torn \cup some => Reports!Tear(some)
  BY <1>1, <1>4 DEF Reports!Tear
<1> QED
  BY <1>1, <1>3, <1>5

LEMMA LineStep ==
  SoundInv /\ SoundInv' /\ [Next]_vars => [Reports!Next]_(Reports!lvars)
<1> SUFFICES ASSUME SoundInv, SoundInv', [Next]_vars
             PROVE  [Reports!Next]_(Reports!lvars)
  OBVIOUS
<1>1. CASE \E f \in Frames : StartFrame(f)
  BY <1>1 DEF StartFrame, Reports!Next, Reports!Send
<1>2. CASE SendByte
  BY <1>2, SendsOrTears DEF Reports!Next, Reports!lvars
<1>3. CASE FindStart \/ MatchHeader \/ ReadValue
  BY <1>3 DEF FindStart, MatchHeader, ReadValue, line, Reports!lvars
<1>4. CASE ReadLastValue
  BY <1>4, CountsOrTorn DEF Reports!Next
<1>5. CASE UNCHANGED vars
  BY <1>5 DEF vars, Reports!lvars
<1> QED
  BY <1>1, <1>2, <1>3, <1>4, <1>5 DEF Next

\* rw(), which knows nothing of reports but the bytes it compares, implements
\* a line that loses reports, keeps their order, and garbles none but those it
\* was inside of when the receive buffer overflowed.
THEOREM ReaderIsReportLine ==
  ASSUME NoKeyIsAB
  PROVE  Spec => ReportLineSpec
<1>1. Init => Reports!Init
  BY DEF Init, Reports!Init
<1> QED
  BY <1>1, LineStep, SoundInvariant, PTL DEF Spec, ReportLineSpec, Reports!Spec

=============================================================================
