------------------------ MODULE WebConnectionProofs ------------------------
(***************************************************************************)
(* The connection around a request: proofs about WebConnection for every   *)
(* size of the send buffer, of the reply and of the timers.                *)
(*                                                                         *)
(* The connection parses its request as module WebRequest says, so that    *)
(* what is proved there holds here.  The rest follows from what            *)
(* AsyncClient and AsyncBasicResponse keep about the bytes under way.      *)
(* From both: what goes out is the reply, whole and in order.              *)
(***************************************************************************)
EXTENDS WebConnection, WebRequestProofs

Byte == {"head", "content", "continue"} \X Nat

Client ==
  [open: BOOLEAN, closing: BOOLEAN, busy: BOOLEAN, unacked: 0..SizeT - 1,
   acked: Nat, rxTimeout: BOOLEAN, quiet: 0..RxTicks, waiting: 0..AckTicks,
   out: Seq(Byte), queued: 0..SndBuf]

Response ==
  [state: States, content: Seq(Byte), contentLength: Nat, sentLength: Nat,
   ackedLength: Nat, writtenLength: Nat]

\* What the client t counts as not acknowledged is what lwIP has; it is busy
\* exactly then, unless the timer has expired.
Owed(t) ==
  "noroute" \notin faults /\ t.open =>
    /\ t.unacked = t.queued
    /\ ~t.closing => (t.busy <=> t.queued > 0)

\* The two counters of the response r agree with its content.
Agree(r) ==
  r.state = "CONTENT" => r.contentLength - r.sentLength = Len(r.content)

\* A response is there from the end of the request on, as long as the
\* connection is open; from then on the peer may be silent.
PhaseInv ==
  /\ parseState # "END" => resp.state = "NULL"
  /\ parseState = "END" => ~tcp.rxTimeout
  /\ ~tcp.open => seg = <<>> /\ resp.state = "NULL"

ConnInv ==
  /\ tcp \in Client /\ resp \in Response
  /\ faults \in FaultSets /\ peer \in {"here", "gone"}
  /\ Owed(tcp) /\ Agree(resp) /\ PhaseInv /\ FinishedIsAcked

-----------------------------------------------------------------------------
(* The connection parses its request as WebRequest does                    *)

LEMMA ConnectionParses == [ConnectionNext]_vars => [Next]_requestVars
<1> SUFFICES ASSUME [ConnectionNext]_vars PROVE [Next]_requestVars
  OBVIOUS
<1>1. CASE Data
  BY <1>1 DEF Data, Next
<1>2. CASE OnData
  BY <1>2 DEF OnData, Read, Reject, HeadersRead, BodyRead, Next, Parse
<1>3. CASE AckPart
  BY <1>3 DEF AckPart
<1>4. CASE AckAll
  BY <1>4 DEF AckAll
<1>5. CASE Poll
  BY <1>5 DEF Poll
<1>6. CASE PeerCloses
  BY <1>6 DEF PeerCloses
<1>7. CASE PeerResets
  BY <1>7 DEF PeerResets
<1>8. CASE UNCHANGED vars
  BY <1>8 DEF vars
<1> QED BY <1>1, <1>2, <1>3, <1>4, <1>5, <1>6, <1>7, <1>8 DEF ConnectionNext

\* Every connection is a run of the parser of module WebRequest: replies,
\* acknowledgements, polls and the peer's leaving do not disturb it.
THEOREM ConnectionRefinesRequest == ConnectionSpec => Spec
<1>1. ConnectionInit => Init
  BY DEF ConnectionInit
<1> QED BY <1>1, ConnectionParses, PTL DEF ConnectionSpec, Spec

LEMMA ConnectionParseInv == ConnectionSpec => []ParseInv
BY ConnectionRefinesRequest, ParseInvariant, PTL

-----------------------------------------------------------------------------
(* What the functions of the connection return                             *)

LEMMA Sizes ==
  /\ SndBuf \in Nat /\ SndBuf > 0 /\ HeadLength \in Nat /\ HeadLength > 0
  /\ ContinueLength \in Nat /\ RxTicks \in Nat /\ RxTicks > 0
  /\ AckTicks \in Nat /\ AckTicks > 0
  /\ SizeT \in Nat /\ SizeT > SndBuf
BY WebConnectionAssumption

LEMMA BytesType ==
  ASSUME NEW kind \in {"head", "content", "continue"}, NEW n \in Nat
  PROVE  Bytes(kind, n) \in Seq(Byte) /\ Len(Bytes(kind, n)) = n
<1>1. \A i \in 1..n : <<kind, i>> \in Byte
  BY DEF Byte
<1> QED BY <1>1 DEF Bytes

LEMMA HowCases ==
  ASSUME faults \in FaultSets, NEW how \in Ends4Write
  PROVE  \/ how = "sent" \/ how = "nomem" 
         \/ how = "noroute" /\ "noroute" \in faults
BY WebConnectionAssumption DEF Ends4Write

\* The pieces a sequence of bytes is cut into.
LEMMA Cut ==
  ASSUME NEW s \in Seq(Byte), NEW n \in 0..Len(s)
  PROVE  /\ SubSeq(s, 1, n) \in Seq(Byte) /\ Len(SubSeq(s, 1, n)) = n
         /\ SubSeq(s, n + 1, Len(s)) \in Seq(Byte)
         /\ Len(SubSeq(s, n + 1, Len(s))) = Len(s) - n
<1>1. Len(s) \in Nat /\ n \in Int /\ n + 1 \in Int /\ 1 \in Int /\ Len(s) \in Int
  BY LenProperties
<1>2. \A i \in 1..n : s[i] \in Byte
  BY <1>1, ElementOfSeq
<1>3. \A i \in n + 1..Len(s) : s[i] \in Byte
  BY <1>1, ElementOfSeq
<1>4. /\ SubSeq(s, 1, n) \in Seq(Byte)
      /\ Len(SubSeq(s, 1, n)) = IF 1 <= n THEN n - 1 + 1 ELSE 0
  BY <1>1, <1>2, SubSeqProperties
<1>5. /\ SubSeq(s, n + 1, Len(s)) \in Seq(Byte)
      /\ Len(SubSeq(s, n + 1, Len(s)))
           = IF n + 1 <= Len(s) THEN Len(s) - (n + 1) + 1 ELSE 0
  BY <1>1, <1>3, SubSeqProperties
<1>6. (IF 1 <= n THEN n - 1 + 1 ELSE 0) = n
  OBVIOUS
<1>7. (IF n + 1 <= Len(s) THEN Len(s) - (n + 1) + 1 ELSE 0) = Len(s) - n
  BY <1>1
<1> QED BY <1>4, <1>5, <1>6, <1>7

\* The counters of a connection stay within size_t.
LEMMA Remains ==
  ASSUME NEW a \in Int, NEW m \in Nat \ {0}
  PROVE  a % m \in 0..m - 1
OBVIOUS

\* AsyncClient::write() never overfills the buffer, and counts what it sent.
LEMMA WriteKeeps ==
  ASSUME NEW t \in Client, Owed(t), faults \in FaultSets,
         NEW bytes \in Seq(Byte), NEW how \in Ends4Write
  PROVE  /\ Write(t, bytes, how).tcp \in Client
         /\ Owed(Write(t, bytes, how).tcp)
         /\ Write(t, bytes, how).n \in 0..Len(bytes)
         /\ Write(t, bytes, how).tcp.open = t.open
         /\ Write(t, bytes, how).tcp.closing = t.closing
         /\ Write(t, bytes, how).tcp.rxTimeout = t.rxTimeout
<1> DEFINE n == Lesser(Space(t), Len(bytes))
<1> DEFINE queued == [t EXCEPT !.out = @ \o SubSeq(bytes, 1, n), !.queued = @ + n]
<1> DEFINE sent == [queued EXCEPT !.busy = TRUE, !.waiting = 0,
                                  !.unacked = (@ + n) % SizeT]
<1> DEFINE w == Write(t, bytes, how)
<1>1. Len(bytes) \in Nat /\ t.queued \in 0..SndBuf /\ t.unacked \in 0..SizeT - 1
  BY LenProperties DEF Client
<1>2. n \in 0..Len(bytes) /\ n <= SndBuf - t.queued /\ n \in Nat
  BY <1>1, Sizes DEF Lesser, Space
<1>3. t.queued + n \in 0..SndBuf
  BY <1>1, <1>2, Sizes
<1>4. t.out \o SubSeq(bytes, 1, n) \in Seq(Byte)
  <2>1. SubSeq(bytes, 1, n) \in Seq(Byte)
    BY <1>2, Cut
  <2> QED BY <2>1, ConcatProperties DEF Client
<1>5. (t.unacked + n) % SizeT \in 0..SizeT - 1
  <2> DEFINE u == t.unacked
  <2>a. u \in 0..SizeT - 1 /\ n \in Nat
    BY <1>1, <1>2
  <2> HIDE DEF n, u
  <2>1. u + n \in Int
    BY <2>a, Sizes
  <2>2. (u + n) % SizeT \in 0..SizeT - 1
    BY <2>1, Remains, Sizes
  <2> QED BY <2>2 DEF u
<1>a. 0 \in 0..AckTicks
  BY Sizes
<1>6. \/ n = 0 /\ w = [tcp |-> t, n |-> 0]
      \/ w = [tcp |-> t, n |-> 0]
      \/ n # 0 /\ how = "noroute" /\ w = [tcp |-> queued, n |-> 0]
      \/ n # 0 /\ how = "sent" /\ w = [tcp |-> sent, n |-> n]
  <2>1. CASE n = 0 \/ how = "nomem"
    BY <2>1 DEF Write
  <2>2. CASE n # 0 /\ how = "noroute"
    BY <2>2 DEF Write
  <2>3. CASE n # 0 /\ how = "sent"
    BY <2>3 DEF Write, Sent
  <2> QED BY <2>1, <2>2, <2>3, HowCases
<1> HIDE DEF n, w
<1>7. CASE w = [tcp |-> t, n |-> 0]
  BY <1>1, <1>7 DEF w
<1>8. CASE n # 0 /\ how = "noroute" /\ w = [tcp |-> queued, n |-> 0]
  <2>1. queued \in Client
    BY <1>3, <1>4 DEF Client
  <2>2. queued.open = t.open /\ queued.closing = t.closing /\ queued.rxTimeout = t.rxTimeout
    BY DEF Client
  <2>3. "noroute" \in faults
    BY <1>8, HowCases
  <2> HIDE DEF queued
  <2>4. Owed(queued)
    BY <2>3 DEF Owed
  <2> QED BY <1>1, <1>8, <2>1, <2>2, <2>4 DEF w
<1>9. CASE n # 0 /\ how = "sent" /\ w = [tcp |-> sent, n |-> n]
  <2>1. queued \in Client
    BY <1>3, <1>4 DEF Client
  <2>2. /\ queued.unacked = t.unacked /\ queued.queued = t.queued + n
        /\ queued.open = t.open /\ queued.closing = t.closing
        /\ queued.rxTimeout = t.rxTimeout
    BY DEF Client
  <2> HIDE DEF queued
  <2>3. sent \in Client
    BY <1>5, <1>a, <2>1, <2>2 DEF Client
  <2>4. /\ sent.open = t.open /\ sent.closing = t.closing
        /\ sent.rxTimeout = t.rxTimeout /\ sent.busy = TRUE
        /\ sent.unacked = (t.unacked + n) % SizeT /\ sent.queued = t.queued + n
    BY <2>1, <2>2 DEF Client
  <2> HIDE DEF sent
  <2>5. Owed(sent)
    <3> SUFFICES ASSUME "noroute" \notin faults, t.open
                 PROVE  sent.unacked = sent.queued /\ sent.queued > 0
      BY <2>4 DEF Owed
    <3>1. t.unacked = t.queued
      BY DEF Owed
    <3>2. (t.queued + n) % SizeT = t.queued + n
      BY <1>3, Sizes
    <3>3. t.queued + n > 0
      BY <1>1, <1>2, <1>9
    <3> QED BY <2>4, <3>1, <3>2, <3>3
  <2> QED BY <1>2, <1>9, <2>3, <2>4, <2>5 DEF w
<1> QED BY <1>6, <1>7, <1>8, <1>9

\* _respond() leaves its two counters and the content in agreement.
LEMMA RespondKeeps ==
  ASSUME NEW t \in Client, Owed(t), faults \in FaultSets,
         NEW length \in ContentLengths, NEW how \in Ends4Write
  PROVE  /\ Respond(t, length, how).tcp \in Client
         /\ Owed(Respond(t, length, how).tcp)
         /\ Respond(t, length, how).tcp.open = t.open
         /\ Respond(t, length, how).tcp.closing = t.closing
         /\ Respond(t, length, how).tcp.rxTimeout = t.rxTimeout
         /\ Respond(t, length, how).resp \in Response
         /\ Agree(Respond(t, length, how).resp)
         /\ Respond(t, length, how).resp.state \in {"WAIT_ACK", "CONTENT"}
<1> DEFINE whole == Reply(length)
<1> DEFINE fits == Space(t) >= Len(whole)
<1> DEFINE n == IF fits THEN Len(whole)
                ELSE IF Space(t) = HeadLength THEN 0 ELSE Space(t)
<1> DEFINE w == Write(t, SubSeq(whole, 1, n), how)
<1> DEFINE r == [state |-> IF fits THEN "WAIT_ACK" ELSE "CONTENT",
                 content |-> IF fits THEN Bytes("content", length)
                             ELSE SubSeq(whole, n + 1, Len(whole)),
                 contentLength |-> IF fits THEN length ELSE length + LeftOfHead(n),
                 sentLength |-> IF fits THEN 0 ELSE PastHead(n),
                 ackedLength |-> 0,
                 writtenLength |-> w.n]
<1>1. Respond(t, length, how) = [tcp |-> w.tcp, resp |-> r]
  BY DEF Respond
<1>2. /\ length \in Nat /\ t.queued \in 0..SndBuf
      /\ HeadLength \in Nat /\ SndBuf \in Nat
  BY WebConnectionAssumption, Sizes DEF Client
<1>3. whole \in Seq(Byte) /\ Len(whole) = HeadLength + length
  <2>1. /\ Bytes("head", HeadLength) \in Seq(Byte) /\ Len(Bytes("head", HeadLength)) = HeadLength
        /\ Bytes("content", length) \in Seq(Byte) /\ Len(Bytes("content", length)) = length
    BY <1>2, BytesType
  <2> HIDE DEF whole
  <2> QED BY <2>1, ConcatProperties DEF whole, Reply
<1>4. Space(t) \in Nat
  BY <1>2 DEF Space
<1>5. n \in 0..Len(whole) /\ (~fits => n < Len(whole))
  <2> HIDE DEF whole
  <2> QED BY <1>2, <1>3, <1>4
<1>6. /\ SubSeq(whole, 1, n) \in Seq(Byte)
      /\ SubSeq(whole, n + 1, Len(whole)) \in Seq(Byte)
      /\ Len(SubSeq(whole, n + 1, Len(whole))) = HeadLength + length - n
  <2> HIDE DEF whole, n, fits
  <2>1. n \in 0..Len(whole)
    BY <1>5
  <2>2. /\ SubSeq(whole, 1, n) \in Seq(Byte)
        /\ SubSeq(whole, n + 1, Len(whole)) \in Seq(Byte)
        /\ Len(SubSeq(whole, n + 1, Len(whole))) = Len(whole) - n
    BY <1>3, <2>1, Cut
  <2>3. Len(whole) - n = HeadLength + length - n
    BY <1>2, <1>3, <2>1
  <2> QED BY <2>2, <2>3
<1>7. /\ w.tcp \in Client /\ Owed(w.tcp) /\ w.n \in Nat
      /\ w.tcp.open = t.open /\ w.tcp.closing = t.closing
      /\ w.tcp.rxTimeout = t.rxTimeout
  <2>1. w.n \in 0..Len(SubSeq(whole, 1, n))
    BY <1>6, WriteKeeps
  <2>2. w.n \in Nat
    <3> HIDE DEF w, whole, n
    <3>1. Len(SubSeq(whole, 1, n)) \in Nat
      BY <1>6, LenProperties
    <3> QED BY <2>1, <3>1
  <2> DEFINE piece == SubSeq(whole, 1, n)
  <2>3. piece \in Seq(Byte) /\ w = Write(t, piece, how)
    BY <1>6
  <2> HIDE DEF piece, w
  <2> QED BY <2>2, <2>3, WriteKeeps
<1>8. Bytes("content", length) \in Seq(Byte)
  BY <1>2, BytesType
<1> HIDE DEF whole, w
<1>9. ~fits => /\ length + LeftOfHead(n) \in Nat /\ PastHead(n) \in Nat
               /\ (length + LeftOfHead(n)) - PastHead(n) = HeadLength + length - n
  <2> HIDE DEF n, fits
  <2>1. ~fits => n \in Nat /\ n < HeadLength + length
    BY <1>3, <1>5
  <2> QED BY <1>2, <2>1 DEF LeftOfHead, PastHead
<1> HIDE DEF n, fits
<1>10. r \in Response
  <2>1. /\ (IF fits THEN "WAIT_ACK" ELSE "CONTENT") \in States
        /\ (IF fits THEN Bytes("content", length)
            ELSE SubSeq(whole, n + 1, Len(whole))) \in Seq(Byte)
        /\ (IF fits THEN length ELSE length + LeftOfHead(n)) \in Nat
        /\ (IF fits THEN 0 ELSE PastHead(n)) \in Nat
    BY <1>2, <1>6, <1>8, <1>9 DEF States
  <2> QED BY <1>7, <2>1 DEF Response
<1>11. Agree(r)
  <2>1. CASE fits
    BY <2>1 DEF Agree
  <2>2. CASE ~fits
    <3>1. /\ r.contentLength = length + LeftOfHead(n) /\ r.sentLength = PastHead(n)
          /\ r.content = SubSeq(whole, n + 1, Len(whole))
      BY <2>2
    <3>2. (length + LeftOfHead(n)) - PastHead(n) = HeadLength + length - n
      BY <1>9, <2>2
    <3>3. Len(r.content) = HeadLength + length - n
      BY <1>6, <3>1
    <3> HIDE DEF r
    <3>4. r.contentLength - r.sentLength = (length + LeftOfHead(n)) - PastHead(n)
      BY <3>1, Zenon
    <3>5. r.contentLength - r.sentLength = Len(r.content)
      BY <3>2, <3>3, <3>4, Zenon
    <3> QED BY <3>5 DEF Agree
  <2> QED BY <2>1, <2>2
<1>12. r.state \in {"WAIT_ACK", "CONTENT"}
  OBVIOUS
<1> HIDE DEF r
<1> QED BY <1>1, <1>7, <1>10, <1>11, <1>12

\* What is left of a reply when n more of its bytes are out.
LEMMA LeftOver ==
  ASSUME NEW a \in Nat, NEW b \in Nat, NEW n \in Nat, NEW l \in Nat, a - b = l
  PROVE  a - (b + n) = l - n
OBVIOUS

\* _ack() keeps them in agreement, and ends a reply without writing.
LEMMA AckKeeps ==
  ASSUME NEW t \in Client, Owed(t), faults \in FaultSets,
         NEW r \in Response, Agree(r), Alive(r),
         NEW length \in Nat, NEW how \in Ends4Write
  PROVE  /\ Ack(t, r, length, how).tcp \in Client
         /\ Owed(Ack(t, r, length, how).tcp)
         /\ Ack(t, r, length, how).tcp.open = t.open
         /\ Ack(t, r, length, how).tcp.closing = t.closing
         /\ Ack(t, r, length, how).tcp.rxTimeout = t.rxTimeout
         /\ Ack(t, r, length, how).resp \in Response
         /\ Agree(Ack(t, r, length, how).resp)
         /\ Ack(t, r, length, how).resp.state = "END" =>
              Ack(t, r, length, how).tcp = t
<1> DEFINE acked == r.ackedLength + length
<1> DEFINE available == r.contentLength - r.sentLength
<1> DEFINE n == IF Space(t) > available THEN available ELSE Space(t)
<1> DEFINE w == Write(t, SubSeq(r.content, 1, n), how)
<1>1. /\ acked \in Nat /\ Space(t) \in Nat /\ r.content \in Seq(Byte)
      /\ r.sentLength \in Nat /\ r.contentLength \in Nat /\ r.writtenLength \in Nat
  <2>1. /\ r.ackedLength \in Nat /\ r.content \in Seq(Byte)
        /\ r.sentLength \in Nat /\ r.contentLength \in Nat /\ r.writtenLength \in Nat
    BY DEF Response
  <2>2. t.queued \in 0..SndBuf
    BY DEF Client
  <2>3. Space(t) \in Nat
    BY <2>2, Sizes DEF Space
  <2> QED BY <2>1, <2>3
<1>2. CASE r.state = "CONTENT"
  <2> DEFINE q == [r EXCEPT
               !.state = IF Space(t) > available THEN "WAIT_ACK" ELSE "CONTENT",
               !.content = IF Space(t) > available THEN <<>>
                           ELSE SubSeq(@, n + 1, Len(@)),
               !.sentLength = IF Space(t) > available THEN @ ELSE @ + n,
               !.ackedLength = acked,
               !.writtenLength = @ + w.n]
  <2>1. Ack(t, r, length, how) = [tcp |-> w.tcp, resp |-> q]
    BY <1>2 DEF Ack
  <2>2. available = Len(r.content) /\ available \in Nat
    BY <1>1, <1>2, LenProperties DEF Agree
  <2>3. n \in 0..Len(r.content)
    BY <1>1, <2>2
  <2>4. /\ SubSeq(r.content, 1, n) \in Seq(Byte)
        /\ SubSeq(r.content, n + 1, Len(r.content)) \in Seq(Byte)
        /\ Len(SubSeq(r.content, n + 1, Len(r.content))) = Len(r.content) - n
    <3> HIDE DEF n
    <3> QED BY <1>1, <2>3, Cut
  <2>5. /\ w.tcp \in Client /\ Owed(w.tcp) /\ w.n \in Nat
        /\ w.tcp.open = t.open /\ w.tcp.closing = t.closing
        /\ w.tcp.rxTimeout = t.rxTimeout
    <3>1. w.n \in 0..Len(SubSeq(r.content, 1, n))
      BY <2>4, WriteKeeps
    <3>2. w.n \in Nat
      <4> HIDE DEF w, n
      <4>1. Len(SubSeq(r.content, 1, n)) \in Nat
        BY <2>4, LenProperties
      <4> QED BY <3>1, <4>1
    <3>3. /\ w.tcp \in Client /\ Owed(w.tcp)
          /\ w.tcp.open = t.open /\ w.tcp.closing = t.closing
          /\ w.tcp.rxTimeout = t.rxTimeout
      <4> DEFINE b == SubSeq(r.content, 1, n)
      <4>1. b \in Seq(Byte) /\ w = Write(t, b, how)
        BY <2>4
      <4> HIDE DEF b, n, w
      <4> QED BY <4>1, WriteKeeps
    <3> QED BY <3>2, <3>3
  <2> HIDE DEF w
  <2>6. n \in Nat /\ r.sentLength + n \in Nat /\ r.writtenLength + w.n \in Nat
    <3>1. n \in Nat
      <4> HIDE DEF q, acked, available
      <4> QED BY <1>1, <2>2
    <3>2. r.sentLength \in Nat /\ r.writtenLength \in Nat /\ w.n \in Nat
      BY <1>1, <2>5
    <3> HIDE DEF n, q, acked, available
    <3> QED BY <3>1, <3>2
  <2>7. CASE Space(t) > available
    <3> DEFINE p == [r EXCEPT !.state = "WAIT_ACK", !.content = <<>>,
                              !.ackedLength = acked,
                              !.writtenLength = @ + w.n]
    <3>1. q = p
      BY <2>7 DEF Response
    <3>a. <<>> \in Seq(Byte) /\ acked \in Nat /\ r.writtenLength + w.n \in Nat
      BY <1>1, <2>6
    <3> HIDE DEF q, acked, n
    <3>2. p \in Response /\ p.state = "WAIT_ACK"
      BY <3>a DEF Response, States
    <3> HIDE DEF p, q
    <3> QED BY <2>1, <2>5, <3>1, <3>2 DEF Agree
  <2>8. CASE ~(Space(t) > available)
    <3> DEFINE c == SubSeq(r.content, n + 1, Len(r.content))
    <3> DEFINE p == [r EXCEPT !.state = "CONTENT", !.content = c,
                              !.sentLength = @ + n,
                              !.ackedLength = acked,
                              !.writtenLength = @ + w.n]
    <3>1. q = p
      BY <2>8 DEF Response
    <3>2. c \in Seq(Byte) /\ Len(c) = Len(r.content) - n
      BY <2>4
    <3> HIDE DEF c, q, n
    <3>3. /\ p \in Response /\ p.state = "CONTENT" /\ p.content = c
          /\ p.contentLength = r.contentLength /\ p.sentLength = r.sentLength + n
      BY <1>1, <2>6, <3>2 DEF Response, States
    <3> HIDE DEF p
    <3>4. Agree(p)
      <4>1. r.contentLength - r.sentLength = Len(r.content)
        BY <1>2 DEF Agree
      <4>2. /\ p.state = "CONTENT" /\ Len(p.content) = Len(c)
            /\ p.contentLength = r.contentLength
            /\ p.sentLength = r.sentLength + n
        BY <3>3, Zenon
      <4>3. r.contentLength - (r.sentLength + n) = Len(c)
        <5>1. Len(r.content) \in Nat /\ Len(c) = Len(r.content) - n
          BY <1>1, <3>2, LenProperties
        <5>2. r.contentLength \in Nat /\ r.sentLength \in Nat /\ n \in Nat
          BY <1>1, <2>6
        <5>3. r.contentLength - (r.sentLength + n) = Len(r.content) - n
          <6> DEFINE a == r.contentLength
          <6> DEFINE b == r.sentLength
          <6> DEFINE l == Len(r.content)
          <6>1. a \in Nat /\ b \in Nat /\ n \in Nat /\ l \in Nat /\ a - b = l
            BY <4>1, <5>1, <5>2
          <6> HIDE DEF a, b, l
          <6>2. a - (b + n) = l - n
            BY <6>1, LeftOver
          <6> QED BY <6>2 DEF a, b, l
        <5> QED BY <5>1, <5>3, Zenon
      <4>4. p.contentLength - p.sentLength = Len(p.content)
        BY <4>2, <4>3, Zenon
      <4> QED BY <4>4, Zenon DEF Agree
    <3> QED BY <2>1, <2>5, <3>1, <3>3, <3>4
  <2> QED BY <2>7, <2>8
<1>3. CASE r.state = "WAIT_ACK"
  <2> DEFINE q == [r EXCEPT
               !.state = IF acked >= r.writtenLength THEN "END" ELSE @,
               !.ackedLength = acked]
  <2>1. Ack(t, r, length, how) = [tcp |-> t, resp |-> q]
    BY <1>3 DEF Ack
  <2>2. q \in Response /\ q.state \in {"END", "WAIT_ACK"}
    BY <1>1, <1>3 DEF Response, States
  <2>3. Agree(q)
    BY <2>2 DEF Agree
  <2> HIDE DEF q
  <2> QED BY <2>1, <2>2, <2>3
<1> QED BY <1>2, <1>3 DEF Alive

LEMMA NoResponseType == NoResponse \in Response /\ NoResponse.state = "NULL"
BY DEF NoResponse, Response, States

\* The handler's reply starts, and the peer may be silent.
LEMMA SendKeeps ==
  ASSUME NEW t \in Client, Owed(t), faults \in FaultSets, Send(t)
  PROVE  /\ tcp' \in Client /\ Owed(tcp') /\ tcp'.open = t.open /\ ~tcp'.rxTimeout
         /\ tcp'.closing = t.closing
         /\ resp' \in Response /\ Agree(resp')
         /\ resp'.state \in {"WAIT_ACK", "CONTENT"}
<1>1. PICK length \in ContentLengths, how \in Ends4Write :
        /\ tcp' = Respond(NotTimed(t), length, how).tcp
        /\ resp' = Respond(NotTimed(t), length, how).resp
  BY DEF Send
<1> DEFINE u == NotTimed(t)
<1>2. u \in Client /\ u.open = t.open /\ ~u.rxTimeout /\ u.closing = t.closing
  BY DEF NotTimed, Client
<1>3. Owed(u)
  BY DEF NotTimed, Client, Owed
<1> HIDE DEF u
<1> QED BY <1>1, <1>2, <1>3, RespondKeeps DEF u

\* If the handler was called, its reply starts; else the client is t.
LEMMA SendIfCalledKeeps ==
  ASSUME resp \in Response, Agree(resp), resp.state = "NULL",
         NEW t \in Client, Owed(t), faults \in FaultSets, SendIfCalled(t)
  PROVE  /\ tcp' \in Client /\ Owed(tcp') /\ tcp'.open = t.open
         /\ tcp'.closing = t.closing
         /\ resp' \in Response /\ Agree(resp') /\ resp'.state # "END"
         /\ calls' # calls => ~tcp'.rxTimeout
         /\ calls' = calls => resp' = resp
<1>1. CASE calls' # calls
  <2>1. Send(t)
    BY <1>1 DEF SendIfCalled
  <2> QED BY <1>1, <2>1, SendKeeps
<1>2. CASE calls' = calls
  BY <1>2 DEF SendIfCalled
<1> QED BY <1>1, <1>2

-----------------------------------------------------------------------------
(* What the functions of the connection give to lwIP                       *)

\* Since the client t, lwIP was given bytes and the timer started again, or
\* it was given none and the timer was left alone.
GivenOrNot(t, u) ==
  \/ u.out = t.out /\ u.queued <= t.queued /\ u.waiting = t.waiting
  \/ Len(u.out) > Len(t.out) /\ u.waiting = 0

LEMMA GivenTwice ==
  ASSUME NEW t \in Client, NEW u \in Client, NEW v \in Client,
         GivenOrNot(t, u), GivenOrNot(u, v)
  PROVE  GivenOrNot(t, v)
<1>1. /\ t.queued \in 0..SndBuf /\ u.queued \in 0..SndBuf /\ v.queued \in 0..SndBuf
      /\ Len(t.out) \in Nat /\ Len(u.out) \in Nat /\ Len(v.out) \in Nat
  BY LenProperties DEF Client
<1> QED BY <1>1, Sizes DEF GivenOrNot

LEMMA WriteGives ==
  ASSUME NEW t \in Client, faults \in FaultSets, "noroute" \notin faults,
         NEW bytes \in Seq(Byte), NEW how \in Ends4Write
  PROVE  GivenOrNot(t, Write(t, bytes, how).tcp)
<1> DEFINE n == Lesser(Space(t), Len(bytes))
<1> DEFINE queued == [t EXCEPT !.out = @ \o SubSeq(bytes, 1, n), !.queued = @ + n]
<1> DEFINE w == Write(t, bytes, how)
<1>1. Len(bytes) \in Nat /\ t.queued \in 0..SndBuf /\ t.out \in Seq(Byte)
  BY LenProperties DEF Client
<1>2. n \in 0..Len(bytes)
  BY <1>1, Sizes DEF Lesser, Space
<1>3. \/ w = [tcp |-> t, n |-> 0]
      \/ n # 0 /\ w = [tcp |-> Sent(queued, n), n |-> n]
  <2>1. how = "sent" \/ how = "nomem"
    BY HowCases
  <2> QED BY <2>1 DEF Write
<1>4. CASE w = [tcp |-> t, n |-> 0]
  <2> HIDE DEF w
  <2> QED BY <1>1, <1>4, Sizes DEF w, GivenOrNot
<1>5. CASE n # 0 /\ w = [tcp |-> Sent(queued, n), n |-> n]
  <2>1. SubSeq(bytes, 1, n) \in Seq(Byte) /\ Len(SubSeq(bytes, 1, n)) = n
    BY <1>2, Cut
  <2>2. Len(t.out \o SubSeq(bytes, 1, n)) = Len(t.out) + n
    <3> HIDE DEF n
    <3> QED BY <1>1, <2>1, ConcatProperties
  <2>3. /\ Sent(queued, n).out = t.out \o SubSeq(bytes, 1, n)
        /\ Sent(queued, n).waiting = 0
    BY DEF Sent, Client
  <2>4. Len(t.out) + n > Len(t.out)
    <3> HIDE DEF n
    <3> QED BY <1>1, <1>2, <1>5, LenProperties
  <2> DEFINE s == Sent(queued, n)
  <2> HIDE DEF w, n, queued, s
  <2>5. w.tcp = s
    BY <1>5 DEF s
  <2> QED BY <2>2, <2>3, <2>4, <2>5 DEF s, w, GivenOrNot
<1> QED BY <1>3, <1>4, <1>5

LEMMA RespondGives ==
  ASSUME NEW t \in Client, faults \in FaultSets, "noroute" \notin faults,
         NEW length \in ContentLengths, NEW how \in Ends4Write
  PROVE  GivenOrNot(t, Respond(t, length, how).tcp)
<1> DEFINE whole == Reply(length)
<1> DEFINE n == IF Space(t) >= Len(whole) THEN Len(whole)
                ELSE IF Space(t) = HeadLength THEN 0 ELSE Space(t)
<1> DEFINE piece == SubSeq(whole, 1, n)
<1>1. Respond(t, length, how).tcp = Write(t, piece, how).tcp
  BY DEF Respond
<1>2. length \in Nat /\ HeadLength \in Nat /\ Space(t) \in Nat
  <2>1. t.queued \in 0..SndBuf
    BY DEF Client
  <2> QED BY <2>1, WebConnectionAssumption, Sizes DEF Space
<1>3. whole \in Seq(Byte)
  <2>1. Bytes("head", HeadLength) \in Seq(Byte) /\ Bytes("content", length) \in Seq(Byte)
    BY <1>2, BytesType
  <2> QED BY <2>1, ConcatProperties DEF Reply
<1>4. n \in 0..Len(whole)
  <2> HIDE DEF whole
  <2> QED BY <1>2, <1>3, LenProperties
<1>5. piece \in Seq(Byte)
  <2> HIDE DEF whole, n
  <2> QED BY <1>3, <1>4, Cut
<1> HIDE DEF piece
<1> QED BY <1>1, <1>5, WriteGives

LEMMA AckGives ==
  ASSUME NEW t \in Client, faults \in FaultSets, "noroute" \notin faults,
         NEW r \in Response, Agree(r), Alive(r),
         NEW length \in Nat, NEW how \in Ends4Write
  PROVE  GivenOrNot(t, Ack(t, r, length, how).tcp)
<1> DEFINE available == r.contentLength - r.sentLength
<1> DEFINE n == IF Space(t) > available THEN available ELSE Space(t)
<1> DEFINE piece == SubSeq(r.content, 1, n)
<1>1. /\ r.content \in Seq(Byte) /\ r.contentLength \in Nat /\ r.sentLength \in Nat
      /\ t.queued \in 0..SndBuf
  BY DEF Response, Client
<1>2. CASE r.state = "CONTENT"
  <2>1. Ack(t, r, length, how).tcp = Write(t, piece, how).tcp
    BY <1>2 DEF Ack
  <2>2. available = Len(r.content) /\ Space(t) \in Nat /\ Len(r.content) \in Nat
    BY <1>1, <1>2, Sizes, LenProperties DEF Agree, Space
  <2>3. n \in 0..Len(r.content)
    <3> HIDE DEF available
    <3> QED BY <2>2
  <2>4. piece \in Seq(Byte)
    <3> HIDE DEF n
    <3> QED BY <1>1, <2>3, Cut
  <2> HIDE DEF piece
  <2> QED BY <2>1, <2>4, WriteGives
<1>3. CASE r.state = "WAIT_ACK"
  <2>1. Ack(t, r, length, how).tcp = t
    BY <1>3 DEF Ack
  <2> QED BY <1>1, <2>1, Sizes DEF GivenOrNot
<1> QED BY <1>2, <1>3 DEF Alive

\* If the handler was called, it starts from the client t.
LEMMA SendGives ==
  ASSUME NEW t \in Client, faults \in FaultSets, "noroute" \notin faults,
         SendIfCalled(t)
  PROVE  GivenOrNot(t, tcp')
<1>1. CASE calls' # calls
  <2>1. PICK length \in ContentLengths, how \in Ends4Write :
          tcp' = Respond(NotTimed(t), length, how).tcp
    BY <1>1 DEF SendIfCalled, Send
  <2> DEFINE u == NotTimed(t)
  <2>2. u \in Client /\ u.out = t.out /\ u.queued = t.queued /\ u.waiting = t.waiting
    BY DEF NotTimed, Client
  <2> HIDE DEF u
  <2>3. GivenOrNot(u, tcp')
    BY <2>1, <2>2, RespondGives DEF u
  <2> QED BY <2>2, <2>3 DEF GivenOrNot
<1>2. CASE calls' = calls
  <2>1. tcp' = t /\ t.queued \in 0..SndBuf
    BY <1>2 DEF SendIfCalled, Client
  <2> QED BY <2>1, Sizes DEF GivenOrNot
<1> QED BY <1>1, <1>2

-----------------------------------------------------------------------------
(* Every step keeps the invariant                                          *)

LEMMA InitConn == ConnectionInit => ConnInv
<1> SUFFICES ASSUME ConnectionInit PROVE ConnInv
  OBVIOUS
<1>1. tcp \in Client
  <2>1. 0 \in 0..SizeT - 1 /\ 0 \in 0..RxTicks /\ 0 \in 0..AckTicks /\ 0 \in 0..SndBuf
    BY Sizes
  <2>2. <<>> \in Seq(Byte)
    OBVIOUS
  <2> QED BY <2>1, <2>2 DEF ConnectionInit, Client
<1>2. resp \in Response /\ resp.state = "NULL"
  BY NoResponseType DEF ConnectionInit
<1>3. Owed(tcp) /\ tcp.open /\ parseState = "START"
  <2>1. /\ tcp.open = TRUE /\ tcp.busy = FALSE /\ tcp.unacked = 0 /\ tcp.queued = 0
        /\ parseState = "START"
    BY DEF ConnectionInit, Init
  <2> QED BY <2>1 DEF Owed
<1>4. faults \in FaultSets /\ peer \in {"here", "gone"}
  BY DEF ConnectionInit
<1> QED
  BY <1>1, <1>2, <1>3, <1>4
  DEF ConnInv, Agree, PhaseInv, FinishedIsAcked

\* A step that leaves the connection open.
LEMMA StillOpen ==
  ASSUME ConnInv, faults' = faults, peer' = peer,
         tcp' \in Client, Owed(tcp'), tcp'.open,
         resp' \in Response, Agree(resp'),
         parseState' # "END" => resp'.state = "NULL",
         parseState' = "END" => ~tcp'.rxTimeout,
         FinishedIsAcked'
  PROVE  ConnInv'
<1>1. Owed(tcp)' /\ Agree(resp)'
  BY DEF Owed, Agree
<1>2. PhaseInv'
  BY DEF PhaseInv
<1> QED BY <1>1, <1>2 DEF ConnInv

\* A step that closes it.
LEMMA NowClosed ==
  ASSUME ConnInv, faults' = faults, peer' \in {"here", "gone"}, seg' = <<>>,
         tcp' \in Client, ~tcp'.open, ~tcp'.rxTimeout \/ parseState' # "END",
         resp' = NoResponse
  PROVE  ConnInv'
<1>1. Owed(tcp)'
  BY DEF Owed
<1>2. resp' \in Response /\ resp'.state = "NULL"
  BY NoResponseType
<1>3. Agree(resp)' /\ FinishedIsAcked'
  BY <1>2 DEF Agree, FinishedIsAcked
<1>4. PhaseInv'
  BY <1>2 DEF PhaseInv
<1> QED BY <1>1, <1>2, <1>3, <1>4 DEF ConnInv

LEMMA DataStep ==
  ASSUME ConnInv, Data
  PROVE  ConnInv'
<1>1. /\ tcp.open /\ tcp' = [tcp EXCEPT !.quiet = 0] /\ resp' = resp
      /\ faults' = faults /\ peer' = peer
  BY DEF Data, Ready
<1>2. parseState' = parseState
  BY DEF Data, Segment
<1>3. /\ tcp \in Client /\ resp \in Response /\ Owed(tcp) /\ Agree(resp)
      /\ PhaseInv /\ FinishedIsAcked
  BY DEF ConnInv
<1>4. /\ tcp' \in Client /\ tcp'.open /\ tcp'.rxTimeout = tcp.rxTimeout
      /\ tcp'.queued = tcp.queued
  <2>1. 0 \in 0..RxTicks
    BY Sizes
  <2> QED BY <1>1, <1>3, <2>1 DEF Client
<1>5. Owed(tcp')
  BY <1>1, <1>3 DEF Owed, Client
<1>6. FinishedIsAcked'
  BY <1>1, <1>3, <1>4 DEF FinishedIsAcked
<1> QED BY <1>1, <1>2, <1>3, <1>4, <1>5, <1>6, StillOpen DEF PhaseInv

\* _onData() runs only while there is something to read.
LEMMA SomethingRead ==
  ASSUME NoNewLine \/ EmptyRequestLine \/ RequestLine \/ Header
         \/ EndOfHeaders \/ Body \/ Ignore
  PROVE  seg # <<>>
<1>1. ASSUME NEW n \in Ends PROVE seg # <<>>
  <2>1. ASSUME seg = <<>> PROVE FALSE
    <3>1. Len(seg) = 0
      BY <2>1
    <3> QED BY <1>1, <3>1 DEF Ends
  <2> QED BY <2>1
<1> QED
  BY <1>1 DEF NoNewLine, EmptyRequestLine, RequestLine, Header, EndOfHeaders,
              Body, Ignore

LEMMA ReadStep ==
  ASSUME ConnInv, Read
  PROVE  ConnInv'
<1>1. /\ tcp' = tcp /\ resp' = resp /\ faults' = faults /\ peer' = peer
  BY DEF Read, replyVars
<1>2. seg # <<>>
  BY SomethingRead DEF Read
<1>3. parseState' = "END" <=> parseState = "END"
  BY DEF Read, NoNewLine, RequestLine, Header, Ignore
<1>4. /\ tcp \in Client /\ resp \in Response /\ Owed(tcp) /\ Agree(resp)
      /\ PhaseInv /\ FinishedIsAcked
  BY DEF ConnInv
<1>5. FinishedIsAcked' /\ tcp.open
  BY <1>1, <1>2, <1>4 DEF FinishedIsAcked, PhaseInv
<1> QED BY <1>1, <1>3, <1>4, <1>5, StillOpen DEF PhaseInv

LEMMA RejectStep ==
  ASSUME ConnInv, Reject
  PROVE  ConnInv'
<1>1. /\ tcp' = [tcp EXCEPT !.closing = TRUE] /\ resp' = resp
      /\ faults' = faults /\ peer' = peer
      /\ parseState = "START" /\ parseState' = "FAIL"
  BY DEF Reject, EmptyRequestLine
<1>2. seg # <<>>
  BY SomethingRead DEF Reject
<1>3. /\ tcp \in Client /\ resp \in Response /\ Owed(tcp) /\ Agree(resp)
      /\ PhaseInv
  BY DEF ConnInv
<1>4. tcp.open /\ resp.state = "NULL"
  BY <1>1, <1>2, <1>3 DEF PhaseInv
<1>5. tcp' \in Client /\ tcp'.open
  BY <1>1, <1>3, <1>4 DEF Client
<1>6. Owed(tcp')
  BY <1>1, <1>3 DEF Owed, Client
<1>7. FinishedIsAcked'
  BY <1>1, <1>4 DEF FinishedIsAcked
<1> QED BY <1>1, <1>3, <1>4, <1>5, <1>6, <1>7, StillOpen

LEMMA HeadersReadStep ==
  ASSUME ConnInv, HandledOnce, HandledOnce', HeadersRead
  PROVE  ConnInv'
<1>1. /\ EndOfHeaders /\ faults' = faults /\ peer' = peer
      /\ parseState = "HEADERS" /\ seg # <<>>
  BY SomethingRead DEF HeadersRead, EndOfHeaders
<1>2. /\ tcp \in Client /\ resp \in Response /\ Owed(tcp) /\ Agree(resp)
      /\ PhaseInv /\ faults \in FaultSets
  BY DEF ConnInv
<1>3. tcp.open /\ resp.state = "NULL"
  BY <1>1, <1>2 DEF PhaseInv
<1>4. PICK t \in Client : Owed(t) /\ t.open /\ SendIfCalled(t)
  <2>1. CASE expecting
    <3>1. PICK how \in Ends4Write :
            SendIfCalled(Write(tcp, Bytes("continue", ContinueLength), how).tcp)
      BY <2>1 DEF HeadersRead
    <3>2. Bytes("continue", ContinueLength) \in Seq(Byte)
      BY Sizes, BytesType
    <3> QED BY <1>2, <1>3, <3>1, <3>2, WriteKeeps
  <2>2. CASE ~expecting
    BY <1>2, <1>3, <2>2 DEF HeadersRead
  <2> QED BY <2>1, <2>2
<1>5. /\ tcp' \in Client /\ Owed(tcp') /\ tcp'.open
      /\ resp' \in Response /\ Agree(resp') /\ resp'.state # "END"
      /\ calls' # calls => ~tcp'.rxTimeout
      /\ calls' = calls => resp' = resp
  BY <1>2, <1>3, <1>4, SendIfCalledKeeps
<1>6. calls' # calls <=> parseState' = "END"
  BY <1>1 DEF HandledOnce
<1>7. FinishedIsAcked'
  BY <1>5 DEF FinishedIsAcked
<1> QED BY <1>1, <1>3, <1>5, <1>6, <1>7, StillOpen

LEMMA BodyReadStep ==
  ASSUME ConnInv, HandledOnce, HandledOnce', BodyRead
  PROVE  ConnInv'
<1>1. /\ Body /\ faults' = faults /\ peer' = peer
      /\ parseState = "BODY" /\ seg # <<>> /\ SendIfCalled(tcp)
  BY DEF BodyRead, Body
<1>2. /\ tcp \in Client /\ resp \in Response /\ Owed(tcp) /\ Agree(resp)
      /\ PhaseInv /\ faults \in FaultSets
  BY DEF ConnInv
<1>3. tcp.open /\ resp.state = "NULL"
  BY <1>1, <1>2 DEF PhaseInv
<1>4. /\ tcp' \in Client /\ Owed(tcp') /\ tcp'.open
      /\ resp' \in Response /\ Agree(resp') /\ resp'.state # "END"
      /\ calls' # calls => ~tcp'.rxTimeout
      /\ calls' = calls => resp' = resp
  BY <1>1, <1>2, <1>3, SendIfCalledKeeps
<1>5. calls' # calls <=> parseState' = "END"
  BY <1>1 DEF HandledOnce
<1>6. FinishedIsAcked'
  BY <1>4 DEF FinishedIsAcked
<1> QED BY <1>1, <1>3, <1>4, <1>5, <1>6, StillOpen

\* What an acknowledgement of n bytes makes of the client.
LEMMA AckedIs ==
  ASSUME ConnInv, NEW n \in 1..tcp.queued
  PROVE  /\ Acked(n) \in Client
         /\ Acked(n).open = tcp.open /\ Acked(n).closing = tcp.closing
         /\ Acked(n).rxTimeout = tcp.rxTimeout /\ Acked(n).busy = tcp.busy
         /\ Acked(n).queued = tcp.queued - n /\ Acked(n).acked \in Nat
         /\ Acked(n).out = tcp.out /\ Acked(n).waiting = tcp.waiting
         /\ "noroute" \notin faults /\ tcp.open =>
              Acked(n).unacked = tcp.queued - n
<1>1. tcp \in Client /\ Owed(tcp)
  BY DEF ConnInv
<1>2. /\ tcp.queued \in 0..SndBuf /\ tcp.unacked \in 0..SizeT - 1
      /\ tcp.acked \in Nat
  BY <1>1 DEF Client
<1>3. /\ 0 \in 0..RxTicks /\ tcp.queued - n \in 0..SndBuf /\ tcp.acked + n \in Nat
      /\ Less(tcp.unacked, n) \in 0..SizeT - 1
  BY <1>2, Sizes DEF Less
<1>4. /\ Acked(n) \in Client
      /\ Acked(n).open = tcp.open /\ Acked(n).closing = tcp.closing
      /\ Acked(n).rxTimeout = tcp.rxTimeout /\ Acked(n).busy = tcp.busy
      /\ Acked(n).queued = tcp.queued - n /\ Acked(n).acked = tcp.acked + n
      /\ Acked(n).out = tcp.out /\ Acked(n).waiting = tcp.waiting
      /\ Acked(n).unacked = Less(tcp.unacked, n)
  BY <1>1, <1>3 DEF Acked, Client
<1>5. ASSUME "noroute" \notin faults, tcp.open
      PROVE  Acked(n).unacked = tcp.queued - n
  <2>1. tcp.unacked = tcp.queued
    BY <1>1, <1>5 DEF Owed
  <2>2. Less(tcp.queued, n) = tcp.queued - n
    BY <1>2 DEF Less
  <2> QED BY <1>4, <2>1, <2>2
<1> QED BY <1>3, <1>4, <1>5

LEMMA AckPartStep ==
  ASSUME ConnInv, AckPart
  PROVE  ConnInv'
<1>1. PICK n \in 1..tcp.queued : Acked(n).unacked # 0 /\ tcp' = Acked(n)
  BY DEF AckPart
<1>2. /\ tcp.open /\ resp' = resp /\ faults' = faults /\ peer' = peer
      /\ parseState' = parseState
  BY DEF AckPart, Ready, requestVars
<1>3. /\ tcp \in Client /\ resp \in Response /\ Owed(tcp) /\ Agree(resp)
      /\ PhaseInv /\ FinishedIsAcked
  BY DEF ConnInv
<1>4. tcp.queued \in 0..SndBuf /\ tcp.queued > 0 /\ tcp.queued # 0
  <2>1. tcp.queued \in 0..SndBuf
    BY <1>3 DEF Client
  <2> QED BY <2>1, Sizes
<1>5. Owed(tcp')
  <2> SUFFICES ASSUME "noroute" \notin faults
               PROVE  /\ tcp'.unacked = tcp'.queued
                      /\ ~tcp'.closing => (tcp'.busy <=> tcp'.queued > 0)
    BY DEF Owed
  <2>1. tcp'.unacked = tcp'.queued /\ tcp'.unacked # 0 /\ tcp'.queued = tcp.queued - n
    BY <1>1, <1>2, AckedIs
  <2>2. tcp'.queued > 0
    BY <1>4, <2>1
  <2>3. ~tcp.closing => (tcp.busy <=> tcp.queued > 0)
    BY <1>2, <1>3 DEF Owed
  <2>4. tcp'.closing = tcp.closing /\ tcp'.busy = tcp.busy
    BY <1>1, AckedIs
  <2> QED BY <1>4, <2>1, <2>2, <2>3, <2>4
<1>6. FinishedIsAcked'
  BY <1>2, <1>3, <1>4 DEF FinishedIsAcked
<1>7. tcp' \in Client /\ tcp'.open /\ tcp'.rxTimeout = tcp.rxTimeout
  BY <1>1, <1>2, AckedIs
<1> QED BY <1>2, <1>3, <1>5, <1>6, <1>7, StillOpen DEF PhaseInv

\* All bytes are acknowledged: the connection stays open, and a response that
\* ends now has nothing under way.
LEMMA AckAllIs ==
  ASSUME ConnInv, AckAll
  PROVE  /\ tcp' \in Client /\ Owed(tcp') /\ tcp'.open
         /\ tcp'.closing = tcp.closing
         /\ "noroute" \notin faults => GivenOrNot(tcp, tcp')
         /\ resp' \in Response /\ Agree(resp')
         /\ parseState' # "END" => resp'.state = "NULL"
         /\ parseState' = "END" => ~tcp'.rxTimeout
         /\ FinishedIsAcked'
<1>1. PICK n \in 1..tcp.queued, how \in Ends4Write :
       LET t == [Acked(n) EXCEPT !.busy = FALSE]
           a == IF Alive(resp) THEN Ack(t, resp, t.acked, how)
                ELSE [tcp |-> t, resp |-> NoResponse]
       IN /\ t.unacked = 0
          /\ tcp' = [a.tcp EXCEPT !.acked = 0]
          /\ resp' = a.resp
  BY DEF AckAll
<1> DEFINE t == [Acked(n) EXCEPT !.busy = FALSE]
<1> DEFINE a == IF Alive(resp) THEN Ack(t, resp, t.acked, how)
                ELSE [tcp |-> t, resp |-> NoResponse]
<1>2. t.unacked = 0 /\ tcp' = [a.tcp EXCEPT !.acked = 0] /\ resp' = a.resp
  BY <1>1
<1>3. /\ tcp.open /\ faults' = faults /\ peer' = peer /\ parseState' = parseState
  BY DEF AckAll, Ready, requestVars
<1>4. /\ tcp \in Client /\ resp \in Response /\ Owed(tcp) /\ Agree(resp)
      /\ PhaseInv /\ FinishedIsAcked /\ faults \in FaultSets
  BY DEF ConnInv
<1>5. /\ t \in Client /\ t.open /\ t.rxTimeout = tcp.rxTimeout /\ t.busy = FALSE
      /\ t.closing = tcp.closing /\ t.out = tcp.out /\ t.waiting = tcp.waiting
      /\ t.acked \in Nat /\ t.unacked = Acked(n).unacked
      /\ t.queued = tcp.queued - n
  <2>1. Acked(n) \in Client
    BY AckedIs
  <2>2. /\ t \in Client /\ t.open = Acked(n).open /\ t.busy = FALSE
        /\ t.closing = Acked(n).closing
        /\ t.out = Acked(n).out /\ t.waiting = Acked(n).waiting
        /\ t.rxTimeout = Acked(n).rxTimeout /\ t.acked = Acked(n).acked
        /\ t.unacked = Acked(n).unacked /\ t.queued = Acked(n).queued
    <3> DEFINE b == Acked(n)
    <3> HIDE DEF b
    <3> QED BY <2>1 DEF b, Client
  <2> HIDE DEF t
  <2> QED BY <1>3, <2>2, AckedIs
<1> HIDE DEF t
<1>6. "noroute" \notin faults => t.queued = 0 /\ t.unacked = t.queued
  BY <1>2, <1>3, <1>5, AckedIs
<1>7. Owed(t)
  BY <1>5, <1>6 DEF Owed
<1>8. /\ a.tcp \in Client /\ Owed(a.tcp) /\ a.tcp.open = t.open
      /\ a.tcp.closing = t.closing
      /\ "noroute" \notin faults => GivenOrNot(t, a.tcp)
      /\ a.tcp.rxTimeout = t.rxTimeout
      /\ a.resp \in Response /\ Agree(a.resp)
      /\ a.resp.state = "END" => a.tcp = t
      /\ ~Alive(resp) => a.resp = NoResponse
  <2>1. CASE Alive(resp)
    <3>1. a = Ack(t, resp, t.acked, how)
      BY <2>1
    <3> HIDE DEF a
    <3> QED BY <1>4, <1>5, <1>7, <2>1, <3>1, AckKeeps, AckGives
  <2>2. CASE ~Alive(resp)
    <3>1. a = [tcp |-> t, resp |-> NoResponse]
      BY <2>2
    <3>2. GivenOrNot(t, t)
      BY <1>5, Sizes DEF Client, GivenOrNot
    <3> HIDE DEF a
    <3> QED BY <1>5, <1>7, <3>1, <3>2, NoResponseType DEF Agree
  <2> QED BY <2>1, <2>2
<1> HIDE DEF a
<1>9. /\ tcp' \in Client /\ tcp'.open = a.tcp.open /\ tcp'.queued = a.tcp.queued
      /\ tcp'.rxTimeout = a.tcp.rxTimeout /\ tcp'.unacked = a.tcp.unacked
      /\ tcp'.closing = a.tcp.closing /\ tcp'.busy = a.tcp.busy
      /\ tcp'.out = a.tcp.out /\ tcp'.waiting = a.tcp.waiting
  BY <1>2, <1>8 DEF Client
<1>10. Owed(tcp')
  BY <1>8, <1>9 DEF Owed
<1>11. FinishedIsAcked'
  BY <1>2, <1>3, <1>6, <1>8, <1>9 DEF FinishedIsAcked
<1>12. parseState' # "END" => resp'.state = "NULL"
  BY <1>2, <1>3, <1>4, <1>8, NoResponseType DEF PhaseInv, Alive
<1>13. parseState' = "END" => ~tcp'.rxTimeout
  BY <1>3, <1>4, <1>5, <1>8, <1>9 DEF PhaseInv
<1>14. "noroute" \notin faults => GivenOrNot(tcp, tcp')
  <2>1. "noroute" \notin faults => GivenOrNot(t, tcp')
    BY <1>8, <1>9 DEF GivenOrNot
  <2>2. t.out = tcp.out /\ t.waiting = tcp.waiting /\ t.queued <= tcp.queued
    BY <1>4, <1>5, Sizes DEF Client
  <2>3. t.queued \in 0..SndBuf /\ tcp.queued \in 0..SndBuf /\ tcp'.queued \in 0..SndBuf
    BY <1>4, <1>5, <1>9 DEF Client
  <2> QED BY <2>1, <2>2, <2>3, Sizes DEF GivenOrNot
<1> QED BY <1>2, <1>5, <1>8, <1>9, <1>10, <1>11, <1>12, <1>13, <1>14

LEMMA AckAllStep ==
  ASSUME ConnInv, AckAll
  PROVE  ConnInv'
<1>1. faults' = faults /\ peer' = peer
  BY DEF AckAll
<1> QED BY <1>1, AckAllIs, StillOpen

LEMMA TickIs ==
  ASSUME tcp \in Client
  PROVE  /\ Tick \in Client
         /\ Tick.open = tcp.open /\ Tick.closing = tcp.closing
         /\ Tick.rxTimeout = tcp.rxTimeout /\ Tick.busy = tcp.busy
         /\ Tick.queued = tcp.queued /\ Tick.unacked = tcp.unacked
         /\ Tick.out = tcp.out /\ Tick.waiting = Lesser(tcp.waiting + 1, AckTicks)
<1>1. /\ Lesser(tcp.quiet + 1, RxTicks) \in 0..RxTicks
      /\ Lesser(tcp.waiting + 1, AckTicks) \in 0..AckTicks
  <2>1. tcp.quiet \in 0..RxTicks /\ tcp.waiting \in 0..AckTicks
    BY DEF Client
  <2> QED BY <2>1, Sizes DEF Lesser
<1> QED BY <1>1 DEF Tick, Client

LEMMA ClosedStep ==
  ASSUME ConnInv, seg = <<>>, tcp.open,
         UNCHANGED <<requestVars, faults>>, peer' \in {"here", "gone"},
         resp' = NoResponse,
         \/ tcp' = [tcp EXCEPT !.open = FALSE]
         \/ tcp' = [tcp EXCEPT !.open = FALSE, !.queued = 0]
  PROVE  ConnInv'
<1>1. tcp \in Client /\ PhaseInv
  BY DEF ConnInv
<1>2. tcp' \in Client /\ ~tcp'.open /\ tcp'.rxTimeout = tcp.rxTimeout
  <2>1. CASE tcp' = [tcp EXCEPT !.open = FALSE]
    BY <1>1, <2>1 DEF Client
  <2>2. CASE tcp' = [tcp EXCEPT !.open = FALSE, !.queued = 0]
    <3>1. 0 \in 0..SndBuf
      BY Sizes
    <3> QED BY <1>1, <2>2, <3>1 DEF Client
  <2> QED BY <2>1, <2>2
<1>3. seg' = <<>> /\ parseState' = parseState /\ faults' = faults
  BY DEF requestVars
<1> QED BY <1>1, <1>2, <1>3, NowClosed DEF PhaseInv

LEMMA PollStep ==
  ASSUME ConnInv, Poll
  PROVE  ConnInv'
<1>1. /\ UNCHANGED <<requestVars, faults>> /\ peer' = peer /\ faults' = faults
      /\ parseState' = parseState
  BY DEF Poll, requestVars
<1>2. /\ tcp \in Client /\ resp \in Response /\ Owed(tcp) /\ Agree(resp)
      /\ PhaseInv /\ FinishedIsAcked /\ faults \in FaultSets
      /\ peer \in {"here", "gone"}
  BY DEF ConnInv
<1>3. CASE PollCloses
  BY <1>1, <1>2, <1>3, ClosedStep DEF PollCloses, Ready, Close
<1>4. CASE PollRxTimeout
  BY <1>1, <1>2, <1>4, ClosedStep DEF PollRxTimeout, Ready, Close
<1>5. CASE PollAckTimeout
  <2>1. /\ tcp.open /\ resp' = resp
        /\ tcp' = [Tick EXCEPT !.busy = FALSE, !.closing = TRUE]
    BY <1>5 DEF PollAckTimeout, Ready
  <2>2. /\ tcp' \in Client /\ tcp'.open = Tick.open /\ tcp'.closing
        /\ tcp'.rxTimeout = Tick.rxTimeout /\ tcp'.queued = Tick.queued
        /\ tcp'.unacked = Tick.unacked
    <3>1. Tick \in Client
      BY <1>2, TickIs
    <3> QED BY <2>1, <3>1 DEF Client
  <2>3. Owed(tcp')
    BY <1>2, <2>1, <2>2, TickIs DEF Owed
  <2>4. FinishedIsAcked'
    BY <1>1, <1>2, <2>1, <2>2, TickIs DEF FinishedIsAcked
  <2> QED BY <1>1, <1>2, <2>1, <2>2, <2>3, <2>4, TickIs, StillOpen DEF PhaseInv
<1>6. CASE PollGoesOn
  <2>1. tcp.open /\ ~tcp.closing
    BY <1>6 DEF PollGoesOn, Ready
  <2>2. Owed(Tick) /\ Tick \in Client /\ Tick.open
    BY <1>2, <2>1, TickIs DEF Owed
  <2>3. CASE Alive(resp) /\ CanSend(tcp)
    <3>1. PICK how \in Ends4Write :
            /\ tcp' = Ack(Tick, resp, 0, how).tcp
            /\ resp' = Ack(Tick, resp, 0, how).resp
      BY <1>6, <2>3 DEF PollGoesOn
    <3>2. /\ tcp' \in Client /\ Owed(tcp') /\ tcp'.open
          /\ tcp'.rxTimeout = tcp.rxTimeout
          /\ resp' \in Response /\ Agree(resp')
          /\ resp'.state = "END" => tcp' = Tick
      BY <1>2, <2>2, <2>3, <3>1, TickIs, AckKeeps
    <3>3. "noroute" \notin faults => tcp.queued = 0
      <4>1. ~tcp.busy /\ tcp.queued \in 0..SndBuf
        BY <1>2, <2>3 DEF CanSend, Client
      <4>2. "noroute" \notin faults => ~(tcp.queued > 0)
        BY <1>2, <2>1, <4>1 DEF Owed
      <4> QED BY <4>1, <4>2, Sizes
    <3>4. FinishedIsAcked'
      BY <1>1, <1>2, <3>2, <3>3, TickIs DEF FinishedIsAcked
    <3>5. parseState = "END"
      BY <1>2, <2>3 DEF PhaseInv, Alive
    <3> QED BY <1>1, <1>2, <3>2, <3>4, <3>5, StillOpen DEF PhaseInv
  <2>4. CASE ~(Alive(resp) /\ CanSend(tcp))
    <3>1. tcp' = Tick /\ resp' = resp
      BY <1>6, <2>4 DEF PollGoesOn
    <3>2. FinishedIsAcked'
      BY <1>1, <1>2, <3>1, TickIs DEF FinishedIsAcked
    <3> QED BY <1>1, <1>2, <2>2, <3>1, <3>2, TickIs, StillOpen DEF PhaseInv
  <2> QED BY <2>3, <2>4
<1> QED BY <1>3, <1>4, <1>5, <1>6 DEF Poll

LEMMA UnchangedStep ==
  ASSUME ConnInv, UNCHANGED vars
  PROVE  ConnInv'
<1>1. /\ tcp' = tcp /\ resp' = resp /\ faults' = faults /\ peer' = peer
      /\ parseState' = parseState /\ seg' = seg
  BY DEF vars, replyVars, requestVars
<1>2. Owed(tcp)' /\ Agree(resp)' /\ PhaseInv' /\ FinishedIsAcked'
  BY <1>1 DEF ConnInv, Owed, Agree, PhaseInv, FinishedIsAcked
<1> QED BY <1>1, <1>2 DEF ConnInv

LEMMA ConnStep ==
  ConnInv /\ HandledOnce /\ HandledOnce' /\ [ConnectionNext]_vars => ConnInv'
<1> SUFFICES ASSUME ConnInv, HandledOnce, HandledOnce', [ConnectionNext]_vars
             PROVE  ConnInv'
  OBVIOUS
<1>1. CASE Data        BY <1>1, DataStep
<1>2. CASE Read        BY <1>2, ReadStep
<1>3. CASE Reject      BY <1>3, RejectStep
<1>4. CASE HeadersRead BY <1>4, HeadersReadStep
<1>5. CASE BodyRead    BY <1>5, BodyReadStep
<1>6. CASE AckPart     BY <1>6, AckPartStep
<1>7. CASE AckAll      BY <1>7, AckAllStep
<1>8. CASE Poll        BY <1>8, PollStep
<1>9. CASE PeerCloses
  BY <1>9, ClosedStep DEF PeerCloses, Ready, Close
<1>10. CASE PeerResets
  BY <1>10, ClosedStep DEF PeerResets, Ready
<1>11. CASE UNCHANGED vars
  BY <1>11, UnchangedStep
<1> QED
  BY <1>1, <1>2, <1>3, <1>4, <1>5, <1>6, <1>7, <1>8, <1>9, <1>10, <1>11
  DEF ConnectionNext, OnData

LEMMA ConnectionHandledOnce == ConnectionSpec => []HandledOnce
BY ConnectionRefinesRequest, RequestHandledOnce, PTL

\* The client, the response and the phase of the request always fit together
\* (ESPAsyncTCP.cpp, WebResponses.cpp, WebRequest.cpp).
THEOREM ConnectionInvariant == ConnectionSpec => []ConnInv
<1>1. ConnectionInit => ConnInv
  BY InitConn
<1>2. ConnInv /\ HandledOnce /\ HandledOnce' /\ [ConnectionNext]_vars => ConnInv'
  BY ConnStep
<1> QED BY <1>1, <1>2, ConnectionHandledOnce, PTL DEF ConnectionSpec

-----------------------------------------------------------------------------
(* How long the peer has owed acknowledgements                             *)

\* While something is owed, _pcb_sent_at tells since when nothing was written.
OwedForInv ==
  /\ owedFor \in 0..AckTicks
  /\ "noroute" \notin faults /\ tcp.open /\ ~tcp.closing /\ tcp.queued > 0 =>
       owedFor = tcp.waiting

\* A step that takes so many polls.
LEMMA OwedForStep ==
  ASSUME OwedForInv, tcp \in Client, tcp' \in Client, faults' = faults,
         NEW polls \in {0, 1}, Elapse(polls), NEW u \in Client,
         u.out = tcp.out, u.queued = tcp.queued,
         u.waiting = Lesser(tcp.waiting + polls, AckTicks),
         "noroute" \notin faults /\ tcp'.open /\ ~tcp'.closing =>
           tcp.open /\ ~tcp.closing /\ GivenOrNot(u, tcp')
  PROVE  OwedForInv'
<1>1. /\ owedFor \in 0..AckTicks /\ tcp.waiting \in 0..AckTicks
      /\ tcp.queued \in 0..SndBuf /\ tcp'.queued \in 0..SndBuf
      /\ AckTicks \in Nat
  BY Sizes DEF OwedForInv, Client
<1>2. owedFor' \in 0..AckTicks
  <2>1. Lesser(owedFor + polls, AckTicks) \in 0..AckTicks
    BY <1>1 DEF Lesser
  <2> QED BY <1>1, <2>1 DEF Elapse
<1>3. ASSUME "noroute" \notin faults, tcp'.open, ~tcp'.closing, tcp'.queued > 0
      PROVE  owedFor' = tcp'.waiting
  <2>1. CASE tcp'.out = u.out
    <3>1. tcp'.queued <= tcp.queued /\ tcp'.waiting = u.waiting
      <4>1. ~(Len(tcp'.out) > Len(u.out))
        <5>1. Len(u.out) \in Nat
          BY LenProperties DEF Client
        <5> QED BY <2>1, <5>1
      <4> QED BY <1>3, <4>1 DEF GivenOrNot
    <3>2. tcp.queued > 0 /\ tcp'.queued # 0
      BY <1>1, <1>3, <3>1, Sizes
    <3>3. owedFor = tcp.waiting
      BY <1>3, <3>2 DEF OwedForInv
    <3>4. owedFor' = Lesser(owedFor + polls, AckTicks)
      BY <2>1, <3>2 DEF Elapse
    <3> QED BY <3>1, <3>3, <3>4
  <2>2. CASE tcp'.out # u.out
    <3>1. tcp'.waiting = 0
      BY <1>3, <2>2 DEF GivenOrNot
    <3>2. owedFor' = 0
      BY <2>2 DEF Elapse
    <3> QED BY <3>1, <3>2
  <2> QED BY <2>1, <2>2
<1> QED BY <1>2, <1>3 DEF OwedForInv

\* A callback that is not a poll.
LEMMA OwedForKept ==
  ASSUME OwedForInv, tcp \in Client, tcp' \in Client, faults' = faults, Elapse(0),
         "noroute" \notin faults /\ tcp'.open /\ ~tcp'.closing =>
           tcp.open /\ ~tcp.closing /\ GivenOrNot(tcp, tcp')
  PROVE  OwedForInv'
<1>1. tcp.waiting = Lesser(tcp.waiting + 0, AckTicks)
  <2>1. tcp.waiting \in 0..AckTicks
    BY DEF Client
  <2> QED BY <2>1, Sizes DEF Lesser
<1> QED BY <1>1, OwedForStep

\* What a callback of the request makes of the client: it may be given bytes,
\* and only a request without a line is refused.
LEMMA OnDataGives ==
  ASSUME ConnInv, HandledOnce, OnData
  PROVE  /\ tcp' \in Client /\ faults' = faults /\ tcp.open /\ tcp'.open
         /\ \/ tcp'.closing /\ parseState' = "FAIL"
            \/ tcp'.closing = tcp.closing
         /\ "noroute" \notin faults /\ ~tcp'.closing => GivenOrNot(tcp, tcp')
<1>1. /\ tcp \in Client /\ resp \in Response /\ Owed(tcp) /\ Agree(resp)
      /\ PhaseInv /\ faults \in FaultSets /\ tcp.queued \in 0..SndBuf
  BY DEF ConnInv, Client
<1>2. CASE Read
  <2>1. tcp' = tcp /\ faults' = faults /\ seg # <<>>
    BY <1>2, SomethingRead DEF Read, replyVars
  <2> QED BY <1>1, <2>1, Sizes DEF PhaseInv, GivenOrNot
<1>3. CASE Reject
  <2>1. /\ tcp' = [tcp EXCEPT !.closing = TRUE] /\ faults' = faults /\ seg # <<>>
        /\ parseState' = "FAIL"
    BY <1>3, SomethingRead DEF Reject, EmptyRequestLine
  <2> QED BY <1>1, <2>1 DEF PhaseInv, Client
<1>4. CASE HeadersRead
  <2>1. /\ faults' = faults /\ seg # <<>> /\ parseState = "HEADERS"
    BY <1>4, SomethingRead DEF HeadersRead, EndOfHeaders
  <2>2. tcp.open /\ resp.state = "NULL"
    BY <1>1, <2>1 DEF PhaseInv
  <2>3. PICK t \in Client : /\ Owed(t) /\ t.open /\ SendIfCalled(t)
                            /\ t.closing = tcp.closing
                            /\ "noroute" \notin faults => GivenOrNot(tcp, t)
    <3>1. CASE expecting
      <4>1. PICK how \in Ends4Write :
              SendIfCalled(Write(tcp, Bytes("continue", ContinueLength), how).tcp)
        BY <1>4, <3>1 DEF HeadersRead
      <4>2. Bytes("continue", ContinueLength) \in Seq(Byte)
        BY Sizes, BytesType
      <4> QED BY <1>1, <2>2, <4>1, <4>2, WriteKeeps, WriteGives
    <3>2. CASE ~expecting
      <4>1. SendIfCalled(tcp) /\ GivenOrNot(tcp, tcp)
        BY <1>1, <1>4, <3>2, Sizes DEF HeadersRead, GivenOrNot
      <4> QED BY <1>1, <2>2, <4>1
    <3> QED BY <3>1, <3>2
  <2>4. tcp' \in Client /\ tcp'.open /\ tcp'.closing = tcp.closing
    BY <1>1, <2>2, <2>3, SendIfCalledKeeps
  <2>5. "noroute" \notin faults => GivenOrNot(tcp, tcp')
    BY <1>1, <2>3, <2>4, SendGives, GivenTwice
  <2> QED BY <2>1, <2>2, <2>4, <2>5
<1>5. CASE BodyRead
  <2>1. /\ faults' = faults /\ seg # <<>> /\ parseState = "BODY"
        /\ SendIfCalled(tcp)
    BY <1>5 DEF BodyRead, Body
  <2>2. tcp.open /\ resp.state = "NULL"
    BY <1>1, <2>1 DEF PhaseInv
  <2>3. tcp' \in Client /\ tcp'.open /\ tcp'.closing = tcp.closing
    BY <1>1, <2>1, <2>2, SendIfCalledKeeps
  <2>4. "noroute" \notin faults => GivenOrNot(tcp, tcp')
    BY <1>1, <2>1, SendGives
  <2> QED BY <2>1, <2>2, <2>3, <2>4
<1> QED BY <1>2, <1>3, <1>4, <1>5 DEF OnData

LEMMA AckPartGives ==
  ASSUME ConnInv, AckPart
  PROVE  /\ tcp' \in Client /\ faults' = faults /\ tcp.open /\ tcp'.open
         /\ tcp'.closing = tcp.closing /\ GivenOrNot(tcp, tcp')
<1>1. PICK n \in 1..tcp.queued : tcp' = Acked(n)
  BY DEF AckPart
<1>2. tcp.open /\ faults' = faults /\ tcp \in Client /\ tcp.queued \in 0..SndBuf
  BY DEF AckPart, Ready, ConnInv, Client
<1>3. /\ Acked(n) \in Client /\ Acked(n).open /\ Acked(n).closing = tcp.closing
      /\ Acked(n).queued <= tcp.queued
      /\ Acked(n).out = tcp.out /\ Acked(n).waiting = tcp.waiting
  <2>1. tcp.queued - n <= tcp.queued
    BY <1>2
  <2> QED BY <1>2, <2>1, AckedIs
<1> DEFINE a == Acked(n)
<1> HIDE DEF a
<1>4. GivenOrNot(tcp, a)
  BY <1>3 DEF a, GivenOrNot
<1> QED BY <1>1, <1>2, <1>3, <1>4 DEF a

\* The acknowledgement timer expires after the whole of its time.
LEMMA AckTimeoutIsLate ==
  ASSUME ConnInv, OwedForInv, PollAckTimeout, Elapse(1), "noroute" \notin faults
  PROVE  owedFor' = AckTicks
<1>1. /\ tcp.open /\ ~tcp.closing /\ tcp.busy /\ Tick.waiting = AckTicks
      /\ tcp' = [Tick EXCEPT !.busy = FALSE, !.closing = TRUE]
  BY DEF PollAckTimeout, Ready, AckIsLate
<1>2. tcp \in Client /\ tcp.queued > 0 /\ tcp.queued # 0
  <2>1. tcp \in Client /\ Owed(tcp)
    BY DEF ConnInv
  <2>2. tcp.queued > 0 /\ tcp.queued \in 0..SndBuf
    BY <1>1, <2>1 DEF Owed, Client
  <2> QED BY <2>1, <2>2, Sizes
<1>3. tcp'.out = Tick.out /\ tcp'.queued = Tick.queued
  BY <1>1, <1>2, TickIs DEF Client
<1>4. tcp'.out = tcp.out /\ tcp'.queued # 0
  BY <1>2, <1>3, TickIs
<1>5. owedFor' = Lesser(owedFor + 1, AckTicks)
  BY <1>4 DEF Elapse
<1>6. owedFor = tcp.waiting
  BY <1>1, <1>2 DEF OwedForInv
<1> QED BY <1>1, <1>2, <1>5, <1>6, TickIs

LEMMA PollGives ==
  ASSUME ConnInv, Poll
  PROVE  /\ tcp' \in Client /\ faults' = faults /\ tcp.open
         /\ \/ ~tcp'.open /\ (tcp.closing \/ tcp.rxTimeout)
               /\ tcp'.closing = tcp.closing
            \/ PollAckTimeout /\ tcp'.open /\ tcp'.closing
            \/ tcp'.open /\ tcp'.closing = tcp.closing
         /\ "noroute" \notin faults /\ tcp'.open /\ ~tcp'.closing =>
              ~tcp.closing /\ GivenOrNot(Tick, tcp')
<1>1. /\ tcp \in Client /\ resp \in Response /\ Owed(tcp) /\ Agree(resp)
      /\ faults \in FaultSets
  BY DEF ConnInv
<1>2. faults' = faults /\ tcp.open
  BY DEF Poll, PollCloses, PollAckTimeout, PollRxTimeout, PollGoesOn, Ready
<1>3. CASE PollCloses \/ PollRxTimeout
  <2>1. tcp' = [tcp EXCEPT !.open = FALSE] /\ (tcp.closing \/ tcp.rxTimeout)
    BY <1>3 DEF PollCloses, PollRxTimeout, PeerIsQuiet, Close
  <2>2. tcp' \in Client /\ ~tcp'.open /\ tcp'.closing = tcp.closing
    BY <1>1, <2>1 DEF Client
  <2> QED BY <1>2, <2>1, <2>2
<1>4. CASE PollAckTimeout
  <2>1. tcp' = [Tick EXCEPT !.busy = FALSE, !.closing = TRUE]
    BY <1>4 DEF PollAckTimeout
  <2>2. tcp' \in Client /\ tcp'.open = Tick.open /\ tcp'.closing
    BY <1>1, <2>1, TickIs DEF Client
  <2> QED BY <1>1, <1>2, <1>4, <2>2, TickIs
<1>5. CASE PollGoesOn
  <2>1. ~tcp.closing
    BY <1>5 DEF PollGoesOn
  <2>2. /\ Owed(Tick) /\ Tick \in Client /\ Tick.open = tcp.open
        /\ Tick.closing = tcp.closing
    BY <1>1, <1>2, <2>1, TickIs DEF Owed
  <2>3. CASE Alive(resp) /\ CanSend(tcp)
    <3>1. PICK how \in Ends4Write : tcp' = Ack(Tick, resp, 0, how).tcp
      BY <1>5, <2>3 DEF PollGoesOn
    <3>2. tcp' \in Client /\ tcp'.open = Tick.open /\ tcp'.closing = Tick.closing
      BY <1>1, <2>2, <2>3, <3>1, AckKeeps
    <3>3. "noroute" \notin faults => GivenOrNot(Tick, tcp')
      BY <1>1, <2>2, <2>3, <3>1, AckGives
    <3> QED BY <1>2, <2>1, <2>2, <3>2, <3>3
  <2>4. CASE ~(Alive(resp) /\ CanSend(tcp))
    <3>1. tcp' = Tick
      BY <1>5, <2>4 DEF PollGoesOn
    <3>2. GivenOrNot(Tick, Tick)
      BY <2>2, Sizes DEF GivenOrNot, Client
    <3> QED BY <1>2, <2>1, <2>2, <3>1, <3>2
  <2> QED BY <2>3, <2>4
<1> QED BY <1>3, <1>4, <1>5 DEF Poll

LEMMA OwedForNext ==
  ConnInv /\ HandledOnce /\ OwedForInv /\ [ConnectionNext]_vars => OwedForInv'
<1> SUFFICES ASSUME ConnInv, HandledOnce, OwedForInv, [ConnectionNext]_vars
             PROVE  OwedForInv'
  OBVIOUS
<1>1. tcp \in Client
  BY DEF ConnInv
<1>2. CASE Data
  <2>1. /\ tcp' = [tcp EXCEPT !.quiet = 0] /\ faults' = faults
        /\ owedFor' = owedFor
    BY <1>2 DEF Data
  <2>2. /\ tcp'.open = tcp.open /\ tcp'.closing = tcp.closing
        /\ tcp'.queued = tcp.queued /\ tcp'.waiting = tcp.waiting
    BY <1>1, <2>1 DEF Client
  <2> QED BY <2>1, <2>2 DEF OwedForInv
<1>3. CASE OnData
  BY <1>1, <1>3, OnDataGives, OwedForKept DEF OnData
<1>4. CASE AckPart
  BY <1>1, <1>4, AckPartGives, OwedForKept DEF AckPart
<1>5. CASE AckAll
  <2>1. faults' = faults /\ tcp.open /\ Elapse(0)
    BY <1>5 DEF AckAll, Ready
  <2> QED BY <1>1, <1>5, <2>1, AckAllIs, OwedForKept
<1>6. CASE Poll
  <2>1. Elapse(1)
    BY <1>6 DEF Poll
  <2> QED BY <1>1, <1>6, <2>1, PollGives, TickIs, OwedForStep
<1>7. CASE PeerCloses \/ PeerResets
  <2>1. tcp' \in Client /\ ~tcp'.open
    <3>1. CASE PeerCloses
      BY <1>1, <3>1 DEF PeerCloses, Close, Client
    <3>2. CASE PeerResets
      <4>1. 0 \in 0..SndBuf
        BY Sizes
      <4> QED BY <1>1, <3>2, <4>1 DEF PeerResets, Client
    <3> QED BY <1>7, <3>1, <3>2
  <2>2. faults' = faults /\ Elapse(0)
    BY <1>7 DEF PeerCloses, PeerResets
  <2> QED BY <1>1, <2>1, <2>2, OwedForKept
<1>8. CASE UNCHANGED vars
  BY <1>8 DEF vars, replyVars, OwedForInv
<1> QED
  BY <1>2, <1>3, <1>4, <1>5, <1>6, <1>7, <1>8 DEF ConnectionNext

LEMMA OwedForInvariant == ConnectionSpec => []OwedForInv
<1>1. ConnectionInit => OwedForInv
  <2> SUFFICES ASSUME ConnectionInit PROVE OwedForInv
    OBVIOUS
  <2>1. tcp.waiting = 0 /\ owedFor = 0
    BY DEF ConnectionInit
  <2> QED BY <2>1, Sizes DEF OwedForInv
<1> QED
  BY <1>1, OwedForNext, ConnectionInvariant, ConnectionHandledOnce, PTL
  DEF ConnectionSpec

-----------------------------------------------------------------------------
(* What follows from them                                                  *)

\* The connection's variables keep to their types, the send buffer to its
\* size (ESPAsyncTCP.cpp, WebResponses.cpp).
THEOREM ConnectionTypesCorrect == ConnectionSpec => []ConnectionTypeOK
<1>1. ConnInv /\ OwedForInv /\ TypeOK => ConnectionTypeOK
  <2> SUFFICES ASSUME ConnInv, OwedForInv, TypeOK PROVE ConnectionTypeOK
    OBVIOUS
  <2>1. /\ tcp \in Client /\ resp \in Response /\ peer \in {"here", "gone"}
        /\ owedFor \in 0..AckTicks
    BY DEF ConnInv, OwedForInv
  <2>2. /\ tcp.open \in BOOLEAN /\ tcp.closing \in BOOLEAN /\ tcp.busy \in BOOLEAN
        /\ tcp.rxTimeout \in BOOLEAN
    BY <2>1 DEF Client
  <2>3. /\ tcp.queued \in 0..SndBuf
        /\ tcp.unacked \in 0..SizeT - 1 /\ tcp.acked \in Nat
        /\ tcp.quiet \in 0..RxTicks /\ tcp.waiting \in 0..AckTicks
    BY <2>1 DEF Client
  <2>4. /\ resp.state \in States
        /\ {resp.contentLength, resp.sentLength, resp.ackedLength,
            resp.writtenLength} \subseteq Nat
    BY <2>1 DEF Response
  <2> QED BY <2>1, <2>2, <2>3, <2>4 DEF ConnectionTypeOK
<1>2. ConnectionSpec => []TypeOK
  BY ConnectionRefinesRequest, RequestTypesCorrect, PTL
<1> QED BY <1>1, <1>2, ConnectionInvariant, OwedForInvariant, PTL

\* _respond() and _ack() always agree how much of the content is left.
THEOREM LengthsAlwaysAgree == ConnectionSpec => []LengthsAgree
<1>1. ConnInv => LengthsAgree
  BY DEF ConnInv, Agree, LengthsAgree
<1> QED BY <1>1, ConnectionInvariant, PTL

\* AsyncClient waits for an acknowledgement exactly while one is due.
THEOREM TimerAlwaysRunsWhileOwed == ConnectionSpec => []TimerRunsWhileOwed
<1>1. ConnInv => TimerRunsWhileOwed
  BY DEF ConnInv, Owed, TimerRunsWhileOwed
<1> QED BY <1>1, ConnectionInvariant, PTL

\* A response that has finished was acknowledged to the last byte.
THEOREM FinishedIsAlwaysAcked == ConnectionSpec => []FinishedIsAcked
<1>1. ConnInv => FinishedIsAcked
  BY DEF ConnInv
<1> QED BY <1>1, ConnectionInvariant, PTL

\* On every connection the handler is called once, with the whole request,
\* whatever else happens on it.
THEOREM ConnectionHandledWhenWhole == ConnectionSpec => []HandledWhenWhole
BY ConnectionRefinesRequest, RequestHandledWhenWhole, PTL

\* A peer that is slow to read is cut off only when it has left bytes
\* unacknowledged for the whole of ASYNC_MAX_ACK_TIME since the last write
\* (_poll(), _sent(), send()).
THEOREM SlowPeerIsNeverCut == ConnectionSpec => SlowPeerIsNotCut
<1> DEFINE Cuts ==
      "noroute" \notin faults =>
        /\ tcp'.closing /\ ~tcp.closing =>
             owedFor' = AckTicks \/ parseState' = "FAIL"
        /\ calls # <<>> /\ tcp.open /\ ~tcp'.open =>
             tcp.closing \/ peer' = "gone"
<1>1. ASSUME ConnInv, OwedForInv, HandledOnce, [ConnectionNext]_vars
      PROVE  [Cuts]_vars
  <2> SUFFICES ASSUME ConnectionNext, "noroute" \notin faults
               PROVE  Cuts
    BY <1>1
  <2>1. tcp \in Client
    BY <1>1 DEF ConnInv
  <2>2. CASE Data
    <3>1. tcp' = [tcp EXCEPT !.quiet = 0]
      BY <2>2 DEF Data
    <3> QED BY <2>1, <3>1 DEF Client
  <2>3. CASE OnData
    BY <1>1, <2>3, OnDataGives
  <2>4. CASE AckPart
    BY <1>1, <2>4, AckPartGives
  <2>5. CASE AckAll
    BY <1>1, <2>5, AckAllIs
  <2>6. CASE Poll
    <3>1. Elapse(1)
      BY <2>6 DEF Poll
    <3>2. tcp'.closing /\ ~tcp.closing => owedFor' = AckTicks
      BY <1>1, <2>6, <3>1, PollGives, AckTimeoutIsLate
    <3>3. calls # <<>> => ~tcp.rxTimeout
      BY <1>1 DEF ConnInv, HandledOnce, PhaseInv
    <3>4. ~tcp'.open => tcp.closing \/ tcp.rxTimeout
      BY <1>1, <2>6, PollGives
    <3> QED BY <3>2, <3>3, <3>4
  <2>7. CASE PeerCloses \/ PeerResets
    <3>1. peer' = "gone"
      BY <2>7 DEF PeerCloses, PeerResets
    <3>2. tcp'.closing = tcp.closing
      BY <2>1, <2>7 DEF PeerCloses, PeerResets, Close, Client
    <3> QED BY <3>1, <3>2
  <2> QED BY <2>2, <2>3, <2>4, <2>5, <2>6, <2>7 DEF ConnectionNext
<1> QED
  BY <1>1, ConnectionInvariant, OwedForInvariant, ConnectionHandledOnce, PTL
  DEF ConnectionSpec, SlowPeerIsNotCut
-----------------------------------------------------------------------------
(* The reply goes out unbroken                                             *)

NotBegun == parseState \in {"START", "HEADERS", "FAIL"}

\* Unless tcp_write() fails: nothing goes out before the headers are read,
\* only "100 Continue" before the reply, and then what is out and what the
\* response still holds make up the reply.
BytesInv ==
  /\ reply \in Seq(Byte)
  /\ "nomem" \notin faults =>
       /\ NotBegun => tcp.out = <<>> /\ tcp.queued = 0 /\ reply = <<>>
       /\ parseState = "BODY" => tcp.out = Preamble /\ reply = <<>>
       /\ \E rest \in Seq(Byte) : tcp.out \o rest = Preamble \o reply
       /\ resp.state = "CONTENT" => tcp.out \o resp.content = Preamble \o reply
       /\ resp.state \in {"WAIT_ACK", "END"} => tcp.out = Preamble \o reply

LEMMA PreambleType == Preamble \in Seq(Byte)
<1>1. Lesser(SndBuf, ContinueLength) \in Nat
  BY Sizes DEF Lesser
<1>2. Bytes("continue", Lesser(SndBuf, ContinueLength)) \in Seq(Byte)
  BY <1>1, BytesType
<1> QED BY <1>2 DEF Preamble

\* A sequence of bytes and the pieces it is cut into.
LEMMA CutIsWhole ==
  ASSUME NEW s \in Seq(Byte), NEW n \in 0..Len(s)
  PROVE  SubSeq(s, 1, n) \o SubSeq(s, n + 1, Len(s)) = s
<1>1. Len(s) \in Nat
  BY LenProperties
<1>2. 1 \in 1..Len(s) + 1 /\ n \in 1 - 1..Len(s) /\ Len(s) \in n..Len(s)
  BY <1>1
<1>3. SubSeq(s, 1, n) \o SubSeq(s, n + 1, Len(s)) = SubSeq(s, 1, Len(s))
  BY <1>2, ConcatAdjacentSubSeq
<1> QED BY <1>3, SubSeqFull

\* What is out is the beginning of what is to go out.
LEMMA PrefixOf ==
  ASSUME NEW s \in Seq(Byte), NEW u \in Seq(Byte)
  PROVE  IsPrefix(s, s \o u)
<1>1. Len(s \o u) = Len(s) + Len(u) /\ Len(s) \in Nat /\ Len(u) \in Nat
      /\ s \o u \in Seq(Byte)
  BY ConcatProperties, LenProperties
<1>2. Len(s) <= Len(s \o u)
  BY <1>1
<1>3. SubSeq(s, 1, Len(s)) = SubSeq(s \o u, 1, Len(s))
  <2>1. CASE Len(s) = 0
    <3>1. SubSeq(s, 1, Len(s)) = <<>> /\ SubSeq(s \o u, 1, Len(s)) = <<>>
      BY <2>1, SubSeqEmpty
    <3> QED BY <3>1
  <2>2. CASE Len(s) # 0
    <3>1. 1 \in 1..Len(s) /\ Len(s) \in 1..Len(s)
      BY <1>1, <2>2
    <3> QED BY <3>1, SubSeqOfConcat1
  <2> QED BY <2>1, <2>2
<1> QED BY <1>2, <1>3 DEF IsPrefix

\* A write that does not fail appends what fits.
LEMMA WriteAppends ==
  ASSUME NEW t \in Client, faults \in FaultSets, "nomem" \notin faults,
         NEW bytes \in Seq(Byte), NEW how \in Ends4Write
  PROVE  /\ Lesser(Space(t), Len(bytes)) \in 0..Len(bytes)
         /\ Write(t, bytes, how).tcp.out =
              t.out \o SubSeq(bytes, 1, Lesser(Space(t), Len(bytes)))
<1> DEFINE n == Lesser(Space(t), Len(bytes))
<1> DEFINE queued == [t EXCEPT !.out = @ \o SubSeq(bytes, 1, n), !.queued = @ + n]
<1> DEFINE sent == [queued EXCEPT !.busy = TRUE, !.waiting = 0,
                                  !.unacked = (@ + n) % SizeT]
<1> DEFINE w == Write(t, bytes, how)
<1>1. n \in 0..Len(bytes)
  <2>1. Len(bytes) \in Nat /\ t.queued \in 0..SndBuf
    BY LenProperties DEF Client
  <2> QED BY <2>1, Sizes DEF Lesser, Space
<1>2. how # "nomem"
  BY DEF Ends4Write
<1>3. t.out \in Seq(Byte)
  BY DEF Client
<1>4. CASE n = 0
  <2>1. w = [tcp |-> t, n |-> 0]
    BY <1>4 DEF Write
  <2>2. SubSeq(bytes, 1, n) = <<>>
    BY <1>4, SubSeqEmpty
  <2>3. t.out \o <<>> = t.out
    BY <1>3, ConcatEmptySeq
  <2> HIDE DEF w, n
  <2>4. w.tcp = t
    BY <2>1
  <2>5. w.tcp.out = t.out \o SubSeq(bytes, 1, n)
    BY <2>2, <2>3, <2>4
  <2> QED BY <1>1, <2>5 DEF w, n
<1>5. CASE n # 0
  <2>1. w = [tcp |-> queued, n |-> 0] \/ w = [tcp |-> sent, n |-> n]
    BY <1>2, <1>5, HowCases DEF Write, Sent
  <2> DEFINE o == t.out \o SubSeq(bytes, 1, n)
  <2>2. queued.out = o /\ sent.out = o
    BY DEF Client
  <2> HIDE DEF w, o, queued, sent, n
  <2>3. w.tcp.out = o
    BY <2>1, <2>2
  <2> QED BY <1>1, <2>3 DEF w, n, o
<1> QED BY <1>4, <1>5

\* A piece that fits is written whole, and the rest of the bytes is still to
\* come.
LEMMA PieceSent ==
  ASSUME NEW t \in Client, faults \in FaultSets, "nomem" \notin faults,
         NEW s \in Seq(Byte), NEW n \in 0..Len(s), n <= Space(t),
         NEW how \in Ends4Write
  PROVE  LET u == Write(t, SubSeq(s, 1, n), how).tcp IN
           /\ u.out \in Seq(Byte)
           /\ u.out \o SubSeq(s, n + 1, Len(s)) = t.out \o s
           /\ n = Len(s) => u.out = t.out \o s
<1> DEFINE piece == SubSeq(s, 1, n)
<1> DEFINE left == SubSeq(s, n + 1, Len(s))
<1> DEFINE u == Write(t, piece, how).tcp
<1>1. /\ piece \in Seq(Byte) /\ Len(piece) = n /\ left \in Seq(Byte)
      /\ piece \o left = s /\ n \in Nat /\ Len(s) \in Nat
  <2>1. piece \in Seq(Byte) /\ Len(piece) = n /\ left \in Seq(Byte)
    BY Cut
  <2>2. piece \o left = s
    BY CutIsWhole
  <2> HIDE DEF piece, left
  <2> QED BY <2>1, <2>2, LenProperties
<1>2. n = Len(s) => piece = s
  BY SubSeqFull
<1>3. t.out \in Seq(Byte) /\ Space(t) \in Int
  <2>1. t.out \in Seq(Byte) /\ t.queued \in 0..SndBuf
    BY DEF Client
  <2> QED BY <2>1, Sizes DEF Space
<1> HIDE DEF piece, left
<1>5. Lesser(Space(t), Len(piece)) = n
  BY <1>1, <1>3 DEF Lesser
<1>6. SubSeq(piece, 1, n) = piece
  BY <1>1, SubSeqFull
<1>7. u.out = t.out \o piece
  <2>1. Write(t, piece, how).tcp.out =
          t.out \o SubSeq(piece, 1, Lesser(Space(t), Len(piece)))
    BY <1>1, WriteAppends
  <2> QED BY <1>5, <1>6, <2>1
<1>8. (t.out \o piece) \o left = t.out \o (piece \o left)
  <2> DEFINE o == t.out
  <2>1. o \in Seq(Byte) /\ piece \in Seq(Byte) /\ left \in Seq(Byte)
    BY <1>1, <1>3
  <2> HIDE DEF o
  <2>2. (o \o piece) \o left = o \o (piece \o left)
    BY <2>1, ConcatAssociative
  <2> QED BY <2>2 DEF o
<1>9. u.out \in Seq(Byte)
  BY <1>1, <1>3, <1>7, ConcatProperties
<1> HIDE DEF u
<1>10. /\ u.out \in Seq(Byte) /\ u.out \o left = t.out \o s
       /\ n = Len(s) => u.out = t.out \o s
  BY <1>1, <1>2, <1>7, <1>8, <1>9
<1> QED BY <1>10 DEF left, piece, u

\* The first piece and what is left of it are the reply.
LEMMA RespondSends ==
  ASSUME NEW t \in Client, faults \in FaultSets, "nomem" \notin faults,
         NEW length \in ContentLengths, NEW how \in Ends4Write,
         NEW a, a = Respond(t, length, how)
  PROVE  /\ Reply(length) \in Seq(Byte)
         /\ a.tcp.out \in Seq(Byte)
         /\ a.resp.state = "WAIT_ACK" => a.tcp.out = t.out \o Reply(length)
         /\ a.resp.state = "CONTENT" =>
              a.tcp.out \o a.resp.content = t.out \o Reply(length)
<1> DEFINE whole == Reply(length)
<1> DEFINE fits == Space(t) >= Len(whole)
<1> DEFINE n == IF fits THEN Len(whole)
                ELSE IF Space(t) = HeadLength THEN 0 ELSE Space(t)
<1> DEFINE u == Write(t, SubSeq(whole, 1, n), how).tcp
<1>1. /\ length \in Nat /\ t.queued \in 0..SndBuf /\ SndBuf \in Nat
      /\ HeadLength \in Nat
  BY WebConnectionAssumption, Sizes DEF Client
<1>2. whole \in Seq(Byte) /\ Len(whole) \in Nat
  <2>1. Bytes("head", HeadLength) \in Seq(Byte) /\ Bytes("content", length) \in Seq(Byte)
    BY <1>1, BytesType
  <2> QED BY <2>1, ConcatProperties, LenProperties DEF Reply
<1>3. Space(t) \in Nat
  BY <1>1 DEF Space
<1>4. /\ a.tcp = u
      /\ a.resp.state = IF fits THEN "WAIT_ACK" ELSE "CONTENT"
      /\ ~fits => a.resp.content = SubSeq(whole, n + 1, Len(whole))
  BY DEF Respond
<1> HIDE DEF whole
<1>5. n \in 0..Len(whole) /\ n <= Space(t) /\ (fits => n = Len(whole))
  BY <1>2, <1>3
<1> HIDE DEF n, fits
<1>6. /\ u.out \in Seq(Byte)
      /\ u.out \o SubSeq(whole, n + 1, Len(whole)) = t.out \o whole
      /\ n = Len(whole) => u.out = t.out \o whole
  BY <1>2, <1>5, PieceSent
<1> HIDE DEF u
<1> QED BY <1>2, <1>4, <1>5, <1>6 DEF whole

\* So are the pieces that follow.
LEMMA AckSends ==
  ASSUME NEW t \in Client, faults \in FaultSets, "nomem" \notin faults,
         NEW r \in Response, Agree(r), Alive(r),
         NEW length \in Nat, NEW how \in Ends4Write,
         NEW whole \in Seq(Byte),
         r.state = "CONTENT" => t.out \o r.content = whole,
         r.state = "WAIT_ACK" => t.out = whole
  PROVE  LET a == Ack(t, r, length, how) IN
           /\ a.resp.state = "CONTENT" => a.tcp.out \o a.resp.content = whole
           /\ a.resp.state \in {"WAIT_ACK", "END"} => a.tcp.out = whole
           /\ a.resp.state \in {"CONTENT", "WAIT_ACK", "END"}
<1> SUFFICES ASSUME NEW a, a = Ack(t, r, length, how)
             PROVE  /\ a.resp.state = "CONTENT" =>
                         a.tcp.out \o a.resp.content = whole
                    /\ a.resp.state \in {"WAIT_ACK", "END"} => a.tcp.out = whole
                    /\ a.resp.state \in {"CONTENT", "WAIT_ACK", "END"}
  OBVIOUS
<1> DEFINE acked == r.ackedLength + length
<1> DEFINE available == r.contentLength - r.sentLength
<1> DEFINE n == IF Space(t) > available THEN available ELSE Space(t)
<1> DEFINE w == Write(t, SubSeq(r.content, 1, n), how)
<1> DEFINE u == w.tcp
<1>1. /\ Space(t) \in Nat /\ r.content \in Seq(Byte) /\ Len(r.content) \in Nat
  <2>1. r.content \in Seq(Byte) /\ t.queued \in 0..SndBuf
    BY DEF Response, Client
  <2>2. Space(t) \in Nat
    BY <2>1, Sizes DEF Space
  <2> QED BY <2>1, <2>2, LenProperties
<1>2. CASE r.state = "CONTENT"
  <2> DEFINE more == Space(t) > available
  <2> DEFINE left == SubSeq(r.content, n + 1, Len(r.content))
  <2>1. available = Len(r.content)
    BY <1>2 DEF Agree
  <2>2. /\ a.tcp = u
        /\ a.resp.state = IF more THEN "WAIT_ACK" ELSE "CONTENT"
        /\ ~more => a.resp.content = left
    <3> DEFINE sent == IF more THEN r.sentLength ELSE r.sentLength + n
    <3> DEFINE state == IF more THEN "WAIT_ACK" ELSE "CONTENT"
    <3> DEFINE rest == IF more THEN <<>> ELSE left
    <3> DEFINE q == [r EXCEPT !.state = state, !.content = rest,
                              !.sentLength = sent, !.ackedLength = acked,
                              !.writtenLength = @ + w.n]
    <3>1. a = [tcp |-> u, resp |-> q]
      BY <1>2 DEF Ack
    <3> HIDE DEF w, u, acked, available, n, more, sent, state, rest
    <3>2. q.state = state /\ q.content = rest
      BY DEF Response
    <3> HIDE DEF q
    <3>3. a.tcp = u /\ a.resp.state = state /\ a.resp.content = rest
      BY <3>1, <3>2
    <3> QED BY <3>3 DEF state, rest
  <2>3. /\ n \in 0..Len(r.content) /\ n <= Space(t)
        /\ more => n = Len(r.content)
    <3> HIDE DEF available
    <3> QED BY <1>1, <2>1
  <2> HIDE DEF n, available, more
  <2>4. /\ u.out \in Seq(Byte) /\ u.out \o left = t.out \o r.content
        /\ n = Len(r.content) => u.out = t.out \o r.content
    <3> DEFINE c == r.content
    <3>1. c \in Seq(Byte) /\ n \in 0..Len(c)
      BY <1>1, <2>3
    <3>4. u = Write(t, SubSeq(c, 1, n), how).tcp
      OBVIOUS
    <3>2. left = SubSeq(c, n + 1, Len(c))
      OBVIOUS
    <3> HIDE DEF c, left
    <3>3. /\ u.out \in Seq(Byte) /\ u.out \o SubSeq(c, n + 1, Len(c)) = t.out \o c
          /\ n = Len(c) => u.out = t.out \o c
      <4> HIDE DEF u
      <4> QED BY <2>3, <3>1, <3>4, PieceSent
    <3> QED BY <3>2, <3>3 DEF c
  <2> HIDE DEF u, left
  <2> QED BY <1>2, <2>2, <2>3, <2>4
<1>3. CASE r.state = "WAIT_ACK"
  <2>1. a.tcp = t /\ a.resp.state \in {"END", "WAIT_ACK"}
    <3> DEFINE state == IF acked >= r.writtenLength THEN "END" ELSE r.state
    <3> DEFINE q == [r EXCEPT !.state = state, !.ackedLength = acked]
    <3>1. a = [tcp |-> t, resp |-> q]
      BY <1>3 DEF Ack
    <3>2. state \in {"END", "WAIT_ACK"}
      BY <1>3
    <3> HIDE DEF state, acked
    <3>3. q.state = state
      BY DEF Response
    <3> HIDE DEF q
    <3> QED BY <3>1, <3>2, <3>3
  <2> QED BY <1>3, <2>1
<1> QED BY <1>2, <1>3 DEF Alive

\* Before the reply there is nothing, or "100 Continue".
LEMMA NothingYet ==
  ASSUME NEW p \in Seq(Byte)
  PROVE  /\ \E rest \in Seq(Byte) : <<>> \o rest = p \o <<>>
         /\ \E rest \in Seq(Byte) : p \o rest = p \o <<>>
<1>1. p \o <<>> = p /\ <<>> \o p = p
  BY ConcatEmptySeq
<1>2. <<>> \in Seq(Byte)
  OBVIOUS
<1> QED BY <1>1, <1>2

\* A step that sends nothing.
LEMMA NothingSent ==
  ASSUME BytesInv, PhaseInv', reply' = reply, faults' = faults,
         tcp'.out = tcp.out,
         \/ tcp'.queued = tcp.queued \/ tcp'.queued = 0 \/ ~NotBegun
         \/ "nomem" \in faults,
         \/ parseState' = parseState /\ expecting' = expecting
         \/ NotBegun /\ NotBegun',
         resp' = resp \/ resp' = NoResponse
  PROVE  BytesInv'
<1>1. NoResponse.state = "NULL"
  BY DEF NoResponse
<1>2. CASE parseState' = parseState /\ expecting' = expecting
  <2>1. Preamble' = Preamble /\ (NotBegun' <=> NotBegun)
    BY <1>2 DEF Preamble, NotBegun
  <2> QED BY <1>1, <1>2, <2>1 DEF BytesInv
<1>3. CASE NotBegun /\ NotBegun'
  <2> SUFFICES ASSUME "nomem" \notin faults
               PROVE  /\ tcp'.out = <<>> /\ tcp'.queued = 0 /\ reply = <<>>
                      /\ parseState' # "BODY" /\ resp'.state = "NULL"
                      /\ \E rest \in Seq(Byte) : <<>> \o rest = Preamble' \o <<>>
    BY DEF BytesInv
  <2>1. tcp'.out = <<>> /\ tcp'.queued = 0 /\ reply = <<>>
    BY <1>3 DEF BytesInv
  <2>2. parseState' # "BODY" /\ parseState' # "END"
    BY <1>3 DEF NotBegun
  <2>3. resp'.state = "NULL"
    BY <2>2 DEF PhaseInv
  <2>4. Preamble' \in Seq(Byte)
    <3>1. Lesser(SndBuf, ContinueLength) \in Nat
      BY Sizes DEF Lesser
    <3>2. Bytes("continue", Lesser(SndBuf, ContinueLength)) \in Seq(Byte)
      BY <3>1, BytesType
    <3> QED BY <3>2 DEF Preamble
  <2> QED BY <2>1, <2>2, <2>3, <2>4, NothingYet
<1> QED BY <1>2, <1>3

\* The reply starts on a client that has sent the preamble.
LEMMA ReplyStarts ==
  ASSUME NEW t \in Client, faults \in FaultSets, faults' = faults, ConnInv',
         Send(t), parseState' = "END",
         "nomem" \notin faults => t.out = Preamble'
  PROVE  BytesInv'
<1>1. PICK length \in ContentLengths, how \in Ends4Write :
        /\ tcp' = Respond(NotTimed(t), length, how).tcp
        /\ resp' = Respond(NotTimed(t), length, how).resp
        /\ reply' = Reply(length)
  BY DEF Send
<1> DEFINE u == NotTimed(t)
           a == Respond(u, length, how)
           whole == Preamble' \o reply'
<1>2. u \in Client /\ u.out = t.out
  BY DEF NotTimed, Client
<1>3. /\ tcp' = a.tcp /\ resp' = a.resp
      /\ a.resp.state \in {"WAIT_ACK", "CONTENT"}
  BY <1>1 DEF Respond
<1> HIDE DEF u
<1>4. reply' \in Seq(Byte)
  <2>1. length \in Nat /\ HeadLength \in Nat
    BY WebConnectionAssumption
  <2>2. Bytes("head", HeadLength) \in Seq(Byte) /\ Bytes("content", length) \in Seq(Byte)
    BY <2>1, BytesType
  <2> QED BY <1>1, <2>2, ConcatProperties DEF Reply
<1>5. ASSUME "nomem" \notin faults
      PROVE  /\ a.resp.state = "WAIT_ACK" => a.tcp.out = u.out \o Reply(length)
             /\ a.resp.state = "CONTENT" =>
                  a.tcp.out \o a.resp.content = u.out \o Reply(length)
  <2> HIDE DEF a
  <2>1. a = Respond(u, length, how)
    BY DEF a
  <2> QED BY <1>2, <1>5, <2>1, RespondSends
<1> HIDE DEF a
<1>6. tcp'.out \in Seq(Byte) /\ resp'.content \in Seq(Byte)
  BY DEF ConnInv, Client, Response
<1>7. ASSUME "nomem" \notin faults
      PROVE  /\ resp'.state = "WAIT_ACK" => tcp'.out = whole
             /\ resp'.state = "CONTENT" => tcp'.out \o resp'.content = whole
             /\ \E rest \in Seq(Byte) : tcp'.out \o rest = whole
  <2>1. u.out \o Reply(length) = whole
    BY <1>1, <1>2, <1>7
  <2> HIDE DEF whole
  <2>2. /\ resp'.state = "WAIT_ACK" => tcp'.out = whole
        /\ resp'.state = "CONTENT" => tcp'.out \o resp'.content = whole
    BY <1>3, <1>5, <1>7, <2>1
  <2>3. resp'.state = "WAIT_ACK" => tcp'.out \o <<>> = whole /\ <<>> \in Seq(Byte)
    BY <1>6, <2>2, ConcatEmptySeq
  <2> QED BY <1>3, <1>6, <2>2, <2>3
<1>8. ~NotBegun' /\ parseState' # "BODY"
  BY DEF NotBegun
<1> QED BY <1>3, <1>4, <1>7, <1>8 DEF BytesInv

\* A piece of it goes out.
LEMMA ReplyGoesOn ==
  ASSUME BytesInv, ConnInv, ConnInv', faults' = faults, reply' = reply,
         parseState' = parseState, expecting' = expecting,
         NEW t \in Client, t.out = tcp.out, Alive(resp),
         NEW length \in Nat, NEW how \in Ends4Write,
         tcp'.out = Ack(t, resp, length, how).tcp.out,
         resp' = Ack(t, resp, length, how).resp
  PROVE  BytesInv'
<1> DEFINE a == Ack(t, resp, length, how)
           whole == Preamble \o reply
<1>1. resp \in Response /\ Agree(resp) /\ faults \in FaultSets /\ PhaseInv
  BY DEF ConnInv
<1>2. parseState = "END"
  BY <1>1 DEF PhaseInv, Alive
<1>3. Preamble' = Preamble /\ ~NotBegun' /\ parseState' # "BODY"
  BY <1>2 DEF Preamble, NotBegun
<1>4. ASSUME "nomem" \notin faults
      PROVE  /\ resp'.state = "CONTENT" => tcp'.out \o resp'.content = whole
             /\ resp'.state \in {"WAIT_ACK", "END"} => tcp'.out = whole
             /\ resp'.state \in {"CONTENT", "WAIT_ACK", "END"}
  <2>1. /\ resp.state = "CONTENT" => t.out \o resp.content = whole
        /\ resp.state = "WAIT_ACK" => t.out = whole
    BY <1>4 DEF BytesInv
  <2>4. whole \in Seq(Byte)
    BY PreambleType, ConcatProperties DEF BytesInv
  <2> HIDE DEF a, whole
  <2>2. a = Ack(t, resp, length, how)
    BY DEF a
  <2>3. /\ a.resp.state = "CONTENT" => a.tcp.out \o a.resp.content = whole
        /\ a.resp.state \in {"WAIT_ACK", "END"} => a.tcp.out = whole
        /\ a.resp.state \in {"CONTENT", "WAIT_ACK", "END"}
    <3>1. LET b == Ack(t, resp, length, how) IN
            /\ b.resp.state = "CONTENT" => b.tcp.out \o b.resp.content = whole
            /\ b.resp.state \in {"WAIT_ACK", "END"} => b.tcp.out = whole
            /\ b.resp.state \in {"CONTENT", "WAIT_ACK", "END"}
      BY <1>1, <1>4, <2>1, <2>4, AckSends, Zenon
    <3> QED BY <2>2, <3>1
  <2> QED BY <2>2, <2>3
<1>5. tcp'.out \in Seq(Byte) /\ resp'.content \in Seq(Byte)
  BY DEF ConnInv, Client, Response
<1>6. ASSUME "nomem" \notin faults
      PROVE  \E rest \in Seq(Byte) : tcp'.out \o rest = whole
  <2> HIDE DEF whole
  <2>1. CASE resp'.state = "CONTENT"
    BY <1>4, <1>5, <1>6, <2>1
  <2>2. CASE resp'.state \in {"WAIT_ACK", "END"}
    <3>1. tcp'.out \o <<>> = whole /\ <<>> \in Seq(Byte)
      BY <1>4, <1>5, <1>6, <2>2, ConcatEmptySeq
    <3> QED BY <3>1
  <2> QED BY <1>4, <1>6, <2>1, <2>2
<1> QED BY <1>3, <1>4, <1>6 DEF BytesInv

\* Nothing is acknowledged before something was sent.
LEMMA NoneToAck ==
  ASSUME BytesInv, NEW n \in 1..tcp.queued
  PROVE  ~NotBegun \/ "nomem" \in faults
<1> SUFFICES ASSUME NotBegun, "nomem" \notin faults PROVE FALSE
  OBVIOUS
<1>1. tcp.queued = 0
  BY DEF BytesInv
<1>2. n \in 1..0
  BY <1>1
<1> QED BY <1>2

LEMMA ParserSendsNothing ==
  ASSUME BytesInv, ConnInv, ConnInv', Data \/ Read \/ Reject
  PROVE  BytesInv'
<1>1. tcp \in Client /\ PhaseInv'
  BY DEF ConnInv
<1>2. CASE Data
  <2>1. /\ tcp'.out = tcp.out /\ tcp'.queued = tcp.queued
        /\ reply' = reply /\ faults' = faults /\ resp' = resp
    BY <1>1, <1>2 DEF Data, Client
  <2>2. parseState' = parseState /\ expecting' = expecting
    BY <1>2 DEF Data, Segment, counts
  <2> QED BY <1>1, <2>1, <2>2, NothingSent
<1>3. CASE Read
  <2>1. tcp' = tcp /\ reply' = reply /\ faults' = faults /\ resp' = resp
    BY <1>3 DEF Read, replyVars
  <2>2. \/ parseState' = parseState /\ expecting' = expecting
        \/ NotBegun /\ NotBegun'
    BY <1>3 DEF Read, NoNewLine, RequestLine, Header, Ignore, NotBegun, counts
  <2> QED BY <1>1, <2>1, <2>2, NothingSent
<1>4. CASE Reject
  <2>1. /\ tcp'.out = tcp.out /\ tcp'.queued = tcp.queued
        /\ reply' = reply /\ faults' = faults /\ resp' = resp
    BY <1>1, <1>4 DEF Reject, Client
  <2>2. NotBegun /\ NotBegun'
    BY <1>4 DEF Reject, EmptyRequestLine, NotBegun
  <2> QED BY <1>1, <2>1, <2>2, NothingSent
<1> QED BY <1>2, <1>3, <1>4

\* "100 Continue", as much of it as the empty buffer takes.
LEMMA ContinueSent ==
  ASSUME ConnInv, "nomem" \notin faults, expecting,
         tcp.out = <<>>, tcp.queued = 0, NEW how \in Ends4Write
  PROVE  Write(tcp, Bytes("continue", ContinueLength), how).tcp.out = Preamble
<1> DEFINE b == Bytes("continue", ContinueLength)
           l == Lesser(SndBuf, ContinueLength)
<1>1. b \in Seq(Byte) /\ Len(b) = ContinueLength
  BY Sizes, BytesType
<1>2. tcp \in Client /\ faults \in FaultSets
  BY DEF ConnInv
<1>3. Space(tcp) = SndBuf
  BY Sizes DEF Space
<1>4. Lesser(Space(tcp), Len(b)) = l /\ l \in 0..ContinueLength
  BY <1>1, <1>3, Sizes DEF Lesser
<1>5. SubSeq(b, 1, l) = Bytes("continue", l)
  <2>1. l \in Nat /\ ContinueLength \in Nat /\ l <= ContinueLength
    BY <1>4, Sizes
  <2> HIDE DEF l
  <2>2. SubSeq(b, 1, l) = [i \in 1..l |-> b[1 + i - 1]]
    BY <1>1, <2>1
  <2>3. \A i \in 1..l : 1 + i - 1 = i /\ i \in 1..ContinueLength
    BY <2>1
  <2>4. \A i \in 1..l : b[1 + i - 1] = <<"continue", i>>
    BY <2>3 DEF Bytes
  <2> HIDE DEF b
  <2> QED BY <2>2, <2>4 DEF Bytes
<1>6. SubSeq(b, 1, l) \in Seq(Byte)
  BY <1>1, <1>4, Cut
<1> HIDE DEF b, l
<1>7. Write(tcp, b, how).tcp.out = tcp.out \o SubSeq(b, 1, l)
  BY <1>1, <1>2, <1>4, WriteAppends
<1>8. <<>> \o SubSeq(b, 1, l) = SubSeq(b, 1, l)
  BY <1>6, ConcatEmptySeq
<1>9. Preamble = Bytes("continue", l)
  BY DEF Preamble, l
<1> QED BY <1>5, <1>7, <1>8, <1>9 DEF b

LEMMA HeadersReadSends ==
  ASSUME BytesInv, ConnInv, ConnInv', HandledOnce, HandledOnce', HeadersRead
  PROVE  BytesInv'
<1>1. /\ EndOfHeaders /\ faults' = faults /\ parseState = "HEADERS"
      /\ expecting' = expecting
  BY DEF HeadersRead, EndOfHeaders, counts
<1>2. /\ tcp \in Client /\ faults \in FaultSets /\ PhaseInv /\ PhaseInv'
      /\ Owed(tcp) /\ resp.state = "NULL"
  BY <1>1 DEF ConnInv, PhaseInv
<1>3. /\ parseState' \in {"BODY", "END"}
      /\ calls' # calls <=> parseState' = "END"
  BY <1>1 DEF EndOfHeaders, HandledOnce
<1>4. Preamble' = Preamble
  BY <1>1 DEF Preamble
<1>5. "nomem" \notin faults => tcp.out = <<>> /\ tcp.queued = 0 /\ reply = <<>>
  BY <1>1 DEF BytesInv, NotBegun
<1>6. PICK t \in Client : /\ SendIfCalled(t)
                          /\ "nomem" \notin faults => t.out = Preamble
  <2>1. CASE expecting
    <3>1. PICK how \in Ends4Write :
            SendIfCalled(Write(tcp, Bytes("continue", ContinueLength), how).tcp)
      BY <2>1 DEF HeadersRead
    <3>2. Bytes("continue", ContinueLength) \in Seq(Byte)
      BY Sizes, BytesType
    <3>3. Write(tcp, Bytes("continue", ContinueLength), how).tcp \in Client
      BY <1>2, <3>2, WriteKeeps
    <3>4. "nomem" \notin faults =>
            Write(tcp, Bytes("continue", ContinueLength), how).tcp.out = Preamble
      BY <1>5, <2>1, ContinueSent
    <3> QED BY <3>1, <3>3, <3>4
  <2>2. CASE ~expecting
    <3>1. SendIfCalled(tcp)
      BY <2>2 DEF HeadersRead
    <3>2. Preamble = <<>>
      BY <2>2 DEF Preamble
    <3> QED BY <1>2, <1>5, <3>1, <3>2
  <2> QED BY <2>1, <2>2
<1>7. CASE parseState' = "END"
  <2>1. Send(t)
    BY <1>3, <1>6, <1>7 DEF SendIfCalled
  <2> QED BY <1>1, <1>2, <1>4, <1>6, <1>7, <2>1, ReplyStarts
<1>8. CASE parseState' = "BODY"
  <2>1. tcp' = t /\ resp' = resp /\ reply' = reply
    BY <1>3, <1>6, <1>8 DEF SendIfCalled
  <2>2. ~NotBegun' /\ resp'.state = "NULL"
    BY <1>2, <1>8, <2>1 DEF NotBegun
  <2>3. ASSUME "nomem" \notin faults
        PROVE  /\ tcp'.out = Preamble' /\ reply' = <<>>
               /\ \E rest \in Seq(Byte) : Preamble' \o rest = Preamble' \o <<>>
    <3>1. Preamble' \in Seq(Byte)
      BY <1>4, PreambleType
    <3> QED BY <1>4, <1>5, <1>6, <2>1, <2>3, <3>1, NothingYet
  <2>4. reply' \in Seq(Byte)
    BY <2>1 DEF BytesInv
  <2> QED BY <1>1, <1>8, <2>2, <2>3, <2>4 DEF BytesInv
<1> QED BY <1>3, <1>7, <1>8

LEMMA BodyReadSends ==
  ASSUME BytesInv, ConnInv, ConnInv', HandledOnce, HandledOnce', BodyRead
  PROVE  BytesInv'
<1>1. /\ Body /\ faults' = faults /\ parseState = "BODY" /\ SendIfCalled(tcp)
      /\ expecting' = expecting
  BY DEF BodyRead, Body
<1>2. tcp \in Client /\ faults \in FaultSets /\ PhaseInv'
  BY DEF ConnInv
<1>3. /\ parseState' \in {"BODY", "END"}
      /\ calls' # calls <=> parseState' = "END"
  BY <1>1 DEF Body, HandledOnce
<1>4. Preamble' = Preamble
  BY <1>1 DEF Preamble
<1>5. "nomem" \notin faults => tcp.out = Preamble
  BY <1>1 DEF BytesInv
<1>6. CASE parseState' = "END"
  <2>1. Send(tcp)
    BY <1>1, <1>3, <1>6 DEF SendIfCalled
  <2> QED BY <1>1, <1>2, <1>4, <1>5, <1>6, <2>1, ReplyStarts
<1>7. CASE parseState' = "BODY"
  <2>1. tcp' = tcp /\ resp' = resp /\ reply' = reply
    BY <1>1, <1>3, <1>7 DEF SendIfCalled
  <2> QED BY <1>1, <1>2, <1>7, <2>1, NothingSent
<1> QED BY <1>3, <1>6, <1>7

LEMMA AckSendsOn ==
  ASSUME BytesInv, ConnInv, ConnInv', AckPart \/ AckAll
  PROVE  BytesInv'
<1>1. /\ faults' = faults /\ reply' = reply
      /\ parseState' = parseState /\ expecting' = expecting
  BY DEF AckPart, AckAll, requestVars, counts
<1>2. tcp \in Client /\ PhaseInv'
  BY DEF ConnInv
<1>3. ASSUME NEW n \in 1..tcp.queued
      PROVE  Acked(n).out = tcp.out /\ Acked(n) \in Client
  <2>1. Acked(n).out = tcp.out
    BY <1>2 DEF Acked, Client
  <2> QED BY <2>1, AckedIs
<1>4. CASE AckPart
  <2>1. PICK n \in 1..tcp.queued : tcp' = Acked(n)
    BY <1>4 DEF AckPart
  <2>2. resp' = resp
    BY <1>4 DEF AckPart
  <2> QED BY <1>1, <1>2, <1>3, <2>1, <2>2, NoneToAck, NothingSent
<1>5. CASE AckAll
  <2>1. PICK n \in 1..tcp.queued, how \in Ends4Write :
       LET t == [Acked(n) EXCEPT !.busy = FALSE]
           a == IF Alive(resp) THEN Ack(t, resp, t.acked, how)
                ELSE [tcp |-> t, resp |-> NoResponse]
       IN tcp' = [a.tcp EXCEPT !.acked = 0] /\ resp' = a.resp
    BY <1>5 DEF AckAll
  <2> DEFINE t == [Acked(n) EXCEPT !.busy = FALSE]
             a == IF Alive(resp) THEN Ack(t, resp, t.acked, how)
                  ELSE [tcp |-> t, resp |-> NoResponse]
  <2>2. tcp' = [a.tcp EXCEPT !.acked = 0] /\ resp' = a.resp
    BY <2>1
  <2>3. t \in Client /\ t.out = tcp.out /\ t.acked \in Nat
    <3> DEFINE b == Acked(n)
    <3>1. b \in Client /\ b.out = tcp.out
      BY <1>3
    <3> HIDE DEF b
    <3> QED BY <3>1 DEF b, Client
  <2> HIDE DEF t
  <2>4. CASE Alive(resp)
    <3>1. a = Ack(t, resp, t.acked, how)
      BY <2>4
    <3> HIDE DEF a
    <3>2. tcp' \in Client /\ tcp' = [a.tcp EXCEPT !.acked = 0]
      BY <2>2 DEF ConnInv
    <3>3. tcp'.out = a.tcp.out
      <4> DEFINE c == a.tcp
      <4> HIDE DEF c
      <4>1. tcp' \in Client /\ tcp' = [c EXCEPT !.acked = 0]
        BY <3>2 DEF c
      <4>2. "out" \in DOMAIN tcp' /\ DOMAIN tcp' = DOMAIN c
        BY <4>1 DEF Client
      <4>3. tcp'.out = c.out
        BY <4>1, <4>2
      <4> QED BY <4>3 DEF c
    <3> DEFINE m == t.acked
    <3>4. /\ m \in Nat /\ tcp'.out = Ack(t, resp, m, how).tcp.out
          /\ resp' = Ack(t, resp, m, how).resp
      BY <2>2, <2>3, <3>1, <3>3
    <3> HIDE DEF m
    <3> QED BY <1>1, <2>3, <2>4, <3>4, ReplyGoesOn
  <2>5. CASE ~Alive(resp)
    <3>1. a = [tcp |-> t, resp |-> NoResponse]
      BY <2>5
    <3> HIDE DEF a
    <3>2. a.tcp = t /\ resp' = NoResponse
      BY <2>2, <3>1
    <3>3. tcp'.out = tcp.out
      BY <2>2, <2>3, <3>2 DEF Client
    <3> QED BY <1>1, <1>2, <3>2, <3>3, NoneToAck, NothingSent
  <2> QED BY <2>4, <2>5
<1> QED BY <1>4, <1>5

LEMMA TimeSends ==
  ASSUME BytesInv, ConnInv, ConnInv', Poll \/ PeerCloses \/ PeerResets
  PROVE  BytesInv'
<1>1. /\ faults' = faults /\ reply' = reply
      /\ parseState' = parseState /\ expecting' = expecting
  BY DEF Poll, PeerCloses, PeerResets, requestVars, counts
<1>2. tcp \in Client /\ PhaseInv'
  BY DEF ConnInv
<1>3. /\ Tick \in Client /\ Tick.out = tcp.out /\ Tick.queued = tcp.queued
  <2>1. Tick.out = tcp.out
    BY <1>2 DEF Tick, Client
  <2> QED BY <1>2, <2>1, TickIs
<1>4. CASE PollCloses \/ PollRxTimeout \/ PeerCloses \/ PeerResets
  <2>1. /\ resp' = NoResponse
        /\ \/ tcp' = [tcp EXCEPT !.open = FALSE]
           \/ tcp' = [tcp EXCEPT !.open = FALSE, !.queued = 0]
    BY <1>4 DEF PollCloses, PollRxTimeout, PeerCloses, PeerResets, Close
  <2>2. tcp'.out = tcp.out /\ (tcp'.queued = tcp.queued \/ tcp'.queued = 0)
    BY <1>2, <2>1 DEF Client
  <2> QED BY <1>1, <1>2, <2>1, <2>2, NothingSent
<1>5. CASE PollAckTimeout
  <2>1. resp' = resp /\ tcp' = [Tick EXCEPT !.busy = FALSE, !.closing = TRUE]
    BY <1>5 DEF PollAckTimeout
  <2>2. tcp'.out = Tick.out /\ tcp'.queued = Tick.queued
    BY <1>3, <2>1 DEF Client
  <2> QED BY <1>1, <1>2, <1>3, <2>1, <2>2, NothingSent
<1>6. CASE PollGoesOn
  <2>1. CASE Alive(resp) /\ CanSend(tcp)
    <3>1. PICK how \in Ends4Write :
            /\ tcp' = Ack(Tick, resp, 0, how).tcp
            /\ resp' = Ack(Tick, resp, 0, how).resp
      BY <1>6, <2>1 DEF PollGoesOn
    <3>2. tcp'.out = Ack(Tick, resp, 0, how).tcp.out /\ 0 \in Nat
      BY <3>1
    <3> QED BY <1>1, <1>3, <2>1, <3>1, <3>2, ReplyGoesOn
  <2>2. CASE ~(Alive(resp) /\ CanSend(tcp))
    <3>1. tcp' = Tick /\ resp' = resp
      BY <1>6, <2>2 DEF PollGoesOn
    <3> QED BY <1>1, <1>2, <1>3, <3>1, NothingSent
  <2> QED BY <2>1, <2>2
<1> QED BY <1>4, <1>5, <1>6 DEF Poll

LEMMA BytesStep ==
  BytesInv /\ ConnInv /\ ConnInv' /\ HandledOnce /\ HandledOnce'
    /\ [ConnectionNext]_vars => BytesInv'
<1> SUFFICES ASSUME BytesInv, ConnInv, ConnInv', HandledOnce, HandledOnce',
                    [ConnectionNext]_vars
             PROVE  BytesInv'
  OBVIOUS
<1>1. CASE Data \/ Read \/ Reject             BY <1>1, ParserSendsNothing
<1>2. CASE HeadersRead                        BY <1>2, HeadersReadSends
<1>3. CASE BodyRead                           BY <1>3, BodyReadSends
<1>4. CASE AckPart \/ AckAll                  BY <1>4, AckSendsOn
<1>5. CASE Poll \/ PeerCloses \/ PeerResets   BY <1>5, TimeSends
<1>6. CASE UNCHANGED vars
  <2>1. /\ tcp' = tcp /\ resp' = resp /\ reply' = reply /\ faults' = faults
        /\ parseState' = parseState /\ expecting' = expecting
    BY <1>6 DEF vars, replyVars, requestVars, counts
  <2>2. PhaseInv'
    BY DEF ConnInv
  <2> QED BY <2>1, <2>2, NothingSent
<1> QED BY <1>1, <1>2, <1>3, <1>4, <1>5, <1>6 DEF ConnectionNext, OnData

LEMMA InitBytes == ConnectionInit => BytesInv
<1> SUFFICES ASSUME ConnectionInit PROVE BytesInv
  OBVIOUS
<1>1. /\ tcp.out = <<>> /\ tcp.queued = 0 /\ reply = <<>> /\ resp = NoResponse
      /\ parseState = "START"
  BY DEF ConnectionInit, Init
<1>2. resp.state = "NULL"
  BY <1>1, NoResponseType
<1>3. \E rest \in Seq(Byte) : <<>> \o rest = Preamble \o <<>>
  BY PreambleType, NothingYet
<1>4. <<>> \in Seq(Byte) /\ parseState # "BODY"
  BY <1>1
<1> QED BY <1>1, <1>2, <1>3, <1>4 DEF BytesInv

\* However the send buffer cuts the reply into pieces, and whatever sends
\* them, no byte of it is lost, repeated or out of order (_respond() and
\* _ack() of WebResponses.cpp, write() of ESPAsyncTCP.cpp).
THEOREM ReplyAlwaysUnbroken == ConnectionSpec => []ReplyUnbroken
<1>1. ConnInv /\ BytesInv => ReplyUnbroken
  <2> SUFFICES ASSUME ConnInv, BytesInv, "nomem" \notin faults
               PROVE  /\ IsPrefix(tcp.out, Preamble \o reply)
                      /\ resp.state = "CONTENT" =>
                           tcp.out \o resp.content = Preamble \o reply
                      /\ resp.state \in {"WAIT_ACK", "END"} =>
                           tcp.out = Preamble \o reply
    BY DEF ReplyUnbroken
  <2>1. PICK rest \in Seq(Byte) : tcp.out \o rest = Preamble \o reply
    BY DEF BytesInv
  <2>2. tcp.out \in Seq(Byte)
    BY DEF ConnInv, Client
  <2>3. IsPrefix(tcp.out, tcp.out \o rest)
    BY <2>2, PrefixOf
  <2>4. IsPrefix(tcp.out, Preamble \o reply)
    BY <2>1, <2>3
  <2> QED BY <2>4 DEF BytesInv
<1>2. BytesInv /\ ConnInv /\ ConnInv' /\ HandledOnce /\ HandledOnce'
        /\ [ConnectionNext]_vars => BytesInv'
  BY BytesStep
<1> QED BY <1>1, <1>2, InitBytes, ConnectionInvariant, ConnectionHandledOnce, PTL
        DEF ConnectionSpec

=============================================================================
