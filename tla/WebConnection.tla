--------------------------- MODULE WebConnection ---------------------------
(***************************************************************************)
(* One connection to the web server, from accept() to the end: the request *)
(* (module WebRequest), the reply (AsyncBasicResponse of WebResponses.cpp) *)
(* and the transport under both (AsyncClient of ESPAsyncTCP.cpp, over      *)
(* lwIP).                                                                  *)
(*                                                                         *)
(* Everything runs in lwIP callbacks, one at a time: a segment, an         *)
(* acknowledgement, the end of the connection, and a poll every half       *)
(* second.  The reply goes out in as many pieces as the send buffer        *)
(* forces: the first from the handler, the others from acknowledgements    *)
(* and polls.                                                              *)
(***************************************************************************)
EXTENDS WebRequest

CONSTANTS
  SndBuf,          \* bytes lwIP buffers until they are acknowledged
  HeadLength,      \* bytes of the head of a reply
  ContentLengths,  \* bytes of content a handler may reply
  ContinueLength,  \* bytes of "HTTP/1.1 100 Continue"
  RxTicks,         \* polls in the 3 s of setRxTimeout(3)
  AckTicks,        \* polls in ASYNC_MAX_ACK_TIME
  SizeT,           \* one more than the largest size_t
  FaultSets        \* what may fail: tcp_write() ("nomem"), tcp_output()
                   \* ("noroute"), none of them

ASSUME WebConnectionAssumption ==
  /\ {SndBuf, HeadLength, ContinueLength, RxTicks, AckTicks} \subseteq Nat \ {0}
  /\ ContentLengths \subseteq Nat
  /\ SizeT \in Nat /\ SizeT > SndBuf
  /\ FaultSets \subseteq SUBSET {"nomem", "noroute"}

VARIABLES
  tcp,    \* the AsyncClient: open (_pcb), closing (_close_pcb), busy
          \* (_pcb_busy), unacked, acked (_tx_..._len), rxTimeout; the polls
          \* since _rx_last_packet (quiet) and since _pcb_sent_at (waiting);
          \* and lwIP's side: the bytes written (out) and how many of them
          \* are not yet acknowledged (queued)
  resp,   \* the AsyncBasicResponse
  reply,  \* the reply the handler gave
  faults, \* what may fail on this connection
  peer,   \* "here", or "gone" when it has closed or reset the connection
  owedFor \* history: the polls for which the peer has owed acknowledgements,
          \* counted from the last bytes lwIP was given, up to AckTicks

replyVars == <<tcp, resp, reply, peer, faults>>
vars == <<requestVars, replyVars, owedFor>>

Bytes(kind, n) == [i \in 1..n |-> <<kind, i>>]
Reply(n) == Bytes("head", HeadLength) \o Bytes("content", n)

Lesser(a, b) == IF a < b THEN a ELSE b

NoResponse == [state |-> "NULL", content |-> <<>>, contentLength |-> 0,
               sentLength |-> 0, ackedLength |-> 0, writtenLength |-> 0]

\* A connection has just been accepted: onClient() of AsyncWebServer.
ConnectionInit ==
  /\ Init
  /\ tcp = [open |-> TRUE, closing |-> FALSE, busy |-> FALSE, unacked |-> 0,
            acked |-> 0, rxTimeout |-> TRUE, quiet |-> 0, waiting |-> 0,
            out |-> <<>>, queued |-> 0]
  /\ resp = NoResponse
  /\ reply = <<>>
  /\ peer = "here"
  /\ faults \in FaultSets
  /\ owedFor = 0

\* No callback is running, and another may come.
Ready == tcp.open /\ seg = <<>>

\* What lwIP sees of a step that takes so many polls, for owedFor: it was
\* given bytes, or all it was given has been acknowledged, or neither.
Elapse(polls) ==
  owedFor' = IF tcp'.out # tcp.out \/ tcp'.queued = 0 THEN 0
             ELSE Lesser(owedFor + polls, AckTicks)

-----------------------------------------------------------------------------
(* AsyncClient: sending                                                    *)

\* space().  Mutant: what is not yet acknowledged does not count.
SpaceOfBuffer(t) == SndBuf
Space(t) == SndBuf - t.queued

\* canSend()
CanSend(t) == ~t.busy /\ Space(t) > 0

\* How a write may end.
Ends4Write == {"sent"} \cup faults

\* send() when tcp_output() works.  Mutant: _pcb_sent_at is left as it was.
SentBefore(t, n) ==
  [t EXCEPT !.busy = TRUE, !.unacked = (@ + n) % SizeT]
Sent(t, n) ==
  [t EXCEPT !.busy = TRUE, !.waiting = 0, !.unacked = (@ + n) % SizeT]

\* AsyncClient::write(): what becomes of the client, and the bytes it says
\* were sent.  When tcp_output() fails lwIP has the bytes and sends them
\* later, but the client does not count them.
Write(t, bytes, how) ==
  LET n == Lesser(Space(t), Len(bytes))
      queued == [t EXCEPT !.out = @ \o SubSeq(bytes, 1, n), !.queued = @ + n]
  IN CASE n = 0 \/ how = "nomem" -> [tcp |-> t, n |-> 0]
       [] n # 0 /\ how = "noroute" -> [tcp |-> queued, n |-> 0]
       [] n # 0 /\ how = "sent" ->
            [tcp |-> Sent(queued, n), n |-> n]

-----------------------------------------------------------------------------
(* AsyncBasicResponse                                                      *)

\* The bytes of the head that n bytes do not cover, and those of the content
\* that they do.  Mutant of LeftOfHead: forgotten in _contentLength.
LeftOfHeadForgotten(n) == 0
LeftOfHead(n) == IF n < HeadLength THEN HeadLength - n ELSE 0
PastHead(n)   == IF n > HeadLength THEN n - HeadLength ELSE 0

\* _respond(): all of the reply if it fits, else what fits.  A buffer that
\* holds exactly the head of a reply with content is left empty, as a full
\* one is.
Respond(t, length, how) ==
  LET whole == Reply(length)
      fits  == Space(t) >= Len(whole)
      n     == IF fits THEN Len(whole)
               ELSE IF Space(t) = HeadLength THEN 0 ELSE Space(t)
      w     == Write(t, SubSeq(whole, 1, n), how)
  IN [tcp  |-> w.tcp,
      resp |-> [state |-> IF fits THEN "WAIT_ACK" ELSE "CONTENT",
                content |-> IF fits THEN Bytes("content", length)
                            ELSE SubSeq(whole, n + 1, Len(whole)),
                contentLength |-> IF fits THEN length ELSE length + LeftOfHead(n),
                sentLength |-> IF fits THEN 0 ELSE PastHead(n),
                ackedLength |-> 0,
                writtenLength |-> w.n]]

\* Mutant of Ack: the piece that was sent is cut off the wrong end.
AckRepeats(t, r, length, how) ==
  LET n == Lesser(Space(t), Len(r.content))
      w == Write(t, SubSeq(r.content, 1, n), how)
  IN [tcp  |-> w.tcp,
      resp |-> [r EXCEPT !.content = SubSeq(@, 1, Len(@) - n),
                         !.sentLength = @ + n]]

\* _ack(): the next piece of the content, or the end of the reply.
Ack(t, r, length, how) ==
  LET acked == r.ackedLength + length
      available == r.contentLength - r.sentLength
      n == IF Space(t) > available THEN available ELSE Space(t)
      w == Write(t, SubSeq(r.content, 1, n), how)
  IN CASE r.state = "CONTENT" ->
            [tcp  |-> w.tcp,
             resp |-> [r EXCEPT
               !.state = IF Space(t) > available THEN "WAIT_ACK" ELSE "CONTENT",
               !.content = IF Space(t) > available THEN <<>>
                           ELSE SubSeq(@, n + 1, Len(@)),
               !.sentLength = IF Space(t) > available THEN @ ELSE @ + n,
               !.ackedLength = acked,
               !.writtenLength = @ + w.n]]
       [] r.state = "WAIT_ACK" ->
            [tcp  |-> t,
             resp |-> [r EXCEPT
               !.state = IF acked >= r.writtenLength THEN "END" ELSE @,
               !.ackedLength = acked]]

\* A response that is there and not _finished().  Mutant: _finished() is
\* true from the first write on.
AliveBefore(r) == r.state = "WAIT_ACK"
Alive(r) == r.state \in {"CONTENT", "WAIT_ACK"}

\* setRxTimeout(0): from now on the peer may be silent.
NotTimed(t) == [t EXCEPT !.rxTimeout = FALSE]

\* AsyncWebServerRequest::send(), called by the handler
Send(t) ==
  \E length \in ContentLengths, how \in Ends4Write :
    LET r == Respond(NotTimed(t), length, how) IN
      /\ tcp' = r.tcp
      /\ resp' = r.resp
      /\ reply' = Reply(length)

-----------------------------------------------------------------------------
(* A segment: _recv(), _onData()                                           *)

Data ==
  /\ Ready
  /\ \E n \in 1..Len(wire) : Segment(n)
  /\ tcp' = [tcp EXCEPT !.quiet = 0]
  /\ UNCHANGED <<resp, reply, peer, faults, owedFor>>

Read ==
  /\ NoNewLine \/ RequestLine \/ Header \/ Ignore
  /\ UNCHANGED replyVars

Reject ==
  /\ EmptyRequestLine
  /\ tcp' = [tcp EXCEPT !.closing = TRUE]
  /\ UNCHANGED <<resp, reply, peer, faults>>

\* Reply if the handler was called.
SendIfCalled(t) ==
  IF calls' # calls THEN Send(t) ELSE tcp' = t /\ UNCHANGED <<resp, reply>>

\* "100 Continue" goes out before the body is read, or the reply sent.
HeadersRead ==
  /\ EndOfHeaders
  /\ IF expecting
     THEN \E how \in Ends4Write :
            SendIfCalled(Write(tcp, Bytes("continue", ContinueLength), how).tcp)
     ELSE SendIfCalled(tcp)
  /\ UNCHANGED <<peer, faults>>

BodyRead ==
  /\ Body
  /\ SendIfCalled(tcp)
  /\ UNCHANGED <<peer, faults>>

OnData == (Read \/ Reject \/ HeadersRead \/ BodyRead) /\ Elapse(0)

-----------------------------------------------------------------------------
(* An acknowledgement: _sent(), _onAck()                                   *)

\* _tx_unacked_len -= len, in size_t
Less(a, b) == IF b <= a THEN a - b ELSE a - b + SizeT

Acked(n) ==
  [tcp EXCEPT !.quiet = 0, !.queued = @ - n, !.acked = @ + n,
              !.unacked = Less(@, n)]

\* Some bytes are still to be acknowledged: the request is not told.
AckPart ==
  /\ Ready
  /\ \E n \in 1..tcp.queued : Acked(n).unacked # 0 /\ tcp' = Acked(n)
  /\ Elapse(0)
  /\ UNCHANGED <<requestVars, resp, reply, peer, faults>>

\* Mutant of AckAll: the response is told of every acknowledgement.
AckAnyIsTold ==
  /\ Ready
  /\ \E n \in 1..tcp.queued, how \in Ends4Write :
       LET t == [Acked(n) EXCEPT !.busy = FALSE]
           a == IF Alive(resp) THEN Ack(t, resp, n, how)
                ELSE [tcp |-> t, resp |-> NoResponse]
       IN tcp' = a.tcp /\ resp' = a.resp
  /\ Elapse(0)
  /\ UNCHANGED <<requestVars, reply, peer, faults>>

\* All are: the response goes on, or is deleted when it has finished.
AckAll ==
  /\ Ready
  /\ \E n \in 1..tcp.queued, how \in Ends4Write :
       LET t == [Acked(n) EXCEPT !.busy = FALSE]
           a == IF Alive(resp) THEN Ack(t, resp, t.acked, how)
                ELSE [tcp |-> t, resp |-> NoResponse]
       IN /\ t.unacked = 0
          /\ tcp' = [a.tcp EXCEPT !.acked = 0]
          /\ resp' = a.resp
  /\ Elapse(0)
  /\ UNCHANGED <<requestVars, reply, peer, faults>>

-----------------------------------------------------------------------------
(* A poll: _poll(), _onPoll()                                              *)

\* The connection is closed; request and response are deleted with it.
Close == tcp' = [tcp EXCEPT !.open = FALSE] /\ resp' = NoResponse

\* A poll, and half a second has passed.
Tick == [tcp EXCEPT !.quiet = Lesser(@ + 1, RxTicks),
                    !.waiting = Lesser(@ + 1, AckTicks)]

\* Mutant of PeerIsQuiet: looked at only while something is under way.
PeerIsQuietIfBusy == tcp.busy /\ tcp.rxTimeout /\ Tick.quiet = RxTicks

AckIsLate   == tcp.busy /\ Tick.waiting = AckTicks
PeerIsQuiet == tcp.rxTimeout /\ Tick.quiet = RxTicks

\* close() was called before.
PollCloses == Ready /\ tcp.closing /\ Close

\* ACK Timeout: _onTimeout() asks for the connection to be closed.
PollAckTimeout ==
  /\ Ready /\ ~tcp.closing /\ AckIsLate
  /\ tcp' = [Tick EXCEPT !.busy = FALSE, !.closing = TRUE]
  /\ UNCHANGED resp

\* RX Timeout
PollRxTimeout == Ready /\ ~tcp.closing /\ ~AckIsLate /\ PeerIsQuiet /\ Close

\* Everything is fine: a response that is not waiting for an
\* acknowledgement goes on.
PollGoesOn ==
  /\ Ready /\ ~tcp.closing /\ ~AckIsLate /\ ~PeerIsQuiet
  /\ IF Alive(resp) /\ CanSend(tcp)
     THEN \E how \in Ends4Write :
            LET a == Ack(Tick, resp, 0, how) IN tcp' = a.tcp /\ resp' = a.resp
     ELSE tcp' = Tick /\ UNCHANGED resp

Poll ==
  /\ PollCloses \/ PollAckTimeout \/ PollRxTimeout \/ PollGoesOn
  /\ Elapse(1)
  /\ UNCHANGED <<requestVars, reply, peer, faults>>

-----------------------------------------------------------------------------
(* The peer leaves                                                         *)

\* Its FIN arrives (_recv() without data); what is queued is still sent.
PeerCloses ==
  /\ Ready
  /\ Close
  /\ peer' = "gone"
  /\ Elapse(0)
  /\ UNCHANGED <<requestVars, reply, faults>>

\* lwIP reports an error (_error()); what is queued is lost.
PeerResets ==
  /\ Ready
  /\ tcp' = [tcp EXCEPT !.open = FALSE, !.queued = 0]
  /\ resp' = NoResponse
  /\ peer' = "gone"
  /\ Elapse(0)
  /\ UNCHANGED <<requestVars, reply, faults>>

ConnectionNext ==
  \/ Data \/ OnData \/ AckPart \/ AckAll \/ Poll \/ PeerCloses \/ PeerResets

ConnectionSpec == ConnectionInit /\ [][ConnectionNext]_vars

\* lwIP polls an open connection again and again, and a callback runs to its
\* end.  Nothing is assumed of the peer.
FairConnectionSpec ==
  ConnectionSpec /\ WF_vars(Poll) /\ WF_vars(OnData)

-----------------------------------------------------------------------------
(* Properties                                                              *)

States == {"NULL", "CONTENT", "WAIT_ACK", "END"}

\* Every variable keeps to its type.
ConnectionTypeOK ==
  /\ TypeOK
  /\ tcp.open \in BOOLEAN /\ tcp.closing \in BOOLEAN /\ tcp.busy \in BOOLEAN
  /\ tcp.rxTimeout \in BOOLEAN
  /\ tcp.queued \in 0..SndBuf
  /\ tcp.unacked \in 0..SizeT - 1 /\ tcp.acked \in Nat
  /\ tcp.quiet \in 0..RxTicks /\ tcp.waiting \in 0..AckTicks
  /\ resp.state \in States
  /\ {resp.contentLength, resp.sentLength, resp.ackedLength,
      resp.writtenLength} \subseteq Nat
  /\ peer \in {"here", "gone"}
  /\ owedFor \in 0..AckTicks

\* What goes out before the reply: "100 Continue", if the request asked for
\* it, cut to what the empty send buffer takes.
Preamble ==
  IF expecting THEN Bytes("continue", Lesser(SndBuf, ContinueLength)) ELSE <<>>

\* In whatever pieces the reply goes out (_respond(), _ack()), nothing of it
\* is lost, repeated or out of order between the pieces, and nothing but
\* "100 Continue" is before it.  Needs a tcp_write() that does not fail:
\* _ack() has cut off the content what was not written.
ReplyUnbroken ==
  "nomem" \notin faults =>
    /\ IsPrefix(tcp.out, Preamble \o reply)
    /\ resp.state = "CONTENT" => tcp.out \o resp.content = Preamble \o reply
    /\ resp.state \in {"WAIT_ACK", "END"} => tcp.out = Preamble \o reply

\* _ack() takes as many bytes from _content as its two counters say are left;
\* they agree although _respond() counts the head into one of them only, and
\* whatever fails.
LengthsAgree ==
  resp.state = "CONTENT" =>
    resp.contentLength - resp.sentLength = Len(resp.content)

\* The acknowledgement timer runs exactly while lwIP waits for one, until it
\* has expired, whatever was written in between ("100 Continue", pieces from
\* polls and from acknowledgements).  Needs a tcp_output() that works: the
\* bytes it was not called for are not counted, but their acknowledgement is.
TimerRunsWhileOwed ==
  "noroute" \notin faults /\ tcp.open /\ ~tcp.closing =>
    tcp.unacked = tcp.queued /\ (tcp.busy <=> tcp.queued > 0)

\* A response has finished only when every byte of the connection has been
\* acknowledged, "100 Continue" included, though _ack() adds these bytes up
\* as if they were the reply's.
FinishedIsAcked ==
  "noroute" \notin faults /\ resp.state = "END" => tcp.queued = 0

\* The server cuts a peer off, from the first byte of "100 Continue" on, only
\* when some of what it was given is still not acknowledged and the whole of
\* ASYNC_MAX_ACK_TIME has passed since anything was given to it: whatever is
\* written and acknowledged in between, each write gives the peer its time
\* again, and nothing else closes a connection whose handler was called.  (An
\* acknowledgement of a part does not give it more time.)  Needs a
\* tcp_output() that works.
SlowPeerIsNotCut ==
  [][("noroute" \notin faults) =>
       /\ tcp'.closing /\ ~tcp.closing =>
            owedFor' = AckTicks \/ parseState' = "FAIL"
       /\ calls # <<>> /\ tcp.open /\ ~tcp'.open =>
            tcp.closing \/ peer' = "gone"]_vars

\* The handler's reply goes out whole, unless the connection is closed: no
\* piece waits for an acknowledgement or a poll that does not come.
ReplyGoesOut ==
  faults = {} => (calls # <<>> ~> (tcp.out = Preamble \o reply \/ ~tcp.open))

\* A peer that does not complete its request is dropped, whatever fails.
RequestOrClosed == <>(calls # <<>> \/ ~tcp.open)

-----------------------------------------------------------------------------
(* What the documentation says, and the program does not do                *)

\* "When the Response is sent, the client is closed and freed from the
\* memory" (README.md of ESPAsyncWebServer)
ClosedWhenSent == resp.state = "END" ~> ~tcp.open

=============================================================================
