----------------------------- MODULE WebRequest -----------------------------
(***************************************************************************)
(* How ESPAsyncWebServer puts one HTTP request together again              *)
(* (WebRequest.cpp: _onData(), _parseLine() and what they call).           *)
(*                                                                         *)
(* TCP hands the request over in segments that may be cut anywhere, in the *)
(* middle of a line, between CR and LF, inside the body.  _onData() runs   *)
(* once per segment and loops over its lines; a step of this module is one *)
(* round of that loop, and seg is the part of the segment still to do.     *)
(*                                                                         *)
(* A line of text x is the two pieces <<x, 1>>, <<x, 2>>, so that it can   *)
(* be cut.  What the body says is left out: the handlers of the sketch     *)
(* read none of it.                                                        *)
(***************************************************************************)
EXTENDS Integers, Sequences, SequencesExt

CONSTANTS
  Requests      \* what the peer may send: [head, length, expect, body], the
                \* request line ("" for an empty one), the Content-Length
                \* (0: no such header), whether "Expect: 100-continue" is
                \* among the headers, and the bytes sent after the headers

ASSUME WebRequestAssumption ==
  Requests \subseteq [head: STRING, length: Nat, expect: BOOLEAN, body: Nat]

VARIABLES
  request,        \* what this peer sends
  wire,           \* the part of it still under way
  seg,            \* buf, len: the part of the segment still to be parsed
  temp,           \* String _temp: a line not yet complete
  parseState,     \* _parseState
  head,           \* _url and _params, "" while there are none
  contentLength,  \* _contentLength
  parsedLength,   \* _parsedLength
  expecting,      \* _expectingContinue
  calls           \* the calls of handleRequest() so far

line   == <<temp, head>>
counts == <<contentLength, parsedLength, expecting>>
requestVars == <<request, wire, seg, line, parseState, counts, calls>>

CR == <<"cr", 0>>
LF == <<"lf", 0>>

\* A piece of text is <<kind, value, part>>.
Line(kind, value) == <<<<kind, value, 1>>, <<kind, value, 2>>, CR, LF>>

\* What the peer sends for request q.
Stream(q) ==
  (IF q.head = "" THEN <<CR, LF>> ELSE Line("head", q.head))
  \o (IF q.length = 0 THEN <<>> ELSE Line("length", q.length))
  \o (IF q.expect THEN Line("expect", 0) ELSE <<>>)
  \o <<CR, LF>>
  \o [i \in 1..q.body |-> <<"body", i>>]

Init ==
  /\ request \in Requests
  /\ wire = Stream(request)
  /\ seg = <<>>
  /\ temp = <<>> /\ head = ""
  /\ parseState = "START"
  /\ contentLength = 0 /\ parsedLength = 0 /\ expecting = FALSE
  /\ calls = <<>>

-----------------------------------------------------------------------------

\* The next n bytes arrive in one segment.  A callback runs to its end
\* before the next one starts.
Segment(n) ==
  /\ seg = <<>>
  /\ n \in 1..Len(wire)
  /\ seg' = SubSeq(wire, 1, n)
  /\ wire' = SubSeq(wire, n + 1, Len(wire))
  /\ UNCHANGED <<request, line, parseState, counts, calls>>

InHead == parseState \in {"START", "HEADERS"}

\* No new line in the rest of the segment: keep it for the next one.
NoNewLine ==
  /\ InHead /\ seg # <<>>
  /\ \A i \in 1..Len(seg) : seg[i] # LF
  /\ temp' = temp \o seg
  /\ seg' = <<>>
  /\ UNCHANGED <<request, wire, head, parseState, counts, calls>>

\* _temp.trim()
Trim(s) == IF s # <<>> /\ Last(s) = CR THEN Front(s) ELSE s

\* Where the next line of the segment ends.
Ends == {n \in 1..Len(seg) : seg[n] = LF /\ \A i \in 1..n - 1 : seg[i] # LF}

\* Mutants of LineTo: what was kept of the line is not put before it; only
\* the new part is trimmed, so that a line cut between CR and LF keeps its CR.
LineToForgets(n) == Trim(SubSeq(seg, 1, n - 1))
LineToTrimsPart(n) == temp \o Trim(SubSeq(seg, 1, n - 1))

\* The line that ends at seg[n].
LineTo(n) == Trim(temp \o SubSeq(seg, 1, n - 1))

\* _onData() takes that line out of the segment, and _parseLine() uses it up.
TakeLine(n) ==
  /\ seg' = SubSeq(seg, n + 1, Len(seg))
  /\ temp' = <<>>
  /\ UNCHANGED <<request, wire>>

\* What a line says, if nothing of it is missing.
Says(l, kind) == Len(l) = 2 /\ l = <<<<kind, l[1][2], 1>>, <<kind, l[1][2], 2>>>>
Value(l) == l[1][2]

\* handleRequest(this), for the handler or for the catch-all
HandleRequest ==
  calls' = Append(calls, [head |-> head, body |-> parsedLength'])

\* An empty line where the request line should be: PARSE_REQ_FAIL, and
\* _client->close().
EmptyRequestLine ==
  /\ parseState = "START"
  /\ \E n \in Ends : LineTo(n) = <<>> /\ TakeLine(n)
  /\ parseState' = "FAIL"
  /\ UNCHANGED <<head, counts, calls>>

\* _parseReqHead()
RequestLine ==
  /\ parseState = "START"
  /\ \E n \in Ends :
       /\ LineTo(n) # <<>>
       /\ head' = IF Says(LineTo(n), "head") THEN Value(LineTo(n)) ELSE "garbled"
       /\ TakeLine(n)
  /\ parseState' = "HEADERS"
  /\ UNCHANGED <<counts, calls>>

\* _parseReqHeader(): only these two headers change what happens next.
Header ==
  /\ parseState = "HEADERS"
  /\ \E n \in Ends : LET l == LineTo(n) IN
       /\ l # <<>>
       /\ contentLength' = IF Says(l, "length") THEN Value(l) ELSE contentLength
       /\ expecting' = (expecting \/ Says(l, "expect"))
       /\ TakeLine(n)
  /\ UNCHANGED <<head, parseState, parsedLength, calls>>

\* The empty line: the handler is attached, and called at once if no body
\* was announced.
EndOfHeaders ==
  /\ parseState = "HEADERS"
  /\ \E n \in Ends : LineTo(n) = <<>> /\ TakeLine(n)
  /\ IF contentLength # 0
     THEN parseState' = "BODY" /\ UNCHANGED calls
     ELSE parseState' = "END" /\ parsedLength' = parsedLength /\ HandleRequest
  /\ UNCHANGED <<head, counts>>

\* Mutant of Body: the call is made when the body is at least as long as
\* announced, in every segment that follows too.
BodyNeverEnds ==
  /\ parseState = "BODY" /\ seg # <<>>
  /\ parsedLength' = parsedLength + Len(seg)
  /\ IF parsedLength' >= contentLength THEN HandleRequest ELSE UNCHANGED calls
  /\ seg' = <<>>
  /\ UNCHANGED <<request, wire, line, parseState, contentLength, expecting>>

\* The rest of the segment is body, all of it.
Body ==
  /\ parseState = "BODY" /\ seg # <<>>
  /\ parsedLength' = parsedLength + Len(seg)
  /\ IF parsedLength' = contentLength
     THEN parseState' = "END" /\ HandleRequest
     ELSE UNCHANGED <<parseState, calls>>
  /\ seg' = <<>>
  /\ UNCHANGED <<request, wire, line, contentLength, expecting>>

\* After the end of the request, or a failure, nothing is read any more.
Ignore ==
  /\ parseState \in {"END", "FAIL"} /\ seg # <<>>
  /\ seg' = <<>>
  /\ UNCHANGED <<request, wire, line, parseState, counts, calls>>

\* One round of the loop in _onData()
Parse ==
  \/ NoNewLine \/ EmptyRequestLine \/ RequestLine \/ Header \/ EndOfHeaders
  \/ Body \/ Ignore

Next == Parse \/ \E n \in 1..Len(wire) : Segment(n)

Spec == Init /\ [][Next]_requestVars

-----------------------------------------------------------------------------
(* Properties                                                              *)

\* Every variable keeps to its type.
TypeOK ==
  /\ request \in Requests
  /\ parseState \in {"START", "HEADERS", "BODY", "END", "FAIL"}
  /\ contentLength \in Nat /\ parsedLength \in Nat
  /\ expecting \in BOOLEAN
  /\ head \in {"", request.head}
  /\ \A i \in 1..Len(calls) : calls[i] \in [head: STRING, body: Nat]

\* The whole request has arrived: the empty line after the headers, and as
\* many bytes of the body as were announced.
Arrived ==
  /\ request.head # ""
  /\ request.body >= request.length
  /\ Len(wire) <= request.body - request.length

\* However the segments are cut, the request is handed to its handler once,
\* whole and as it was sent, as soon as its last byte has arrived and never
\* before.  Needs a peer that sends nothing after the body it announced: of
\* more bytes in the last segment _onData() counts all, passes the length it
\* waits for and never calls the handler.
HandledWhenWhole ==
  seg = <<>> /\ (request.length # 0 => request.body <= request.length) =>
    calls = IF Arrived THEN <<[head |-> request.head, body |-> request.length]>>
                       ELSE <<>>

\* A request is handed over at most once, and then its body was counted to
\* exactly the length announced, whatever is sent after it.
HandledOnce ==
  /\ Len(calls) <= 1
  /\ calls # <<>> <=> parseState = "END"
  /\ parseState = "END" => parsedLength = contentLength

=============================================================================
