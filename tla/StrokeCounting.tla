--------------------------- MODULE StrokeCounting --------------------------
(***************************************************************************)
(* A keyboard typing into the counting part of rw().                       *)
(*                                                                         *)
(* The keyboard and the CH9350 receiver are outside the repository; the    *)
(* model keeps of them what the code relies on.  A report lists the keys   *)
(* held, one per slot, 0 for a free slot.  Pressing a key takes one more   *)
(* slot, releasing one frees one slot; which slot, and how the other keys  *)
(* move (many keyboards close the gap), is left open.  A change of two     *)
(* keys in one report is a lost report followed by another.                *)
(*                                                                         *)
(* What else can happen on the way from the keyboard to rw() is the set    *)
(* effects: a fixed property of the line, chosen at the start.             *)
(***************************************************************************)
EXTENDS KeyReport

CONSTANTS
  KeyCodes,     \* the usages of the keys that are typed
  MaxHeld,      \* bound: keys held at the same time
  MaxPressed,   \* bound: key presses in all
  Lines         \* the kinds of lines: sets of effects

AllEffects ==
  {"chord",     \* several keys are held at once
   "lost",      \* a report is not read
   "repeated",  \* a report is sent once more
   "phantom",   \* a slot repeats another one
   "rollover"}  \* a report of error codes

ASSUME StrokeCountingAssumption ==
  /\ KeyCodes \subseteq ValidUsage
  /\ MaxHeld \in 0..6
  /\ MaxPressed \in 0..MaxCnt
  /\ Lines \subseteq SUBSET AllEffects

VARIABLES
  effects,  \* what can happen on this line
  keys,     \* the report that describes the keys held now
  last,     \* last_v3 .. last_v8
  cnt,      \* unsigned int cnt
  pressed   \* history: key presses so far

vars == <<effects, keys, last, cnt, pressed>>

Occupied(v) == {s \in Slots : v[s] # 0}

\* No key is listed twice.
KeyReports ==
  {v \in [Slots -> KeyCodes \cup {0}] :
     \A s, t \in Slots : v[s] = v[t] /\ v[s] # 0 => s = t}

\* What a keyboard reports while it cannot tell which keys are held.
ErrorRollOver == [s \in Slots |-> 1]

Init ==
  /\ effects \in Lines
  /\ keys = NoKeys
  /\ last = NoKeys
  /\ cnt = 0
  /\ pressed = 0

\* rw() reads the report v.
Deliver(v) ==
  /\ last' = Latch(last, v)
  /\ cnt' = Tally(cnt, last, v)

\* The keyboard sends the report v: it is read, or lost, or read with a key
\* once more four slots further on, as the comment in rw() says of single
\* clicks and v7.
Send(v) ==
  \/ Deliver(v)
  \/ "lost" \in effects /\ UNCHANGED <<last, cnt>>
  \/ /\ "phantom" \in effects
     /\ \E s \in {3, 4} : v[s + 4] = 0 /\ Deliver([v EXCEPT ![s + 4] = v[s]])

Press(s) ==
  /\ pressed < MaxPressed
  /\ s \notin Occupied(keys)
  /\ Cardinality(Occupied(keys)) < (IF "chord" \in effects THEN MaxHeld ELSE 1)
  /\ keys' \in {v \in KeyReports : Occupied(v) = Occupied(keys) \cup {s}}
  /\ Send(keys')
  /\ pressed' = pressed + 1
  /\ UNCHANGED effects

Release(s) ==
  /\ s \in Occupied(keys)
  /\ keys' \in {v \in KeyReports : Occupied(v) = Occupied(keys) \ {s}}
  /\ Send(keys')
  /\ UNCHANGED <<effects, pressed>>

\* The same report once more.
Repeat ==
  /\ "repeated" \in effects
  /\ Send(keys)
  /\ UNCHANGED <<effects, keys, pressed>>

RollOver ==
  /\ "rollover" \in effects
  /\ Deliver(ErrorRollOver)
  /\ UNCHANGED <<effects, keys, pressed>>

Next ==
  \/ \E s \in Slots : Press(s) \/ Release(s)
  \/ Repeat
  \/ RollOver

Spec == Init /\ [][Next]_vars

-----------------------------------------------------------------------------

\* The variables keep to their C types.
TypeOK ==
  /\ effects \in Lines
  /\ keys \in KeyReports
  /\ last \in [Slots -> ValidUsage \cup {0}]
  /\ cnt \in Cnt
  /\ pressed \in 0..MaxPressed

\* The count never runs ahead of the typist, whatever reports get lost and
\* however the keyboard moves keys between the slots (rw(), the comparison of
\* v3..v8 with last_v3..last_v8).
NeverOvercount ==
  effects \subseteq {"chord", "lost", "repeated"} => cnt <= pressed

\* If no report is lost, every press has been counted when all keys are up,
\* once each: presses, releases and repeated reports in any order.
ExactWhenKeysUp ==
  effects \subseteq {"chord", "repeated"} /\ keys = NoKeys => cnt = pressed

\* The correction for a slot that repeats another one makes up for the stroke
\* that is counted twice, as long as one key is held at a time ("on a single
\* click v7 may repeat v3", the comment in rw()).
ClickIsExact ==
  effects \subseteq {"phantom"} /\ keys = NoKeys => cnt = pressed

\* A slot's latched key is the key that is held in it, through repeated
\* reports and reports that are no key reports (the range test against
\* VALID_MIN_USAGE_ID and VALID_MAX_USAGE_ID).
LatchedIsHeld ==
  effects \subseteq {"chord", "repeated", "rollover"} => last = keys

\* The inductive form of NeverOvercount: a slot that is occupied on either
\* side stands for one stroke still to be counted.
Owed == Occupied(last) \cup Occupied(keys)
OwedBound == cnt + Cardinality(Owed) <= pressed
OwedInv == effects \subseteq {"chord", "lost", "repeated"} => OwedBound

\* The inductive form of ExactWhenKeysUp.
Balance ==
  /\ Occupied(last) = Occupied(keys)
  /\ cnt + Cardinality(Occupied(keys)) = pressed
BalanceInv == effects \subseteq {"chord", "repeated"} => Balance

=============================================================================
