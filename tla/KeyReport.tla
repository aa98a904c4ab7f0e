----------------------------- MODULE KeyReport -----------------------------
(***************************************************************************)
(* What rw() does with one decoded CH9350 report: the six key slots v3..v8 *)
(* are compared with the values latched from the previous report.  A slot  *)
(* that was occupied and now reads 0 is one completed stroke; a slot that  *)
(* duplicates its partner (v3 = v7, v4 = v8) takes one stroke back.        *)
(***************************************************************************)
EXTENDS UnsignedInt, FiniteSets

\* The key slots carry the names they have in the code: v3 .. v8.
Slots == 3..8

\* VALID_MIN_USAGE_ID .. VALID_MAX_USAGE_ID
ValidUsage == 4..99

\* What Serial.read() can put in a slot: a byte, or -1 when nothing was there.
Usage == -1..255

NoKeys == [s \in Slots |-> 0]

\* Mutants of Latch: the slot is never freed again; a slot takes any value;
\* an occupied slot does not take another key.
LatchKeeps(last, v) ==
  [s \in Slots |-> IF v[s] \in ValidUsage THEN v[s] ELSE last[s]]
LatchAnything(last, v) == v
LatchOnlyFree(last, v) ==
  [s \in Slots |-> IF v[s] = 0 \/ (last[s] = 0 /\ v[s] \in ValidUsage)
                   THEN v[s] ELSE last[s]]

\* last_v3 .. last_v8 after a report: a valid usage or 0 is remembered, any
\* other value leaves the slot as it was.
Latch(last, v) ==
  [s \in Slots |-> IF v[s] \in ValidUsage \cup {0} THEN v[s] ELSE last[s]]

\* Mutant of Released: a key that made room for another one counts too.
ReleasedOrReplaced(last, v) == {s \in Slots : last[s] # 0 /\ v[s] # last[s]}

\* The slots whose key went up with this report.
Released(last, v) == {s \in Slots : v[s] = 0 /\ last[s] # 0}

\* int incr, after the six comparisons
Incr(last, v) == Cardinality(Released(last, v))

\* Mutant of Phantoms: repeated slots are ignored.
PhantomsIgnored(v) == {}

\* The slots that repeat the slot four places before them.
Phantoms(v) == {s \in {3, 4} : v[s] # 0 /\ v[s] = v[s + 4]}

\* Mutant of Tally: integers without a width.
TallyUnbounded(cnt, last, v) ==
  cnt - Cardinality(Phantoms(v)) + Incr(last, v)

\* cnt --, once for each repeated slot; then cnt = cnt + incr.
Tally(cnt, last, v) ==
  Wrap(cnt - Cardinality(Phantoms(v)) + Incr(last, v))

=============================================================================
