-------------------------- MODULE KeyReportProofs --------------------------
(***************************************************************************)
(* What the operators of UnsignedInt and KeyReport return, for every width *)
(* of the integers and every report.                                       *)
(***************************************************************************)
EXTENDS KeyReport, FiniteSetTheorems, TLAPS

\* Unsigned arithmetic stays within the type and does nothing to a value
\* that is within it.
LEMMA WrapFacts ==
  /\ \A n \in Int : Wrap(n) \in Cnt
  /\ \A n \in Cnt : Wrap(n) = n
  BY MaxCntAssumption DEF Wrap, Cnt

\* String::toInt() returns a long for whatever integer a client writes.
LEMMA ToIntFacts ==
  ASSUME NEW p \in Int
  PROVE  ToInt(p) \in LongMin..LongMax
<1>1. Half \in Nat \ {0}
  BY MaxCntAssumption DEF Half
<1> QED
  BY <1>1 DEF ToInt, LongMin, LongMax

\* The slots are a finite set, and so is every part of them; there are six.
LEMMA SlotSubsets ==
  ASSUME NEW S \in SUBSET Slots
  PROVE  /\ IsFiniteSet(S)
         /\ Cardinality(S) \in 0..6
<1>1. IsFiniteSet(3..8) /\ Cardinality(3..8) = 6
  <2>1. 3 \in Int /\ 8 \in Int /\ ~(3 > 8) /\ 8 - 3 + 1 = 6
    OBVIOUS
  <2> QED
    BY <2>1, FS_Interval, Zenon
<1>2. IsFiniteSet(S) /\ Cardinality(S) <= 6
  BY <1>1, FS_Subset DEF Slots
<1> QED
  BY <1>2, FS_CardinalityType

\* A report completes at most six strokes.
LEMMA IncrRange ==
  ASSUME NEW last, NEW v
  PROVE  Incr(last, v) \in 0..6
  BY SlotSubsets DEF Incr, Released

\* A report takes at most two strokes back.
LEMMA PhantomRange ==
  ASSUME NEW v
  PROVE  Cardinality(Phantoms(v)) \in 0..2
<1>1. IsFiniteSet(3..4) /\ Cardinality(3..4) = 2
  <2>1. 3 \in Int /\ 4 \in Int /\ ~(3 > 4) /\ 4 - 3 + 1 = 2
    OBVIOUS
  <2> QED
    BY <2>1, FS_Interval, Zenon
<1>2. Phantoms(v) \in SUBSET (3..4)
  BY DEF Phantoms
<1>3. IsFiniteSet(Phantoms(v)) /\ Cardinality(Phantoms(v)) <= 2
  BY <1>1, <1>2, FS_Subset
<1> QED
  BY <1>3, FS_CardinalityType

\* A report leaves the count within unsigned int.
LEMMA TallyType ==
  ASSUME NEW c \in Cnt, NEW last, NEW v
  PROVE  Tally(c, last, v) \in Cnt
<1>1. c - Cardinality(Phantoms(v)) + Incr(last, v) \in Int
  BY IncrRange, PhantomRange DEF Cnt
<1> QED
  BY <1>1, WrapFacts DEF Tally

\* Only a report with a released or a repeated slot changes the count.
LEMMA TallyIdle ==
  ASSUME NEW c \in Cnt, NEW last, NEW v,
         Phantoms(v) = {}, Incr(last, v) = 0
  PROVE  Tally(c, last, v) = c
<1>1. Cardinality(Phantoms(v)) = 0
  BY FS_EmptySet
<1> QED
  BY <1>1, WrapFacts DEF Tally, Cnt

\* The latched values stay usages of keys.
LEMMA LatchType ==
  ASSUME NEW last \in [Slots -> ValidUsage \cup {0}],
         NEW v \in [Slots -> Usage]
  PROVE  Latch(last, v) \in [Slots -> ValidUsage \cup {0}]
  BY DEF Latch

=============================================================================
