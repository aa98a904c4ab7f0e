----------------------- MODULE StrokeCountingProofs ------------------------
(***************************************************************************)
(* What the comparison of v3..v8 with last_v3..last_v8 achieves, for every *)
(* set of keys, every number of keys held and pressed and every width of   *)
(* the count.                                                              *)
(***************************************************************************)
EXTENDS StrokeCounting, KeyReportProofs

\* The sets of slots used below are finite.
LEMMA OccupiedFacts ==
  ASSUME NEW v, NEW w
  PROVE  /\ IsFiniteSet(Occupied(v))
         /\ IsFiniteSet(Occupied(v) \cup Occupied(w))
         /\ IsFiniteSet(Occupied(v) \ Occupied(w))
         /\ Cardinality(Occupied(v)) \in Nat
         /\ Cardinality(Occupied(v) \cup Occupied(w)) \in Nat
         /\ Cardinality(Occupied(v) \ Occupied(w)) \in Nat
<1>1. /\ Occupied(v) \in SUBSET Slots
      /\ Occupied(v) \cup Occupied(w) \in SUBSET Slots
      /\ Occupied(v) \ Occupied(w) \in SUBSET Slots
  BY DEF Occupied
<1> QED
  BY <1>1, SlotSubsets

\* A report of held keys is latched as it is, repeats no slot, and releases
\* the slots that were occupied and are free now.
LEMMA KeyReportFacts ==
  ASSUME NEW l \in [Slots -> ValidUsage \cup {0}], NEW v \in KeyReports
  PROVE  /\ Latch(l, v) = v
         /\ Phantoms(v) = {}
         /\ Released(l, v) = Occupied(l) \ Occupied(v)
<1>1. v \in [Slots -> ValidUsage \cup {0}]
  BY StrokeCountingAssumption DEF KeyReports
<1>2. Latch(l, v) = v
  BY <1>1 DEF Latch
<1>3. Phantoms(v) = {}
  <2>1. \A s \in {3, 4} : s \in Slots /\ s + 4 \in Slots /\ s # s + 4
    BY DEF Slots
  <2>2. \A s, t \in Slots : v[s] = v[t] /\ v[s] # 0 => s = t
    BY DEF KeyReports
  <2> QED
    BY <2>1, <2>2 DEF Phantoms
<1>4. Released(l, v) = Occupied(l) \ Occupied(v)
  BY DEF Released, Occupied
<1> QED
  BY <1>2, <1>3, <1>4

\* Reading a report moves strokes from the owed slots to the count: as long
\* as there is room for them, none is lost and none is counted twice.
LEMMA DeliverFacts ==
  ASSUME last \in [Slots -> ValidUsage \cup {0}], cnt \in Cnt,
         NEW v \in KeyReports, Deliver(v),
         cnt + Cardinality(Occupied(last) \cup Occupied(v)) <= MaxCnt
  PROVE  /\ last' = v
         /\ cnt' \in Cnt
         /\ cnt' + Cardinality(Occupied(v))
              = cnt + Cardinality(Occupied(last) \cup Occupied(v))
<1> DEFINE L == Occupied(last)
           V == Occupied(v)
<1>1. last' = v
  BY KeyReportFacts DEF Deliver
<1>2. /\ IsFiniteSet(V) /\ IsFiniteSet(L \ V)
      /\ Cardinality(V) \in Nat /\ Cardinality(L \ V) \in Nat
  BY OccupiedFacts
<1>3. Cardinality(L \cup V) = Cardinality(L \ V) + Cardinality(V)
  <2>1. (L \ V) \cup V = L \cup V /\ (L \ V) \cap V = {}
    OBVIOUS
  <2>2. Cardinality((L \ V) \cup V)
          = Cardinality(L \ V) + Cardinality(V) - Cardinality((L \ V) \cap V)
    BY <1>2, FS_Union
  <2> HIDE DEF L, V
  <2>3. Cardinality(L \cup V)
          = Cardinality(L \ V) + Cardinality(V) - Cardinality({})
    BY <2>1, <2>2, Zenon
  <2>4. Cardinality({}) = 0
    BY FS_EmptySet
  <2> QED
    BY <1>2, <2>3, <2>4
<1>4. cnt' = Wrap(cnt + Cardinality(L \ V))
  <2>1. Cardinality(Phantoms(v)) = 0
    BY KeyReportFacts, FS_EmptySet
  <2>2. Incr(last, v) = Cardinality(L \ V)
    BY KeyReportFacts DEF Incr
  <2>3. cnt \in Int
    BY DEF Cnt
  <2> HIDE DEF L, V
  <2> QED
    BY <1>2, <2>1, <2>2, <2>3 DEF Deliver, Tally
<1>5. cnt + Cardinality(L \ V) \in Cnt
  <2> HIDE DEF L, V
  <2>1. cnt + Cardinality(L \cup V) <= MaxCnt
    BY DEF L, V
  <2> QED
    BY <1>2, <1>3, <2>1, MaxCntAssumption DEF Cnt
<1>6. cnt' = cnt + Cardinality(L \ V)
  BY <1>4, <1>5, WrapFacts
<1> HIDE DEF L, V
<1>7. cnt' + Cardinality(V) = cnt + Cardinality(L \cup V)
  BY <1>2, <1>3, <1>6 DEF Cnt
<1> QED
  BY <1>1, <1>5, <1>6, <1>7 DEF L, V

\* Pressing a key adds one owed slot at most, releasing one adds none.
LEMMA OwedFacts ==
  ASSUME NEW l, NEW k, NEW v, NEW s,
         \/ Occupied(v) = Occupied(k) \cup {s}
         \/ Occupied(v) = Occupied(k) \ {s}
         \/ Occupied(v) = Occupied(k)
  PROVE  /\ Cardinality(Occupied(l) \cup Occupied(v))
              <= Cardinality(Occupied(l) \cup Occupied(k)) + 1
         /\ Occupied(v) # Occupied(k) \cup {s} =>
              Cardinality(Occupied(l) \cup Occupied(v))
                <= Cardinality(Occupied(l) \cup Occupied(k))
<1> DEFINE A == Occupied(l) \cup Occupied(k)
           B == Occupied(l) \cup Occupied(v)
<1>1. IsFiniteSet(A) /\ Cardinality(A) \in Nat
  BY OccupiedFacts
<1>2. /\ IsFiniteSet(A \cup {s})
      /\ Cardinality(A \cup {s}) <= Cardinality(A) + 1
  <2> HIDE DEF A
  <2> QED
    BY <1>1, FS_AddElement
<1>3. B \subseteq A \cup {s}
  OBVIOUS
<1>4. Occupied(v) # Occupied(k) \cup {s} => B \subseteq A
  OBVIOUS
<1>5. Cardinality(B) \in Nat
  BY OccupiedFacts
<1> HIDE DEF A, B
<1>6. Cardinality(B) <= Cardinality(A) + 1
  <2>1. Cardinality(B) <= Cardinality(A \cup {s})
    BY <1>2, <1>3, FS_Subset
  <2>2. Cardinality(A \cup {s}) \in Nat
    BY <1>2, FS_CardinalityType
  <2> QED
    BY <1>1, <1>2, <1>5, <2>1, <2>2
<1>7. Occupied(v) # Occupied(k) \cup {s} => Cardinality(B) <= Cardinality(A)
  BY <1>1, <1>4, FS_Subset
<1> QED
  BY <1>6, <1>7 DEF A, B

-----------------------------------------------------------------------------

\* The keyboard's side of TypeOK, and all of it.
LEMMA TypeInit == Init => TypeOK
<1>1. Init => NoKeys \in KeyReports
  BY DEF KeyReports, NoKeys
<1> QED
  BY <1>1, MaxCntAssumption, StrokeCountingAssumption
     DEF Init, TypeOK, NoKeys, Cnt

LEMMA TypeStep == TypeOK /\ [Next]_vars => TypeOK'
<1> SUFFICES ASSUME TypeOK, [Next]_vars PROVE TypeOK'
  OBVIOUS
<1> USE DEF TypeOK
<1>1. \A v \in KeyReports : v \in [Slots -> Usage]
  <2>1. KeyCodes \cup {0} \subseteq Usage
    BY StrokeCountingAssumption DEF ValidUsage, Usage
  <2> QED
    BY <2>1 DEF KeyReports
<1>2. ASSUME NEW v \in [Slots -> Usage], Deliver(v)
      PROVE  last' \in [Slots -> ValidUsage \cup {0}] /\ cnt' \in Cnt
  BY <1>2, LatchType, TallyType DEF Deliver
<1>3. ASSUME NEW v \in KeyReports, Send(v)
      PROVE  last' \in [Slots -> ValidUsage \cup {0}] /\ cnt' \in Cnt
  <2>1. CASE Deliver(v)
    BY <1>1, <1>2, <2>1
  <2>2. CASE UNCHANGED <<last, cnt>>
    BY <2>2
  <2>3. ASSUME NEW s \in {3, 4}, Deliver([v EXCEPT ![s + 4] = v[s]])
        PROVE  last' \in [Slots -> ValidUsage \cup {0}] /\ cnt' \in Cnt
    <3>1. [v EXCEPT ![s + 4] = v[s]] \in [Slots -> Usage]
      <4>1. s \in Slots
        BY DEF Slots
      <4> QED
        BY <1>1, <4>1
    <3> QED
      BY <1>2, <2>3, <3>1
  <2> QED
    BY <1>3, <2>1, <2>2, <2>3 DEF Send
<1>4. ASSUME NEW s \in Slots, Press(s) PROVE TypeOK'
  <2>1. keys' \in KeyReports /\ pressed' \in 0..MaxPressed
    BY <1>4, StrokeCountingAssumption DEF Press
  <2> QED
    BY <1>3, <1>4, <2>1 DEF Press
<1>5. ASSUME NEW s \in Slots, Release(s) PROVE TypeOK'
  BY <1>3, <1>5 DEF Release
<1>6. CASE Repeat
  BY <1>3, <1>6 DEF Repeat
<1>7. CASE RollOver
  <2>1. ErrorRollOver \in [Slots -> Usage]
    BY DEF ErrorRollOver, Usage
  <2> QED
    BY <1>2, <1>7, <2>1 DEF RollOver
<1>8. CASE UNCHANGED vars
  BY <1>8 DEF vars
<1> QED
  BY <1>4, <1>5, <1>6, <1>7, <1>8 DEF Next

\* What can happen on the line stays what it was at the start.
LEMMA LineIsFixed == [Next]_vars => effects' = effects
  BY DEF Next, vars, Press, Release, Repeat, RollOver

\* Every variable keeps to its type, whatever happens to the reports.
THEOREM StrokeTypes == Spec => []TypeOK
  BY TypeInit, TypeStep, PTL DEF Spec

-----------------------------------------------------------------------------

\* The count and the owed strokes together never exceed the key presses, if
\* reports get lost or repeated but nothing else happens to them.
LEMMA OwedStep ==
  ASSUME effects \subseteq {"chord", "lost", "repeated"},
         TypeOK, TypeOK', OwedBound, [Next]_vars
  PROVE  OwedBound'
<1> USE DEF TypeOK, OwedBound, Owed
<1>1. pressed \in Nat /\ pressed' \in Nat /\ pressed' <= MaxCnt
  BY StrokeCountingAssumption, MaxCntAssumption
<1>2. /\ Cardinality(Occupied(last) \cup Occupied(keys)) \in Nat
      /\ Cardinality(Occupied(last) \cup Occupied(keys')) \in Nat
      /\ Cardinality(Occupied(keys')) \in Nat
  BY OccupiedFacts
\* Whatever becomes of the report, there is room for what it owes.
<1>3. ASSUME Send(keys'),
             cnt + Cardinality(Occupied(last) \cup Occupied(keys')) <= pressed'
      PROVE  OwedBound'
  <2>1. CASE Deliver(keys')
    <3>1. cnt + Cardinality(Occupied(last) \cup Occupied(keys')) <= MaxCnt
      BY <1>1, <1>2, <1>3, MaxCntAssumption DEF Cnt
    <3>2. /\ last' = keys'
          /\ cnt' + Cardinality(Occupied(keys'))
               = cnt + Cardinality(Occupied(last) \cup Occupied(keys'))
      BY <2>1, <3>1, DeliverFacts
    <3>3. Owed' = Occupied(keys')
      BY <3>2 DEF Occupied
    <3> QED
      BY <1>3, <3>2, <3>3
  <2>2. CASE UNCHANGED <<last, cnt>>
    <3>1. Owed' = Occupied(last) \cup Occupied(keys')
      BY <2>2 DEF Occupied
    <3> QED
      BY <1>3, <2>2, <3>1
  <2> QED
    BY <1>3, <2>1, <2>2 DEF Send
<1>4. ASSUME NEW s \in Slots, Press(s) PROVE OwedBound'
  <2>1. pressed' = pressed + 1 /\ Send(keys')
    BY <1>4 DEF Press
  <2>2. Occupied(keys') = Occupied(keys) \cup {s}
    BY <1>4 DEF Press
  <2>3. Cardinality(Occupied(last) \cup Occupied(keys'))
          <= Cardinality(Occupied(last) \cup Occupied(keys)) + 1
    BY <2>2, OwedFacts
  <2> QED
    BY <1>1, <1>2, <1>3, <2>1, <2>3 DEF Cnt
<1>5. ASSUME NEW s \in Slots, Release(s) PROVE OwedBound'
  <2>1. pressed' = pressed /\ Send(keys')
    BY <1>5 DEF Release
  <2>2. /\ Occupied(keys') = Occupied(keys) \ {s}
        /\ Occupied(keys') # Occupied(keys) \cup {s}
    BY <1>5 DEF Release
  <2>3. Cardinality(Occupied(last) \cup Occupied(keys'))
          <= Cardinality(Occupied(last) \cup Occupied(keys))
    BY <2>2, OwedFacts
  <2> QED
    BY <1>1, <1>2, <1>3, <2>1, <2>3 DEF Cnt
<1>6. CASE Repeat
  BY <1>3, <1>6 DEF Repeat
<1>7. CASE RollOver
  BY <1>7 DEF RollOver
<1>8. CASE UNCHANGED vars
  BY <1>8 DEF vars, Occupied
<1> QED
  BY <1>4, <1>5, <1>6, <1>7, <1>8 DEF Next

\* The count and the owed strokes together never exceed the presses: what
\* makes NeverOvercount inductive (rw()).
THEOREM OwedInvariant == Spec => []OwedInv
<1>1. Init => OwedInv
  <2>1. Init => Owed = {}
    BY DEF Init, Owed, Occupied, NoKeys
  <2> QED
    BY <2>1, FS_EmptySet DEF Init, OwedInv, OwedBound
<1>2. TypeOK /\ TypeOK' /\ OwedInv /\ [Next]_vars => OwedInv'
  BY OwedStep, LineIsFixed DEF OwedInv
<1> QED
  BY <1>1, <1>2, StrokeTypes, PTL DEF Spec

\* The count never runs ahead of the typist, however many reports are lost
\* (rw(), the comparison of v3..v8 with last_v3..last_v8).
THEOREM NeverOvercounts == Spec => []NeverOvercount
<1>1. TypeOK /\ OwedInv => NeverOvercount
  <2>1. Cardinality(Owed) \in Nat
    BY OccupiedFacts DEF Owed
  <2> QED
    BY <2>1, StrokeCountingAssumption, MaxCntAssumption
       DEF TypeOK, OwedInv, OwedBound, NeverOvercount, Cnt
<1> QED
  BY <1>1, OwedInvariant, StrokeTypes, PTL

-----------------------------------------------------------------------------

\* On a line without losses what is latched is what is held, and the count
\* lacks exactly the keys that are still down.
LEMMA BalanceStep ==
  ASSUME effects \subseteq {"chord", "repeated"},
         TypeOK, TypeOK', Balance, [Next]_vars
  PROVE  Balance'
<1> USE DEF TypeOK, Balance
<1>1. pressed \in Nat /\ pressed' \in Nat /\ pressed' <= MaxCnt /\ cnt \in Nat
  BY StrokeCountingAssumption, MaxCntAssumption DEF Cnt
<1>2. /\ IsFiniteSet(Occupied(keys))
      /\ Cardinality(Occupied(keys)) \in Nat
      /\ Cardinality(Occupied(last) \cup Occupied(keys')) \in Nat
  BY OccupiedFacts
<1>3. ASSUME Send(keys'),
             cnt + Cardinality(Occupied(last) \cup Occupied(keys')) = pressed'
      PROVE  Balance'
  <2>1. Deliver(keys')
    BY <1>3 DEF Send
  <2>2. cnt + Cardinality(Occupied(last) \cup Occupied(keys')) <= MaxCnt
    BY <1>1, <1>3
  <2>3. /\ last' = keys'
        /\ cnt' + Cardinality(Occupied(keys'))
             = cnt + Cardinality(Occupied(last) \cup Occupied(keys'))
    BY <2>1, <2>2, DeliverFacts
  <2>4. Occupied(last)' = Occupied(keys') /\ Occupied(keys)' = Occupied(keys')
    BY <2>3 DEF Occupied
  <2> QED
    BY <1>3, <2>3, <2>4
<1>4. ASSUME NEW s \in Slots, Press(s) PROVE Balance'
  <2>1. pressed' = pressed + 1 /\ Send(keys')
    BY <1>4 DEF Press
  <2>2. /\ Occupied(last) \cup Occupied(keys') = Occupied(keys) \cup {s}
        /\ s \notin Occupied(keys)
    BY <1>4 DEF Press
  <2>3. Cardinality(Occupied(keys) \cup {s}) = Cardinality(Occupied(keys)) + 1
    BY <1>2, <2>2, FS_AddElement
  <2>4. Cardinality(Occupied(last) \cup Occupied(keys'))
          = Cardinality(Occupied(keys)) + 1
    BY <2>2, <2>3, Zenon
  <2>5. cnt + Cardinality(Occupied(keys)) = pressed
    OBVIOUS
  <2>6. cnt + Cardinality(Occupied(last) \cup Occupied(keys')) = pressed'
    BY <1>1, <1>2, <2>1, <2>4, <2>5
  <2> QED
    BY <1>3, <2>1, <2>6
<1>5. ASSUME NEW s \in Slots, Release(s) PROVE Balance'
  <2>1. pressed' = pressed /\ Send(keys')
    BY <1>5 DEF Release
  <2>2. Occupied(last) \cup Occupied(keys') = Occupied(keys)
    BY <1>5 DEF Release
  <2> QED
    BY <1>3, <2>1, <2>2
<1>6. CASE Repeat
  <2>1. pressed' = pressed /\ Send(keys') /\ keys' = keys
    BY <1>6 DEF Repeat
  <2>2. Occupied(last) \cup Occupied(keys') = Occupied(keys)
    BY <2>1
  <2> QED
    BY <1>3, <2>1, <2>2
<1>7. CASE RollOver
  BY <1>7 DEF RollOver
<1>8. CASE UNCHANGED vars
  BY <1>8 DEF vars, Occupied
<1> QED
  BY <1>4, <1>5, <1>6, <1>7, <1>8 DEF Next

\* The count lacks exactly the keys that are down: what makes
\* ExactWhenKeysUp inductive (rw()).
THEOREM BalanceInvariant == Spec => []BalanceInv
<1>1. Occupied(NoKeys) = {} /\ Cardinality({}) = 0
  BY FS_EmptySet DEF Occupied, NoKeys
<1>2. Init => BalanceInv
  BY <1>1 DEF Init, Balance, BalanceInv
<1>3. TypeOK /\ TypeOK' /\ BalanceInv /\ [Next]_vars => BalanceInv'
  BY BalanceStep, LineIsFixed DEF BalanceInv
<1> QED
  BY <1>2, <1>3, StrokeTypes, PTL DEF Spec

\* When all keys are up, every press has been counted exactly once, if no
\* report is lost (rw()).
THEOREM CountsExactly == Spec => []ExactWhenKeysUp
<1>1. Occupied(NoKeys) = {} /\ Cardinality({}) = 0
  BY FS_EmptySet DEF Occupied, NoKeys
<1>2. TypeOK /\ BalanceInv => ExactWhenKeysUp
  BY <1>1 DEF TypeOK, Balance, BalanceInv, ExactWhenKeysUp, Cnt
<1> QED
  BY <1>2, BalanceInvariant, StrokeTypes, PTL

-----------------------------------------------------------------------------

\* Reports that repeat, or that are no key reports, do not disturb what the
\* slots remember (the range test in rw()).
THEOREM LatchFollowsKeys == Spec => []LatchedIsHeld
<1>1. Init => LatchedIsHeld
  BY DEF Init, LatchedIsHeld
<1>2. ASSUME effects \subseteq {"chord", "repeated", "rollover"},
             TypeOK, TypeOK', last = keys, [Next]_vars
      PROVE  last' = keys'
  <2> USE <1>2
  <2>1. ASSUME Send(keys') PROVE last' = keys'
    <3>1. Deliver(keys')
      BY <2>1 DEF Send
    <3> QED
      BY <3>1, KeyReportFacts DEF Deliver, TypeOK
  <2>2. ASSUME NEW s \in Slots, Press(s) \/ Release(s) PROVE last' = keys'
    BY <2>1, <2>2 DEF Press, Release
  <2>3. CASE Repeat
    BY <2>1, <2>3 DEF Repeat
  <2>4. CASE RollOver
    <3>1. Latch(last, ErrorRollOver) = last
      BY DEF Latch, ErrorRollOver, ValidUsage, TypeOK
    <3> QED
      BY <2>4, <3>1 DEF RollOver, Deliver
  <2>5. CASE UNCHANGED vars
    BY <2>5 DEF vars
  <2> QED
    BY <2>2, <2>3, <2>4, <2>5 DEF Next
<1>3. TypeOK /\ TypeOK' /\ LatchedIsHeld /\ [Next]_vars => LatchedIsHeld'
  BY <1>2, LineIsFixed DEF LatchedIsHeld
<1> QED
  BY <1>1, <1>3, StrokeTypes, PTL DEF Spec

-----------------------------------------------------------------------------

\* The report v with the key of slot s once more four slots further on.
Doubled(v, s) == [v EXCEPT ![s + 4] = v[s]]

\* What makes ClickIsExact inductive: while the key of a click is down, its
\* stroke is missing in the count; if its slot was repeated two are missing,
\* and two slots are latched that give them back.
ClickState ==
  \/ keys = NoKeys /\ last = NoKeys /\ cnt = pressed
  \/ \E s \in Slots :
       /\ Occupied(keys) = {s}
       /\ pressed >= 1
       /\ \/ last = keys /\ cnt = pressed - 1
          \/ s \in {3, 4} /\ last = Doubled(keys, s) /\ cnt = Wrap(pressed - 2)

ClickInv == effects \subseteq {"phantom"} => ClickState

\* The count makes up for a stroke taken back too early, across zero.
LEMMA WrapBack ==
  ASSUME NEW p \in 1..MaxCnt
  PROVE  Wrap(Wrap(p - 2) + 2) = p
<1> USE MaxCntAssumption DEF Wrap
<1>1. CASE p = 1
  <2>1. (-1) % (MaxCnt + 1) = MaxCnt
    OBVIOUS
  <2>2. (MaxCnt + 2) % (MaxCnt + 1) = 1
    OBVIOUS
  <2>3. p - 2 = -1
    BY <1>1
  <2> QED
    BY <1>1, <2>1, <2>2, <2>3
<1>2. CASE p >= 2
  <2>1. (p - 2) % (MaxCnt + 1) = p - 2
    BY <1>2
  <2>2. p % (MaxCnt + 1) = p
    OBVIOUS
  <2> QED
    BY <2>1, <2>2
<1> QED
  BY <1>1, <1>2

\* With one key down at most, a slot other than the key's has nothing to
\* repeat.
LEMMA SendClick ==
  ASSUME effects \subseteq {"phantom"}, TypeOK,
         NEW v \in KeyReports, Send(v)
  PROVE  \/ Deliver(v)
         \/ \E s \in {3, 4} : v[s] # 0 /\ v[s + 4] = 0 /\ Deliver(Doubled(v, s))
<1>1. CASE Deliver(v)
  BY <1>1
<1>2. ASSUME NEW s \in {3, 4}, v[s + 4] = 0,
             Deliver([v EXCEPT ![s + 4] = v[s]])
      PROVE  \/ Deliver(v)
             \/ \E t \in {3, 4} : v[t] # 0 /\ v[t + 4] = 0
                                   /\ Deliver(Doubled(v, t))
  <2>1. CASE v[s] = 0
    <3>1. [v EXCEPT ![s + 4] = v[s]] = v
      BY <1>2, <2>1 DEF KeyReports
    <3> QED
      BY <1>2, <3>1
  <2>2. CASE v[s] # 0
    BY <1>2, <2>2 DEF Doubled
  <2> QED
    BY <2>1, <2>2
<1>3. ~("lost" \in effects)
  OBVIOUS
<1> QED
  BY <1>1, <1>2, <1>3 DEF Send

\* The first report of a click: nothing is counted, and one stroke is taken
\* back if the slot of the key is repeated.
LEMMA ClickDown ==
  ASSUME effects \subseteq {"phantom"}, TypeOK, TypeOK', ClickState,
         NEW s \in Slots, Press(s)
  PROVE  ClickState'
<1> USE DEF TypeOK
<1>1. ~("chord" \in effects)
  OBVIOUS
<1>2. Occupied(keys) = {}
  <2>1. Cardinality(Occupied(keys)) < 1
    BY <1>1 DEF Press
  <2>2. IsFiniteSet(Occupied(keys)) /\ Cardinality(Occupied(keys)) \in Nat
    BY OccupiedFacts
  <2>3. Cardinality(Occupied(keys)) = 0
    BY <2>1, <2>2
  <2> QED
    BY <2>2, <2>3, FS_EmptySet
<1>3. last = NoKeys /\ cnt = pressed
  <2>1. \A t \in Slots : Occupied(keys) # {t}
    BY <1>2
  <2> QED
    BY <2>1 DEF ClickState
<1>4. /\ keys' \in KeyReports /\ Occupied(keys') = {s}
      /\ pressed' = pressed + 1 /\ Send(keys')
  BY <1>2 DEF Press
<1>5. pressed \in Nat /\ pressed <= MaxCnt /\ pressed' >= 1 /\ cnt \in Cnt
  BY <1>4, StrokeCountingAssumption, MaxCntAssumption
<1>6. Occupied(keys)' = {s}
  BY <1>4 DEF Occupied
<1>7. \A v : Released(last, v) = {} /\ Incr(last, v) = 0
  BY <1>3, FS_EmptySet DEF Released, Incr, NoKeys
<1>8. CASE Deliver(keys')
  <2>1. last' = keys' /\ Phantoms(keys') = {}
    BY <1>4, <1>8, KeyReportFacts DEF Deliver
  <2>2. cnt' = cnt
    BY <1>5, <1>7, <1>8, <2>1, TallyIdle DEF Deliver
  <2>3. cnt' = pressed' - 1
    BY <1>3, <1>4, <1>5, <2>2
  <2> QED
    BY <1>5, <1>6, <2>1, <2>3 DEF ClickState
<1>9. ASSUME NEW t \in {3, 4}, keys'[t] # 0, Deliver(Doubled(keys', t))
      PROVE  ClickState'
  <2>1. t = s
    <3>1. t \in Slots
      BY DEF Slots
    <3> QED
      BY <1>4, <1>9, <3>1 DEF Occupied
  <2> DEFINE w == Doubled(keys', t)
  <2>2. keys' \in [Slots -> ValidUsage \cup {0}] /\ t + 4 \in Slots /\ t \in Slots
    BY <1>4, StrokeCountingAssumption DEF KeyReports, Slots
  <2>3. w \in [Slots -> ValidUsage \cup {0}]
    BY <2>2 DEF Doubled
  <2>4. last' = w
    BY <1>9, <2>3 DEF Deliver, Latch
  <2>5. Phantoms(w) = {t}
    <3>1. w[t] = keys'[t] /\ w[t + 4] = keys'[t]
      BY <2>2 DEF Doubled
    <3>2. \A u \in {3, 4} : u # t => w[u] = 0
      <4>1. \A u \in {3, 4} : u # t => u \in Slots /\ u # t + 4
        BY DEF Slots
      <4>2. \A u \in Slots : u # t => keys'[u] = 0
        BY <1>4, <2>1 DEF Occupied
      <4> QED
        BY <2>2, <4>1, <4>2 DEF Doubled
    <3> HIDE DEF w
    <3> QED
      BY <1>9, <3>1, <3>2 DEF Phantoms
  <2>6. cnt' = Wrap(cnt - 1)
    <3>1. cnt' = Tally(cnt, last, w)
      BY <1>9 DEF Deliver
    <3>2. Cardinality(Phantoms(w)) = 1 /\ Incr(last, w) = 0
      BY <1>7, <2>5, FS_Singleton
    <3>3. cnt - 1 + 0 = cnt - 1
      BY <1>5 DEF Cnt
    <3> HIDE DEF w
    <3> QED
      BY <3>1, <3>2, <3>3 DEF Tally
  <2>7. cnt' = Wrap(pressed' - 2)
    <3>1. cnt - 1 = pressed' - 2
      BY <1>3, <1>4, <1>5
    <3> QED
      BY <2>6, <3>1
  <2> HIDE DEF w
  <2>8. last' = Doubled(keys', s)
    BY <2>1, <2>4 DEF w
  <2>9. Doubled(keys, s)' = Doubled(keys', s)
    BY DEF Doubled
  <2>10. s \in {3, 4}
    BY <2>1
  <2> QED
    BY <1>5, <1>6, <2>7, <2>8, <2>9, <2>10 DEF ClickState
<1> QED
  BY <1>4, <1>8, <1>9, SendClick

\* The last report of a click counts every slot that is latched.
LEMMA ClickUp ==
  ASSUME effects \subseteq {"phantom"}, TypeOK, TypeOK', ClickState,
         NEW s \in Slots, Release(s)
  PROVE  ClickState'
<1> USE DEF TypeOK
<1>1. PICK t \in Slots :
        /\ Occupied(keys) = {t}
        /\ pressed >= 1
        /\ \/ last = keys /\ cnt = pressed - 1
           \/ t \in {3, 4} /\ last = Doubled(keys, t) /\ cnt = Wrap(pressed - 2)
  <2>1. Occupied(NoKeys) = {}
    BY DEF Occupied, NoKeys
  <2> QED
    BY <2>1 DEF ClickState, Release
<1>2. s = t
  BY <1>1 DEF Release
<1>3. keys' = NoKeys /\ pressed' = pressed /\ Send(keys')
  <2>1. keys' \in KeyReports /\ Occupied(keys') = {}
    BY <1>1, <1>2 DEF Release
  <2> QED
    BY <2>1 DEF Release, KeyReports, Occupied, NoKeys
<1>4. Deliver(NoKeys)
  <2>1. \A u \in {3, 4} : NoKeys[u] = 0
    BY DEF NoKeys, Slots
  <2>2. NoKeys \in KeyReports
    BY <1>3
  <2> QED
    BY <1>3, <2>1, <2>2, SendClick
<1>5. last' = NoKeys /\ Phantoms(NoKeys) = {} /\ Released(last, NoKeys) = Occupied(last)
  BY <1>3, <1>4, KeyReportFacts DEF Deliver, Occupied, NoKeys, Released
<1>6. cnt' = Wrap(cnt + Cardinality(Occupied(last)))
  <2>1. Cardinality(Phantoms(NoKeys)) = 0 /\ cnt \in Int
    BY <1>5, FS_EmptySet DEF Cnt
  <2>2. cnt - 0 = cnt
    BY <2>1
  <2> QED
    BY <1>4, <1>5, <2>1, <2>2 DEF Deliver, Tally, Incr
<1>7. pressed \in 1..MaxCnt
  BY <1>1, StrokeCountingAssumption, MaxCntAssumption
<1>8. CASE last = keys /\ cnt = pressed - 1
  <2>1. Cardinality(Occupied(last)) = 1
    BY <1>1, <1>8, FS_Singleton
  <2>2. cnt + 1 = pressed /\ pressed \in Cnt
    BY <1>7, <1>8 DEF Cnt
  <2>3. cnt' = pressed
    BY <1>6, <2>1, <2>2, WrapFacts
  <2> QED
    BY <1>3, <1>5, <2>3 DEF ClickState
<1>9. CASE t \in {3, 4} /\ last = Doubled(keys, t) /\ cnt = Wrap(pressed - 2)
  <2>1. t + 4 \in Slots /\ t # t + 4 /\ keys \in [Slots -> KeyCodes \cup {0}]
    BY <1>9 DEF Slots, KeyReports
  <2>2. Occupied(last) = {t, t + 4}
    BY <1>1, <1>9, <2>1 DEF Occupied, Doubled
  <2>3. Cardinality(Occupied(last)) = 2
    <3>1. Cardinality({t} \cup {t + 4}) = Cardinality({t}) + 1
      BY <2>1, FS_Singleton, FS_AddElement
    <3>2. {t} \cup {t + 4} = {t, t + 4} /\ Cardinality({t}) = 1
      BY FS_Singleton
    <3> QED
      BY <2>2, <3>1, <3>2
  <2>4. cnt' = pressed
    BY <1>6, <1>7, <1>9, <2>3, WrapBack
  <2> QED
    BY <1>3, <1>5, <2>4 DEF ClickState
<1> QED
  BY <1>1, <1>8, <1>9

\* If one key is held at a time, every press has been counted once when the
\* key is up, also where a slot repeats another one ("on a single click v7
\* may repeat v3", the comment in rw()).
THEOREM ClicksAreExact == Spec => []ClickIsExact
<1>1. Init => ClickInv
  BY DEF Init, ClickInv, ClickState
<1>2. TypeOK /\ TypeOK' /\ ClickInv /\ [Next]_vars => ClickInv'
  <2> SUFFICES ASSUME effects \subseteq {"phantom"}, TypeOK, TypeOK',
                      ClickState, [Next]_vars
               PROVE  ClickState'
    BY LineIsFixed DEF ClickInv
  <2>1. CASE UNCHANGED vars
    BY <2>1 DEF vars, ClickState, Occupied, Doubled
  <2>2. ~Repeat /\ ~RollOver
    BY DEF Repeat, RollOver
  <2> QED
    BY <2>1, <2>2, ClickDown, ClickUp DEF Next
<1>3. ClickInv => ClickIsExact
  <2>1. Occupied(NoKeys) = {}
    BY DEF Occupied, NoKeys
  <2> QED
    BY <2>1 DEF ClickInv, ClickState, ClickIsExact
<1> QED
  BY <1>1, <1>2, <1>3, StrokeTypes, PTL DEF Spec

=============================================================================
