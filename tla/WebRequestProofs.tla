-------------------------- MODULE WebRequestProofs --------------------------
(***************************************************************************)
(* A request is handed over once and as it was sent, however its segments  *)
(* are cut: proofs about WebRequest for every set of requests.             *)
(*                                                                         *)
(* The inductive invariant says of what is still to be parsed (the line    *)
(* kept, the rest of the segment, what is under way: Rest) which part of   *)
(* the request it is.  LineOf and EmptyLine are the heart: if that part    *)
(* begins with a line, the first new line of the segment ends that very    *)
(* line, wherever the cuts have fallen.                                    *)
(***************************************************************************)
EXTENDS WebRequest, SequenceTheorems, TLAPS

\* What a request is made of.
Pieces == {CR, LF}
            \cup ({"head", "length", "expect"} \X (STRING \cup Nat) \X {1, 2})
            \cup ({"body"} \X Nat)

\* The parts of a request, from a place between two lines to its end.
FromBody(q)   == [i \in 1..q.body |-> <<"body", i>>]
FromEnd(q)    == <<CR, LF>> \o FromBody(q)
FromExpect(q) == (IF q.expect THEN Line("expect", 0) ELSE <<>>) \o FromEnd(q)
FromLength(q) ==
  (IF q.length = 0 THEN <<>> ELSE Line("length", q.length)) \o FromExpect(q)

Rest == temp \o (seg \o wire)

NoLF(s) == \A i \in 1..Len(s) : s[i] # LF

-----------------------------------------------------------------------------
(* Sequences                                                               *)

\* A line x and the rest r are the same bytes as the line kept, s1, the
\* segment s2 and what follows it, s3; and seg[n] is the first new line.
LineEndsAt(s1, s2, s3, x, r, n) ==
  /\ s1 \in Seq(Pieces) /\ s2 \in Seq(Pieces) /\ s3 \in Seq(Pieces)
  /\ x \in Seq(Pieces) /\ r \in Seq(Pieces) /\ LF \in Pieces
  /\ s1 \o (s2 \o s3) = x \o (<<LF>> \o r)
  /\ NoLF(x) /\ NoLF(s1)
  /\ n \in 1..Len(s2) /\ s2[n] = LF /\ \A i \in 1..n - 1 : s2[i] # LF

\* Then x is what was kept with the segment up to n, and r what follows.
LEMMA FirstLine ==
  ASSUME NEW s1, NEW s2, NEW s3, NEW x, NEW r, NEW n,
         LineEndsAt(s1, s2, s3, x, r, n)
  PROVE  /\ s1 \o SubSeq(s2, 1, n - 1) = x
         /\ SubSeq(s2, n + 1, Len(s2)) \o s3 = r
<1> DEFINE T == Pieces
<1> DEFINE lf == LF
<1> USE DEF LineEndsAt, NoLF
<1>a. /\ s1 \in Seq(T) /\ s2 \in Seq(T) /\ s3 \in Seq(T) /\ lf \in T
      /\ x \in Seq(T) /\ r \in Seq(T) /\ s1 \o (s2 \o s3) = x \o (<<lf>> \o r)
      /\ \A i \in 1..Len(x) : x[i] # lf
      /\ \A i \in 1..Len(s1) : s1[i] # lf
      /\ n \in 1..Len(s2) /\ s2[n] = lf /\ \A i \in 1..n - 1 : s2[i] # lf
  OBVIOUS
<1> HIDE DEF LineEndsAt, NoLF, T, lf
<1> USE <1>a
<1> DEFINE s == s1 \o (s2 \o s3)
<1> DEFINE k == Len(s1) + n
<1>0. /\ Len(s1) \in Nat /\ Len(s2) \in Nat /\ Len(s3) \in Nat
      /\ Len(x) \in Nat /\ Len(r) \in Nat
  BY LenProperties
<1>1. /\ s2 \o s3 \in Seq(T) /\ Len(s2 \o s3) = Len(s2) + Len(s3)
      /\ \A i \in 1..Len(s2) + Len(s3) :
           (s2 \o s3)[i] = IF i <= Len(s2) THEN s2[i] ELSE s3[i - Len(s2)]
  BY ConcatProperties
<1>2. /\ s \in Seq(T) /\ Len(s) = Len(s1) + Len(s2) + Len(s3)
      /\ \A i \in 1..Len(s1) + Len(s2) + Len(s3) :
           s[i] = IF i <= Len(s1) THEN s1[i] ELSE (s2 \o s3)[i - Len(s1)]
  <2>1. /\ s \in Seq(T) /\ Len(s) = Len(s1) + Len(s2 \o s3)
        /\ \A i \in 1..Len(s1) + Len(s2 \o s3) :
             s[i] = IF i <= Len(s1) THEN s1[i] ELSE (s2 \o s3)[i - Len(s1)]
    <3>1. s1 \in Seq(T) /\ s2 \o s3 \in Seq(T)
      BY <1>1
    <3> QED BY <3>1, ConcatProperties, Zenon
  <2>2. Len(s1) + Len(s2 \o s3) = Len(s1) + Len(s2) + Len(s3)
    BY <1>0, <1>1
  <2> QED BY <2>1, <2>2
<1>3. /\ <<lf>> \in Seq(T) /\ Len(<<lf>>) = 1 /\ <<lf>>[1] = lf
  OBVIOUS
<1>4. /\ <<lf>> \o r \in Seq(T) /\ Len(<<lf>> \o r) = 1 + Len(r)
      /\ \A i \in 1..1 + Len(r) :
           (<<lf>> \o r)[i] = IF i <= 1 THEN <<lf>>[i] ELSE r[i - 1]
  BY <1>3, ConcatProperties
<1>5. /\ Len(s) = Len(x) + 1 + Len(r)
      /\ \A i \in 1..Len(x) + 1 + Len(r) :
           s[i] = IF i <= Len(x) THEN x[i] ELSE (<<lf>> \o r)[i - Len(x)]
  <2>1. /\ Len(s) = Len(x) + Len(<<lf>> \o r)
        /\ \A i \in 1..Len(x) + Len(<<lf>> \o r) :
             s[i] = IF i <= Len(x) THEN x[i] ELSE (<<lf>> \o r)[i - Len(x)]
    BY <1>4, ConcatProperties
  <2>2. Len(x) + Len(<<lf>> \o r) = Len(x) + 1 + Len(r)
    BY <1>0, <1>4
  <2> QED BY <2>1, <2>2
<1> HIDE DEF s
<1>6. ASSUME NEW i \in 1..k
      PROVE  s[i] = IF i <= Len(s1) THEN s1[i] ELSE s2[i - Len(s1)]
  <2>1. i \in 1..Len(s1) + Len(s2) + Len(s3)
    BY <1>0
  <2>2. CASE i <= Len(s1)
    BY <1>2, <2>1, <2>2
  <2>3. CASE i > Len(s1)
    <3>1. i - Len(s1) \in 1..Len(s2) + Len(s3) /\ i - Len(s1) <= Len(s2)
      BY <1>0, <2>3
    <3>2. s[i] = (s2 \o s3)[i - Len(s1)]
      BY <1>0, <1>2, <2>1, <2>3
    <3>3. (s2 \o s3)[i - Len(s1)] = s2[i - Len(s1)]
      BY <1>1, <3>1
    <3> QED BY <1>0, <2>3, <3>2, <3>3
  <2> QED BY <1>0, <2>2, <2>3
<1>7. s[k] = lf /\ \A i \in 1..k - 1 : s[i] # lf
  <2>1. s[k] = lf
    <3>1. k \in 1..k /\ k > Len(s1) /\ k - Len(s1) = n
      BY <1>0
    <3>2. s[k] = s2[k - Len(s1)]
      BY <1>0, <1>6, <3>1
    <3> QED BY <3>1, <3>2
  <2>2. ASSUME NEW i \in 1..k - 1 PROVE s[i] # lf
    <3>1. CASE i <= Len(s1)
      <4>1. i \in 1..Len(s1) /\ i \in 1..k
        BY <1>0, <3>1
      <4>2. s[i] = s1[i]
        BY <1>6, <3>1, <4>1
      <4> QED BY <4>1, <4>2
    <3>2. CASE i > Len(s1)
      <4>1. i - Len(s1) \in 1..n - 1 /\ i \in 1..k
        BY <1>0, <3>2
      <4>2. s[i] = s2[i - Len(s1)]
        BY <1>0, <1>6, <3>2, <4>1
      <4>3. s2[i - Len(s1)] # lf
        BY <4>1
      <4> QED BY <4>2, <4>3
    <3>3. i <= Len(s1) \/ i > Len(s1)
      BY <1>0
    <3> QED BY <3>1, <3>2, <3>3
  <2> QED BY <2>1, <2>2
<1>8. s[Len(x) + 1] = lf /\ \A i \in 1..Len(x) : s[i] # lf
  <2>1. s[Len(x) + 1] = (<<lf>> \o r)[1]
    BY <1>0, <1>5
  <2>2. (<<lf>> \o r)[1] = lf
    BY <1>0, <1>3, <1>4
  <2>3. \A i \in 1..Len(x) : s[i] = x[i]
    BY <1>0, <1>5
  <2> QED BY <2>1, <2>2, <2>3
<1>9. k = Len(x) + 1
  BY <1>0, <1>7, <1>8
<1>10. /\ SubSeq(s2, 1, n - 1) \in Seq(T)
       /\ Len(SubSeq(s2, 1, n - 1)) = n - 1
       /\ \A i \in 1..n - 1 : SubSeq(s2, 1, n - 1)[i] = s2[i]
  <2>1. \A i \in 1..n - 1 : s2[i] \in T
    BY <1>0, ElementOfSeq
  <2> QED BY <1>0, <2>1, SubSeqProperties
<1>11. s1 \o SubSeq(s2, 1, n - 1) = x
  <2> DEFINE t == s1 \o SubSeq(s2, 1, n - 1)
  <2>1. /\ t \in Seq(T) /\ Len(t) = Len(s1) + (n - 1)
        /\ \A i \in 1..Len(s1) + (n - 1) :
             t[i] = IF i <= Len(s1) THEN s1[i] ELSE SubSeq(s2, 1, n - 1)[i - Len(s1)]
    BY <1>0, <1>10, ConcatProperties
  <2> HIDE DEF t
  <2>2. Len(t) = Len(x)
    BY <1>0, <1>9, <2>1
  <2>3. ASSUME NEW i \in 1..Len(t) PROVE t[i] = x[i]
    <3>1. s[i] = x[i]
      BY <1>0, <1>5, <2>2
    <3>2. CASE i <= Len(s1)
      BY <1>0, <1>6, <1>9, <2>1, <2>2, <3>1, <3>2
    <3>3. CASE i > Len(s1)
      <4>1. i - Len(s1) \in 1..n - 1 /\ i \in 1..k
        BY <1>0, <2>1, <3>3
      <4>2. t[i] = s2[i - Len(s1)]
        BY <1>0, <1>10, <2>1, <3>3, <4>1
      <4>3. s[i] = s2[i - Len(s1)]
        BY <1>0, <1>6, <3>3, <4>1
      <4> QED BY <3>1, <4>2, <4>3
    <3> QED BY <3>2, <3>3, <1>0, <2>1
  <2>4. t = x
    BY <2>1, <2>2, <2>3, SeqEqual
  <2> QED BY <2>4 DEF t
<1>12. /\ SubSeq(s2, n + 1, Len(s2)) \in Seq(T)
       /\ Len(SubSeq(s2, n + 1, Len(s2))) = Len(s2) - n
       /\ \A i \in 1..Len(s2) - n : SubSeq(s2, n + 1, Len(s2))[i] = s2[n + i]
  <2>1. \A i \in n + 1..Len(s2) : s2[i] \in T
    BY <1>0, ElementOfSeq
  <2>2. /\ SubSeq(s2, n + 1, Len(s2)) \in Seq(T)
        /\ Len(SubSeq(s2, n + 1, Len(s2)))
             = IF n + 1 <= Len(s2) THEN Len(s2) - (n + 1) + 1 ELSE 0
        /\ \A i \in 1..Len(s2) - (n + 1) + 1 :
             SubSeq(s2, n + 1, Len(s2))[i] = s2[(n + 1) + i - 1]
    BY <1>0, <2>1, SubSeqProperties
  <2> QED BY <1>0, <2>2
<1>13. SubSeq(s2, n + 1, Len(s2)) \o s3 = r
  <2> DEFINE t == SubSeq(s2, n + 1, Len(s2)) \o s3
  <2>1. /\ t \in Seq(T) /\ Len(t) = (Len(s2) - n) + Len(s3)
        /\ \A i \in 1..(Len(s2) - n) + Len(s3) :
             t[i] = IF i <= Len(s2) - n THEN SubSeq(s2, n + 1, Len(s2))[i]
                    ELSE s3[i - (Len(s2) - n)]
    <3>1. /\ t \in Seq(T) /\ Len(t) = Len(SubSeq(s2, n + 1, Len(s2))) + Len(s3)
          /\ \A i \in 1..Len(SubSeq(s2, n + 1, Len(s2))) + Len(s3) :
               t[i] = IF i <= Len(SubSeq(s2, n + 1, Len(s2)))
                      THEN SubSeq(s2, n + 1, Len(s2))[i]
                      ELSE s3[i - Len(SubSeq(s2, n + 1, Len(s2)))]
      BY <1>12, ConcatProperties
    <3> HIDE DEF t
    <3> QED BY <1>12, <3>1
  <2> HIDE DEF t
  <2>2. Len(t) = Len(r)
    <3>1. Len(s1) + Len(s2) + Len(s3) = Len(x) + 1 + Len(r)
      BY <1>2, <1>5
    <3>2. n \in Int /\ Len(s1) + n = Len(x) + 1 /\ Len(t) = (Len(s2) - n) + Len(s3)
      BY <1>9, <2>1
    <3> HIDE <1>a
    <3> QED BY <1>0, <3>1, <3>2
  <2>3. ASSUME NEW i \in 1..Len(t) PROVE t[i] = r[i]
    <3>1. k + i \in 1..Len(s1) + Len(s2) + Len(s3) /\ i \in Int /\ i >= 1
      BY <1>0, <2>1
    <3>2. s[k + i] = (s2 \o s3)[n + i]
      <4>1. k + i > Len(s1) /\ (k + i) - Len(s1) = n + i
        BY <1>0, <3>1
      <4>2. s[k + i] = (s2 \o s3)[(k + i) - Len(s1)]
        <5>1. s[k + i] = IF k + i <= Len(s1) THEN s1[k + i]
                         ELSE (s2 \o s3)[(k + i) - Len(s1)]
          BY <1>2, <3>1, Zenon
        <5>2. ~(k + i <= Len(s1))
          BY <1>0, <3>1, <4>1
        <5> QED BY <5>1, <5>2, Zenon
      <4> QED BY <4>1, <4>2
    <3>3. s[k + i] = (<<lf>> \o r)[i + 1]
      <4>1. /\ k + i > Len(x) /\ (k + i) - Len(x) = i + 1
            /\ k + i \in 1..Len(x) + 1 + Len(r)
        <5>1. k + i \in 1..Len(s)
          BY <1>0, <1>2, <3>1
        <5>2. Len(s) = Len(x) + 1 + Len(r)
          BY <1>5
        <5>3. k + i \in 1..Len(x) + 1 + Len(r)
          BY <5>1, <5>2
        <5>4. k + i = Len(x) + 1 + i
          BY <1>9
        <5>5. k + i > Len(x) /\ (k + i) - Len(x) = i + 1
          <6> HIDE DEF k
          <6> QED BY <1>0, <3>1, <5>4
        <5> QED BY <5>3, <5>5
      <4>2. s[k + i] = (<<lf>> \o r)[(k + i) - Len(x)]
        <5>1. s[k + i] = IF k + i <= Len(x) THEN x[k + i]
                         ELSE (<<lf>> \o r)[(k + i) - Len(x)]
          BY <1>5, <4>1, Zenon
        <5>2. ~(k + i <= Len(x))
          BY <1>0, <3>1, <4>1
        <5> QED BY <5>1, <5>2, Zenon
      <4> QED BY <4>1, <4>2
    <3>4. (<<lf>> \o r)[i + 1] = r[i]
      <4>1. i + 1 \in 1..1 + Len(r) /\ ~(i + 1 <= 1) /\ (i + 1) - 1 = i
        BY <1>0, <2>2
      <4>2. (<<lf>> \o r)[i + 1] = IF i + 1 <= 1 THEN <<lf>>[i + 1]
                                   ELSE r[(i + 1) - 1]
        BY <1>4, <4>1, Zenon
      <4> QED BY <4>1, <4>2, Zenon
    <3>5. (s2 \o s3)[n + i] = t[i]
      <4>1. n + i \in 1..Len(s2) + Len(s3)
        BY <1>0, <2>1
      <4>2. CASE i <= Len(s2) - n
        <5>1. t[i] = SubSeq(s2, n + 1, Len(s2))[i]
          BY <2>1, <4>2
        <5>2. i \in 1..Len(s2) - n /\ n + i <= Len(s2)
          BY <1>0, <3>1, <4>2
        <5> QED BY <1>1, <1>12, <4>1, <5>1, <5>2
      <4>3. CASE i > Len(s2) - n
        <5>1. t[i] = s3[i - (Len(s2) - n)]
          BY <1>0, <2>1, <4>3
        <5>2. n + i > Len(s2) /\ (n + i) - Len(s2) = i - (Len(s2) - n)
          BY <1>0, <3>1, <4>3
        <5>3. (s2 \o s3)[n + i] = s3[(n + i) - Len(s2)]
          BY <1>0, <1>1, <4>1, <5>2
        <5> QED BY <5>1, <5>2, <5>3
      <4>4. i <= Len(s2) - n \/ i > Len(s2) - n
        BY <1>0, <3>1
      <4> QED BY <4>2, <4>3, <4>4
    <3> QED BY <3>2, <3>3, <3>4, <3>5
  <2>4. t = r
    BY <2>1, <2>2, <2>3, SeqEqual
  <2> QED BY <2>4 DEF t
<1> QED BY <1>11, <1>13

-----------------------------------------------------------------------------
(* Lines                                                                   *)

LEMMA PieceFacts ==
  /\ CR \in Pieces /\ LF \in Pieces /\ CR # LF
  /\ \A kind \in {"head", "length", "expect"}, v \in STRING \cup Nat, k \in {1, 2} :
       /\ <<kind, v, k>> \in Pieces
       /\ <<kind, v, k>> # LF /\ <<kind, v, k>> # CR
  /\ \A i \in Nat : <<"body", i>> \in Pieces /\ <<"body", i>> # LF
<1>1. CR \in Pieces /\ LF \in Pieces
  BY DEF Pieces
<1>2. CR # LF
  BY DEF CR, LF
<1>3. ASSUME NEW kind \in {"head", "length", "expect"},
             NEW v \in STRING \cup Nat, NEW k \in {1, 2}
      PROVE  /\ <<kind, v, k>> \in Pieces
             /\ <<kind, v, k>> # LF /\ <<kind, v, k>> # CR
  <2>1. <<kind, v, k>> \in Pieces
    BY DEF Pieces
  <2>2. <<kind, v, k>>[1] = kind /\ LF[1] = "lf" /\ CR[1] = "cr"
    BY DEF LF, CR
  <2>3. kind # "lf" /\ kind # "cr"
    OBVIOUS
  <2> QED BY <2>1, <2>2, <2>3
<1>4. ASSUME NEW i \in Nat
      PROVE  <<"body", i>> \in Pieces /\ <<"body", i>> # LF
  <2>1. <<"body", i>> \in Pieces
    BY DEF Pieces
  <2>2. <<"body", i>>[1] = "body" /\ LF[1] = "lf"
    BY DEF LF
  <2> QED BY <2>1, <2>2
<1> QED BY <1>1, <1>2, <1>3, <1>4

LEMMA LineOf ==
  ASSUME temp \in Seq(Pieces), seg \in Seq(Pieces), wire \in Seq(Pieces),
         NoLF(temp),
         NEW a \in Pieces, NEW b \in Pieces, NEW r \in Seq(Pieces),
         a # LF, b # LF,
         Rest = <<a, b, CR, LF>> \o r,
         NEW n \in Ends
  PROVE  LineTo(n) = <<a, b>> /\ SubSeq(seg, n + 1, Len(seg)) \o wire = r
<1> DEFINE x == <<a, b, CR>>
<1>1. /\ x \in Seq(Pieces) /\ Len(x) = 3
      /\ x[1] = a /\ x[2] = b /\ x[3] = CR
      /\ <<LF>> \in Seq(Pieces)
  BY PieceFacts
<1>2. NoLF(x) /\ LF \in Pieces
  BY <1>1, PieceFacts DEF NoLF
<1>3. <<a, b, CR, LF>> = x \o <<LF>>
  OBVIOUS
<1>4. Rest = x \o (<<LF>> \o r)
  BY <1>1, <1>3, ConcatAssociative
<1> HIDE DEF x
<1>6. /\ temp \o SubSeq(seg, 1, n - 1) = x
      /\ SubSeq(seg, n + 1, Len(seg)) \o wire = r
  <2>1. n \in 1..Len(seg) /\ seg[n] = LF /\ \A i \in 1..n - 1 : seg[i] # LF
    BY DEF Ends
  <2>2. temp \o (seg \o wire) = x \o (<<LF>> \o r)
    BY <1>4 DEF Rest
  <2>3. LineEndsAt(temp, seg, wire, x, r, n)
    BY <1>1, <1>2, <2>1, <2>2 DEF LineEndsAt
  <2> QED BY <2>3, FirstLine
<1>7. Trim(x) = <<a, b>>
  <2>1. x # <<>> /\ Last(x) = CR
    <3>1. x # <<>>
      <4>1. Len(<<>>) = 0 /\ Len(x) # 0
        BY <1>1
      <4> QED BY <4>1, Zenon
    <3>2. Last(x) = x[Len(x)]
      BY DEF Last
    <3> QED BY <1>1, <3>1, <3>2
  <2>2. Front(x) = <<a, b>>
    <3>1. /\ SubSeq(x, 1, 2) \in Seq(Pieces) /\ Len(SubSeq(x, 1, 2)) = 2
          /\ SubSeq(x, 1, 2)[1] = a /\ SubSeq(x, 1, 2)[2] = b
      <4>1. \A i \in 1..2 : x[i] \in Pieces
        BY <1>1
      <4>2. /\ SubSeq(x, 1, 2) \in Seq(Pieces)
            /\ Len(SubSeq(x, 1, 2)) = IF 1 <= 2 THEN 2 - 1 + 1 ELSE 0
            /\ \A i \in 1..2 - 1 + 1 : SubSeq(x, 1, 2)[i] = x[1 + i - 1]
        BY <4>1, SubSeqProperties
      <4> QED BY <1>1, <4>2
    <3>2. /\ <<a, b>> \in Seq(Pieces) /\ Len(<<a, b>>) = 2
          /\ <<a, b>>[1] = a /\ <<a, b>>[2] = b
      OBVIOUS
    <3>3. \A i \in 1..2 : SubSeq(x, 1, 2)[i] = <<a, b>>[i]
      BY <3>1, <3>2
    <3>4. SubSeq(x, 1, 2) = <<a, b>>
      BY <3>1, <3>2, <3>3, SeqEqual
    <3> QED BY <1>1, <3>4 DEF Front
  <2> QED BY <2>1, <2>2 DEF Trim
<1> QED BY <1>6, <1>7 DEF LineTo

LEMMA EmptyLine ==
  ASSUME temp \in Seq(Pieces), seg \in Seq(Pieces), wire \in Seq(Pieces),
         NoLF(temp), NEW r \in Seq(Pieces),
         Rest = <<CR, LF>> \o r,
         NEW n \in Ends
  PROVE  LineTo(n) = <<>> /\ SubSeq(seg, n + 1, Len(seg)) \o wire = r
<1> DEFINE x == <<CR>>
<1>1. x \in Seq(Pieces) /\ Len(x) = 1 /\ x[1] = CR /\ <<LF>> \in Seq(Pieces)
  BY PieceFacts
<1>2. NoLF(x) /\ LF \in Pieces
  BY <1>1, PieceFacts DEF NoLF
<1>3. <<CR, LF>> = x \o <<LF>>
  <2>1. /\ <<CR, LF>> \in Seq(Pieces) /\ Len(<<CR, LF>>) = 2
        /\ <<CR, LF>>[1] = CR /\ <<CR, LF>>[2] = LF
        /\ Len(<<LF>>) = 1 /\ <<LF>>[1] = LF
    BY PieceFacts
  <2>2. /\ x \o <<LF>> \in Seq(Pieces) /\ Len(x \o <<LF>>) = Len(x) + Len(<<LF>>)
        /\ \A i \in 1..Len(x) + Len(<<LF>>) :
             (x \o <<LF>>)[i] = IF i <= Len(x) THEN x[i] ELSE <<LF>>[i - Len(x)]
    BY <1>1, ConcatProperties
  <2>3. \A i \in 1..2 : (x \o <<LF>>)[i] = <<CR, LF>>[i]
    <3> HIDE DEF x
    <3> QED BY <1>1, <2>1, <2>2
  <2>4. Len(x \o <<LF>>) = 2
    <3> HIDE DEF x
    <3> QED BY <1>1, <2>1, <2>2
  <2> QED BY <2>1, <2>2, <2>3, <2>4, SeqEqual
<1>4. Rest = x \o (<<LF>> \o r)
  BY <1>1, <1>3, ConcatAssociative
<1> HIDE DEF x
<1>6. /\ temp \o SubSeq(seg, 1, n - 1) = x
      /\ SubSeq(seg, n + 1, Len(seg)) \o wire = r
  <2>1. n \in 1..Len(seg) /\ seg[n] = LF /\ \A i \in 1..n - 1 : seg[i] # LF
    BY DEF Ends
  <2>2. temp \o (seg \o wire) = x \o (<<LF>> \o r)
    BY <1>4 DEF Rest
  <2>3. LineEndsAt(temp, seg, wire, x, r, n)
    BY <1>1, <1>2, <2>1, <2>2 DEF LineEndsAt
  <2> QED BY <2>3, FirstLine
<1>7. Trim(x) = <<>>
  <2>1. x # <<>> /\ Last(x) = CR
    <3>1. x # <<>>
      <4>1. Len(<<>>) = 0 /\ Len(x) # 0
        BY <1>1
      <4> QED BY <4>1, Zenon
    <3>2. Last(x) = x[Len(x)]
      BY DEF Last
    <3> QED BY <1>1, <3>1, <3>2
  <2>2. Front(x) = <<>>
    BY <1>1, SubSeqEmpty DEF Front
  <2> QED BY <2>1, <2>2 DEF Trim
<1> QED BY <1>6, <1>7 DEF LineTo

-----------------------------------------------------------------------------
(* Requests                                                                *)

HeadLine(q)   == IF q.head = "" THEN <<CR, LF>> ELSE Line("head", q.head)
LengthLine(q) == IF q.length = 0 THEN <<>> ELSE Line("length", q.length)
ExpectLine(q) == IF q.expect THEN Line("expect", 0) ELSE <<>>

\* Concatenation, without its definition.
Join(s, t) == s \o t

LEMMA Joined ==
  ASSUME NEW s \in Seq(Pieces), NEW t \in Seq(Pieces)
  PROVE  Join(s, t) \in Seq(Pieces)
<1> HIDE DEF Pieces
<1> QED BY ConcatProperties, Zenon DEF Join

LEMMA Regrouped ==
  ASSUME NEW s \in Seq(Pieces), NEW t \in Seq(Pieces), NEW u \in Seq(Pieces)
  PROVE  Join(Join(s, t), u) = Join(s, Join(t, u))
<1> HIDE DEF Pieces
<1> QED BY ConcatAssociative, SMT DEF Join

LEMMA RequestType ==
  ASSUME NEW q \in Requests
  PROVE  /\ q.head \in STRING /\ q.length \in Nat
         /\ q.expect \in BOOLEAN /\ q.body \in Nat
BY WebRequestAssumption

LEMMA LineType ==
  ASSUME NEW kind \in {"head", "length", "expect"}, NEW v \in STRING \cup Nat
  PROVE  /\ Line(kind, v) \in Seq(Pieces)
         /\ <<kind, v, 1>> \in Pieces /\ <<kind, v, 2>> \in Pieces
         /\ <<kind, v, 1>> # LF /\ <<kind, v, 2>> # LF
BY PieceFacts DEF Line

LEMMA PartTypes ==
  ASSUME NEW q \in Requests
  PROVE  /\ HeadLine(q) \in Seq(Pieces) /\ LengthLine(q) \in Seq(Pieces)
         /\ ExpectLine(q) \in Seq(Pieces) /\ <<CR, LF>> \in Seq(Pieces)
         /\ FromBody(q) \in Seq(Pieces) /\ Len(FromBody(q)) = q.body
         /\ FromEnd(q) \in Seq(Pieces) /\ FromExpect(q) \in Seq(Pieces)
         /\ FromLength(q) \in Seq(Pieces)
<1>1. HeadLine(q) \in Seq(Pieces)
  <2>1. <<CR, LF>> \in Seq(Pieces)
    BY PieceFacts
  <2>2. q.head \in STRING \cup Nat
    BY RequestType
  <2>3. Line("head", q.head) \in Seq(Pieces)
    BY <2>2, LineType
  <2> QED BY <2>1, <2>3 DEF HeadLine
<1>2. LengthLine(q) \in Seq(Pieces)
  <2>1. <<>> \in Seq(Pieces)
    OBVIOUS
  <2> QED BY <2>1, RequestType, LineType DEF LengthLine
<1>3. ExpectLine(q) \in Seq(Pieces)
  <2>1. <<>> \in Seq(Pieces) /\ 0 \in Nat
    OBVIOUS
  <2> QED BY <2>1, LineType DEF ExpectLine
<1>4. <<CR, LF>> \in Seq(Pieces)
  BY PieceFacts
<1>5. FromBody(q) \in Seq(Pieces) /\ Len(FromBody(q)) = q.body
  BY RequestType, PieceFacts DEF FromBody
<1>6. FromEnd(q) \in Seq(Pieces)
  BY <1>4, <1>5, ConcatProperties DEF FromEnd
<1>7. FromExpect(q) \in Seq(Pieces)
  BY <1>3, <1>6, ConcatProperties DEF FromExpect, ExpectLine
<1>8. FromLength(q) \in Seq(Pieces)
  BY <1>2, <1>7, ConcatProperties DEF FromLength, LengthLine
<1> QED BY <1>1, <1>2, <1>3, <1>4, <1>5, <1>6, <1>7, <1>8

LEMMA StreamIs ==
  ASSUME NEW q \in Requests
  PROVE  Stream(q) = HeadLine(q) \o FromLength(q)
<1> DEFINE h == HeadLine(q)
<1> DEFINE l == LengthLine(q)
<1> DEFINE e == ExpectLine(q)
<1> DEFINE c == <<CR, LF>>
<1> DEFINE b == FromBody(q)
<1>1. /\ h \in Seq(Pieces) /\ l \in Seq(Pieces) /\ e \in Seq(Pieces)
      /\ c \in Seq(Pieces) /\ b \in Seq(Pieces)
  BY PartTypes
<1>2. Stream(q) = (((h \o l) \o e) \o c) \o b
  BY DEF Stream, HeadLine, LengthLine, ExpectLine, FromBody
<1>3. FromLength(q) = l \o (e \o (c \o b))
  BY DEF FromLength, FromExpect, FromEnd, LengthLine, ExpectLine
<1> HIDE DEF h, l, e, c, b
<1>4. Join(h, l) \in Seq(Pieces) /\ Join(c, b) \in Seq(Pieces)
  BY <1>1, Joined, Zenon
<1>5. Join(Join(h, l), e) \in Seq(Pieces) /\ Join(e, Join(c, b)) \in Seq(Pieces)
  BY <1>1, <1>4, Joined, Zenon
<1>6. Join(Join(Join(Join(h, l), e), c), b)
        = Join(Join(Join(h, l), e), Join(c, b))
  BY <1>1, <1>5, Regrouped, SMT
<1>7. Join(Join(Join(h, l), e), Join(c, b))
        = Join(Join(h, l), Join(e, Join(c, b)))
  BY <1>1, <1>4, Regrouped, SMT
<1>8. Join(Join(h, l), Join(e, Join(c, b)))
        = Join(h, Join(l, Join(e, Join(c, b))))
  BY <1>1, <1>5, Regrouped, SMT
<1>9. Stream(q) = h \o FromLength(q)
  BY <1>2, <1>3, <1>6, <1>7, <1>8, Zenon DEF Join
<1> QED BY <1>9 DEF h

\* Each part that begins in the headers ends with the headers' end and the body.
LEMMA EndComes ==
  ASSUME NEW q \in Requests
  PROVE  /\ \E x \in Seq(Pieces) : Stream(q) = x \o FromEnd(q)
         /\ \E x \in Seq(Pieces) : FromLength(q) = x \o FromEnd(q)
         /\ \E x \in Seq(Pieces) : FromExpect(q) = x \o FromEnd(q)
         /\ \E x \in Seq(Pieces) : FromEnd(q) = x \o FromEnd(q)
<1> USE PartTypes
<1>1. \E x \in Seq(Pieces) : FromEnd(q) = x \o FromEnd(q)
  <2>1. <<>> \in Seq(Pieces) /\ FromEnd(q) = <<>> \o FromEnd(q)
    BY ConcatEmptySeq
  <2> QED BY <2>1
<1>2. FromExpect(q) = ExpectLine(q) \o FromEnd(q)
  BY DEF FromExpect, ExpectLine
<1>3. /\ LengthLine(q) \o ExpectLine(q) \in Seq(Pieces)
      /\ FromLength(q) = (LengthLine(q) \o ExpectLine(q)) \o FromEnd(q)
  <2>1. FromLength(q) = LengthLine(q) \o (ExpectLine(q) \o FromEnd(q))
    BY <1>2 DEF FromLength, LengthLine
  <2>2. /\ LengthLine(q) \in Seq(Pieces) /\ ExpectLine(q) \in Seq(Pieces)
        /\ FromEnd(q) \in Seq(Pieces)
    OBVIOUS
  <2>3. LengthLine(q) \o ExpectLine(q) \in Seq(Pieces)
    BY <2>2, Joined, Zenon DEF Join
  <2>4. (LengthLine(q) \o ExpectLine(q)) \o FromEnd(q)
          = LengthLine(q) \o (ExpectLine(q) \o FromEnd(q))
    <3>1. Join(Join(LengthLine(q), ExpectLine(q)), FromEnd(q))
            = Join(LengthLine(q), Join(ExpectLine(q), FromEnd(q)))
      BY <2>2, Regrouped, SMT
    <3> QED BY <3>1, Zenon DEF Join
  <2> QED BY <2>1, <2>3, <2>4
<1>4. /\ HeadLine(q) \o (LengthLine(q) \o ExpectLine(q)) \in Seq(Pieces)
      /\ Stream(q) =
           (HeadLine(q) \o (LengthLine(q) \o ExpectLine(q))) \o FromEnd(q)
  <2>1. Stream(q) =
          HeadLine(q) \o ((LengthLine(q) \o ExpectLine(q)) \o FromEnd(q))
    BY <1>3, StreamIs
  <2>2. HeadLine(q) \in Seq(Pieces) /\ FromEnd(q) \in Seq(Pieces)
    OBVIOUS
  <2>3. HeadLine(q) \o (LengthLine(q) \o ExpectLine(q)) \in Seq(Pieces)
    BY <1>3, <2>2, Joined, Zenon DEF Join
  <2>4. (HeadLine(q) \o (LengthLine(q) \o ExpectLine(q))) \o FromEnd(q)
          = HeadLine(q) \o ((LengthLine(q) \o ExpectLine(q)) \o FromEnd(q))
    <3> DEFINE m == LengthLine(q) \o ExpectLine(q)
    <3>1. m \in Seq(Pieces)
      BY <1>3
    <3> HIDE DEF m
    <3>2. Join(Join(HeadLine(q), m), FromEnd(q))
            = Join(HeadLine(q), Join(m, FromEnd(q)))
      BY <2>2, <3>1, Regrouped, SMT
    <3> QED BY <3>2, Zenon DEF Join, m
  <2> QED BY <2>1, <2>3, <2>4
<1> QED BY <1>1, <1>2, <1>3, <1>4

-----------------------------------------------------------------------------
(* The invariant                                                           *)

WireInv ==
  /\ request \in Requests
  /\ temp \in Seq(Pieces) /\ seg \in Seq(Pieces) /\ wire \in Seq(Pieces)
  /\ NoLF(temp)
  /\ parseState \in {"START", "HEADERS", "BODY", "END", "FAIL"}

StartInv ==
  parseState = "START" =>
    /\ Rest = Stream(request)
    /\ head = "" /\ contentLength = 0 /\ parsedLength = 0
    /\ expecting = FALSE /\ calls = <<>>

\* Where the headers may be, and what is known there.
HeadersInv ==
  parseState = "HEADERS" =>
    /\ request.head # "" /\ head = request.head
    /\ parsedLength = 0 /\ calls = <<>>
    /\ \/ Rest = FromLength(request) /\ contentLength = 0 /\ expecting = FALSE
       \/ /\ Rest = FromExpect(request)
          /\ contentLength = request.length /\ expecting = FALSE
       \/ /\ Rest = FromEnd(request)
          /\ contentLength = request.length /\ expecting = request.expect

BodyInv ==
  parseState = "BODY" =>
    /\ request.head # "" /\ head = request.head
    /\ contentLength = request.length /\ expecting = request.expect
    /\ contentLength # 0 /\ parsedLength \in Nat
    /\ parsedLength # contentLength /\ calls = <<>>
    /\ parsedLength + Len(seg) + Len(wire) = request.body

EndInv ==
  parseState = "END" =>
    /\ request.head # "" /\ head = request.head
    /\ contentLength = request.length /\ expecting = request.expect
    /\ parsedLength = request.length
    /\ calls = <<[head |-> request.head, body |-> request.length]>>
    /\ Len(wire) <= request.body - request.length

FailInv ==
  parseState = "FAIL" =>
    /\ request.head = "" /\ head = ""
    /\ contentLength = 0 /\ parsedLength = 0
    /\ expecting = FALSE /\ calls = <<>>

ParseInv ==
  /\ WireInv /\ StartInv /\ HeadersInv /\ BodyInv /\ EndInv /\ FailInv

-----------------------------------------------------------------------------
(* Lines that are taken out of the segment                                 *)

LEMMA SaysOf ==
  ASSUME NEW kind \in {"head", "length", "expect"}, NEW v \in STRING \cup Nat,
         NEW other \in {"head", "length", "expect"}
  PROVE  LET l == <<<<kind, v, 1>>, <<kind, v, 2>>>> IN
           /\ l # <<>> /\ Value(l) = v
           /\ Says(l, other) <=> kind = other
<1> DEFINE l == <<<<kind, v, 1>>, <<kind, v, 2>>>>
<1>1. Len(l) = 2 /\ l[1] = <<kind, v, 1>> /\ l[2] = <<kind, v, 2>>
  OBVIOUS
<1>2. l # <<>>
  <2>1. Len(<<>>) = 0 /\ Len(l) # 0
    OBVIOUS
  <2> HIDE DEF l
  <2> QED BY <2>1, Zenon
<1>3. l[1][2] = v /\ Value(l) = v
  BY <1>1 DEF Value
<1>4. Says(l, other) <=> l = <<<<other, v, 1>>, <<other, v, 2>>>>
  BY <1>1, <1>3 DEF Says
<1>5. l = <<<<other, v, 1>>, <<other, v, 2>>>> => kind = other
  OBVIOUS
<1> QED BY <1>2, <1>3, <1>4, <1>5

LEMMA Taken ==
  ASSUME WireInv, NEW n \in Ends, TakeLine(n)
  PROVE  /\ temp' = <<>> /\ request' = request /\ wire' = wire
         /\ temp' \in Seq(Pieces) /\ seg' \in Seq(Pieces) /\ wire' \in Seq(Pieces)
         /\ NoLF(temp)'
         /\ seg' = SubSeq(seg, n + 1, Len(seg))
         /\ Rest' = SubSeq(seg, n + 1, Len(seg)) \o wire
<1>1. /\ temp' = <<>> /\ request' = request /\ wire' = wire
      /\ seg' = SubSeq(seg, n + 1, Len(seg))
  BY DEF TakeLine
<1>2. seg' \in Seq(Pieces)
  <2>1. n \in Int /\ Len(seg) \in Int /\ n + 1 \in Int /\ n >= 1
    BY LenProperties DEF Ends, WireInv
  <2>2. \A i \in n + 1..Len(seg) : seg[i] \in Pieces
    BY <2>1, ElementOfSeq DEF WireInv
  <2> QED BY <1>1, <2>1, <2>2, SubSeqProperties
<1>3. temp' \in Seq(Pieces) /\ NoLF(temp)'
  BY <1>1 DEF NoLF
<1>4. Rest' = seg' \o wire'
  <2>1. seg' \o wire' \in Seq(Pieces)
    BY <1>1, <1>2, ConcatProperties DEF WireInv
  <2>2. Rest' = <<>> \o (seg' \o wire')
    BY <1>1 DEF Rest
  <2> QED BY <2>1, <2>2, ConcatEmptySeq
<1> QED BY <1>1, <1>2, <1>3, <1>4 DEF WireInv

\* A line of text at the front of what is to be parsed.
LEMMA TextLineTaken ==
  ASSUME WireInv, NEW kind \in {"head", "length", "expect"},
         NEW v \in STRING \cup Nat, NEW r \in Seq(Pieces),
         Rest = Line(kind, v) \o r, NEW n \in Ends
  PROVE  /\ LineTo(n) = <<<<kind, v, 1>>, <<kind, v, 2>>>>
         /\ TakeLine(n) => Rest' = r
<1>1. /\ LineTo(n) = <<<<kind, v, 1>>, <<kind, v, 2>>>>
      /\ SubSeq(seg, n + 1, Len(seg)) \o wire = r
  BY LineType, LineOf DEF Line, WireInv
<1> QED BY <1>1, Taken

LEMMA EmptyLineTaken ==
  ASSUME WireInv, NEW r \in Seq(Pieces), Rest = <<CR, LF>> \o r, NEW n \in Ends
  PROVE  /\ LineTo(n) = <<>>
         /\ TakeLine(n) => Rest' = r
<1>1. LineTo(n) = <<>> /\ SubSeq(seg, n + 1, Len(seg)) \o wire = r
  BY EmptyLine DEF WireInv
<1> QED BY <1>1, Taken

LEMMA HeaderCases ==
  ASSUME WireInv, HeadersInv, parseState = "HEADERS"
  PROVE  \/ /\ request.length # 0
            /\ Rest = Line("length", request.length) \o FromExpect(request)
            /\ contentLength = 0 /\ expecting = FALSE
         \/ /\ request.expect
            /\ Rest = Line("expect", 0) \o FromEnd(request)
            /\ contentLength = request.length /\ expecting = FALSE
         \/ /\ Rest = <<CR, LF>> \o FromBody(request)
            /\ contentLength = request.length /\ expecting = request.expect
<1> DEFINE q == request
<1>1. q \in Requests
  BY DEF WireInv
<1>2. /\ FromExpect(q) \in Seq(Pieces) /\ FromEnd(q) \in Seq(Pieces)
      /\ q.expect \in BOOLEAN
  BY <1>1, PartTypes, RequestType
<1>3. q.length = 0 => FromLength(q) = FromExpect(q)
  BY <1>2, ConcatEmptySeq DEF FromLength
<1>4. q.length # 0 => FromLength(q) = Line("length", q.length) \o FromExpect(q)
  BY DEF FromLength
<1>5. ~q.expect => FromExpect(q) = FromEnd(q)
  BY <1>2, ConcatEmptySeq DEF FromExpect
<1>6. q.expect => FromExpect(q) = Line("expect", 0) \o FromEnd(q)
  BY DEF FromExpect
<1>7. FromEnd(q) = <<CR, LF>> \o FromBody(q)
  BY DEF FromEnd
<1>8. \/ Rest = FromLength(q) /\ contentLength = 0 /\ expecting = FALSE
      \/ Rest = FromExpect(q) /\ contentLength = q.length /\ expecting = FALSE
      \/ Rest = FromEnd(q) /\ contentLength = q.length /\ expecting = q.expect
  BY DEF HeadersInv
<1> HIDE DEF q
<1>9. CASE Rest = FromEnd(q) /\ contentLength = q.length /\ expecting = q.expect
  BY <1>7, <1>9 DEF q
<1>10. CASE Rest = FromExpect(q) /\ contentLength = q.length /\ expecting = FALSE
  <2>1. CASE q.expect
    BY <1>6, <1>10, <2>1 DEF q
  <2>2. CASE ~q.expect
    <3>1. q.expect = FALSE
      BY <1>2, <2>2
    <3> QED BY <1>5, <1>7, <1>10, <2>2, <3>1 DEF q
  <2> QED BY <2>1, <2>2
<1>11. CASE Rest = FromLength(q) /\ contentLength = 0 /\ expecting = FALSE
  <2>1. CASE q.length # 0
    BY <1>4, <1>11, <2>1 DEF q
  <2>2. CASE q.length = 0
    <3>1. Rest = FromExpect(q) /\ contentLength = q.length /\ expecting = FALSE
      BY <1>3, <1>11, <2>2
    <3> QED BY <1>10, <3>1
  <2> QED BY <2>1, <2>2
<1> QED BY <1>8, <1>9, <1>10, <1>11

-----------------------------------------------------------------------------
(* Every step keeps the invariant                                          *)

LEMMA InitParse == Init => ParseInv
<1> SUFFICES ASSUME Init PROVE ParseInv
  OBVIOUS
<1>1. WireInv
  <2>1. wire \in Seq(Pieces)
    <3>1. HeadLine(request) \in Seq(Pieces) /\ FromLength(request) \in Seq(Pieces)
      BY PartTypes DEF Init
    <3>2. wire = HeadLine(request) \o FromLength(request)
      BY StreamIs DEF Init
    <3> QED BY <3>1, <3>2, Joined, Zenon DEF Join
  <2>2. request \in Requests /\ parseState = "START" /\ temp = <<>> /\ seg = <<>>
    BY DEF Init
  <2>3. <<>> \in Seq(Pieces) /\ NoLF(<<>>)
    BY DEF NoLF
  <2>4. temp \in Seq(Pieces) /\ seg \in Seq(Pieces) /\ NoLF(temp)
    BY <2>2, <2>3
  <2> QED BY <2>1, <2>2, <2>4 DEF WireInv
<1>2. StartInv
  <2>1. Rest = <<>> \o (<<>> \o wire)
    BY DEF Init, Rest
  <2>2. Rest = wire
    BY <1>1, <2>1, ConcatEmptySeq DEF WireInv
  <2> QED BY <2>2 DEF Init, StartInv
<1> QED BY <1>1, <1>2 DEF Init, ParseInv, HeadersInv, BodyInv, EndInv, FailInv

LEMMA SegmentStep ==
  ASSUME ParseInv, NEW n \in 1..Len(wire), Segment(n)
  PROVE  ParseInv'
<1> USE DEF ParseInv
<1>1. /\ seg = <<>> /\ seg' = SubSeq(wire, 1, n)
      /\ wire' = SubSeq(wire, n + 1, Len(wire))
      /\ request' = request /\ temp' = temp /\ head' = head
      /\ parseState' = parseState /\ contentLength' = contentLength
      /\ parsedLength' = parsedLength /\ expecting' = expecting /\ calls' = calls
  BY DEF Segment, line, counts
<1>2. wire \in Seq(Pieces) /\ Len(wire) \in Nat
  BY LenProperties DEF WireInv
<1>3. seg' \in Seq(Pieces) /\ Len(seg') = n
  <2>1. \A i \in 1..n : wire[i] \in Pieces
    BY <1>2, ElementOfSeq
  <2>2. 1 \in Int /\ n \in Int /\ 1 <= n /\ n - 1 + 1 = n
    OBVIOUS
  <2>3. /\ SubSeq(wire, 1, n) \in Seq(Pieces)
        /\ Len(SubSeq(wire, 1, n)) = IF 1 <= n THEN n - 1 + 1 ELSE 0
    BY <2>1, <2>2, SubSeqProperties
  <2> QED BY <1>1, <2>2, <2>3
<1>4. wire' \in Seq(Pieces) /\ Len(wire') = Len(wire) - n
  <2>1. \A i \in n + 1..Len(wire) : wire[i] \in Pieces
    BY <1>2, ElementOfSeq
  <2>2. n + 1 \in Int /\ Len(wire) \in Int
    BY <1>2
  <2>3. /\ SubSeq(wire, n + 1, Len(wire)) \in Seq(Pieces)
        /\ Len(SubSeq(wire, n + 1, Len(wire)))
             = IF n + 1 <= Len(wire) THEN Len(wire) - (n + 1) + 1 ELSE 0
    BY <2>1, <2>2, SubSeqProperties
  <2>4. (IF n + 1 <= Len(wire) THEN Len(wire) - (n + 1) + 1 ELSE 0)
           = Len(wire) - n
    BY <1>2
  <2> QED BY <1>1, <2>3, <2>4
<1>5. seg' \o wire' = seg \o wire
  <2>1. 1 \in 1..Len(wire) + 1 /\ n \in 1 - 1..Len(wire) /\ Len(wire) \in n..Len(wire)
    BY <1>2
  <2>2. SubSeq(wire, 1, n) \o SubSeq(wire, n + 1, Len(wire)) = SubSeq(wire, 1, Len(wire))
    BY <1>2, <2>1, ConcatAdjacentSubSeq
  <2>3. SubSeq(wire, 1, Len(wire)) = wire
    BY <1>2, SubSeqFull
  <2>4. seg \o wire = wire
    BY <1>1, <1>2, ConcatEmptySeq
  <2> QED BY <1>1, <2>2, <2>3, <2>4
<1>6. Rest' = Rest
  BY <1>1, <1>5 DEF Rest
<1>7. WireInv'
  BY <1>1, <1>3, <1>4 DEF WireInv, NoLF
<1>8. Len(seg') + Len(wire') = Len(seg) + Len(wire) /\ Len(wire') <= Len(wire)
  <2>1. Len(seg) = 0
    BY <1>1
  <2> QED BY <1>2, <1>3, <1>4, <2>1
<1>9. BodyInv'
  <2>1. CASE parseState = "BODY"
    <3>1. Len(seg) \in Nat /\ Len(seg') \in Nat /\ Len(wire') \in Nat
      BY <1>3, <1>4, LenProperties DEF WireInv
    <3>a. parsedLength \in Nat
      BY <2>1 DEF BodyInv
    <3>b. Len(seg') + Len(wire') = Len(seg) + Len(wire) /\ Len(wire) \in Nat
      BY <1>2, <1>8
    <3>2. parsedLength + Len(seg') + Len(wire') = parsedLength + Len(seg) + Len(wire)
      <4> HIDE DEF ParseInv
      <4> QED BY <3>1, <3>a, <3>b
    <3> QED BY <1>1, <2>1, <3>2 DEF BodyInv
  <2> QED BY <1>1, <2>1 DEF BodyInv
<1>10. EndInv'
  <2>1. request \in Requests
    BY DEF WireInv
  <2>2. request.body \in Nat /\ request.length \in Nat /\ Len(wire') \in Nat
    BY <1>4, <2>1, LenProperties, RequestType
  <2>a. parseState = "END" => Len(wire) <= request.body - request.length
    BY DEF EndInv
  <2>b. Len(wire') <= Len(wire) /\ Len(wire) \in Nat
    BY <1>2, <1>8
  <2>3. parseState = "END" => Len(wire') <= request.body - request.length
    <3> DEFINE b == request.body
    <3> DEFINE l == request.length
    <3> DEFINE w == Len(wire)
    <3> DEFINE v == Len(wire')
    <3>1. b \in Nat /\ l \in Nat /\ w \in Nat /\ v \in Nat /\ v <= w
      BY <2>2, <2>b
    <3>2. ASSUME w <= b - l PROVE v <= b - l
      <4> HIDE DEF b, l, w, v, ParseInv
      <4> QED BY <3>1, <3>2
    <3> QED BY <2>a, <3>2
  <2> QED BY <1>1, <2>3 DEF EndInv
<1>11. StartInv' /\ HeadersInv' /\ FailInv'
  BY <1>1, <1>6 DEF StartInv, HeadersInv, FailInv
<1> QED BY <1>7, <1>9, <1>10, <1>11

LEMMA NoNewLineStep ==
  ASSUME ParseInv, NoNewLine
  PROVE  ParseInv'
<1> USE DEF ParseInv
<1>1. /\ temp' = temp \o seg /\ seg' = <<>> /\ wire' = wire
      /\ request' = request /\ head' = head
      /\ parseState' = parseState /\ contentLength' = contentLength
      /\ parsedLength' = parsedLength /\ expecting' = expecting /\ calls' = calls
      /\ parseState \in {"START", "HEADERS"}
  BY DEF NoNewLine, InHead, counts
<1>2. temp \in Seq(Pieces) /\ seg \in Seq(Pieces) /\ wire \in Seq(Pieces)
  BY DEF WireInv
<1>3. temp' \in Seq(Pieces) /\ NoLF(temp)'
  <2>1. /\ temp \o seg \in Seq(Pieces) /\ Len(temp \o seg) = Len(temp) + Len(seg)
        /\ \A i \in 1..Len(temp) + Len(seg) :
             (temp \o seg)[i] = IF i <= Len(temp) THEN temp[i] ELSE seg[i - Len(temp)]
    BY <1>2, ConcatProperties
  <2>2. Len(temp) \in Nat /\ Len(seg) \in Nat
    BY <1>2, LenProperties
  <2>3. ASSUME NEW i \in 1..Len(temp) + Len(seg) PROVE (temp \o seg)[i] # LF
    <3>1. CASE i <= Len(temp)
      <4>1. i \in 1..Len(temp)
        BY <2>2, <3>1
      <4>2. temp[i] # LF
        BY <4>1 DEF WireInv, NoLF
      <4> QED BY <2>1, <3>1, <4>2
    <3>2. CASE ~(i <= Len(temp))
      <4>1. i - Len(temp) \in 1..Len(seg)
        BY <2>2, <3>2
      <4>2. seg[i - Len(temp)] # LF
        BY <4>1 DEF NoNewLine
      <4> QED BY <2>1, <3>2, <4>2
    <3> QED BY <3>1, <3>2
  <2> QED BY <1>1, <2>1, <2>3 DEF NoLF
<1>4. Rest' = Rest
  <2>1. <<>> \o wire = wire
    BY <1>2, ConcatEmptySeq
  <2>2. (temp \o seg) \o wire = temp \o (seg \o wire)
    <3>1. Join(Join(temp, seg), wire) = Join(temp, Join(seg, wire))
      BY <1>2, Regrouped, SMT
    <3> QED BY <3>1, Zenon DEF Join
  <2> QED BY <1>1, <2>1, <2>2 DEF Rest
<1>5. WireInv'
  BY <1>1, <1>2, <1>3 DEF WireInv
<1>6. StartInv' /\ HeadersInv'
  BY <1>1, <1>4 DEF StartInv, HeadersInv
<1> QED BY <1>1, <1>5, <1>6 DEF BodyInv, EndInv, FailInv

\* At the start of a request that is empty in its first line, or is not.
LEMMA StartCases ==
  ASSUME ParseInv, parseState = "START"
  PROVE  /\ request.head = "" =>
              Rest = <<CR, LF>> \o FromLength(request)
         /\ request.head # "" =>
              Rest = Line("head", request.head) \o FromLength(request)
         /\ request \in Requests /\ request.head \in STRING \cup Nat
         /\ FromLength(request) \in Seq(Pieces)
<1>1. request \in Requests
  BY DEF ParseInv, WireInv
<1>2. Rest = HeadLine(request) \o FromLength(request)
  BY <1>1, StreamIs DEF ParseInv, StartInv
<1>3. request.head \in STRING \cup Nat /\ FromLength(request) \in Seq(Pieces)
  BY <1>1, PartTypes, RequestType
<1> QED BY <1>1, <1>2, <1>3 DEF HeadLine

LEMMA EmptyRequestLineStep ==
  ASSUME ParseInv, EmptyRequestLine
  PROVE  ParseInv'
<1>1. WireInv /\ StartInv /\ parseState = "START"
  BY DEF ParseInv, EmptyRequestLine
<1>2. PICK n \in Ends : LineTo(n) = <<>> /\ TakeLine(n)
  BY DEF EmptyRequestLine
<1>3. request.head = ""
  <2>1. ASSUME request.head # "" PROVE FALSE
    <3> DEFINE v == request.head
    <3>1. /\ Rest = Line("head", v) \o FromLength(request)
          /\ v \in STRING \cup Nat /\ FromLength(request) \in Seq(Pieces)
      BY <1>1, <2>1, StartCases
    <3>2. LineTo(n) = <<<<"head", v, 1>>, <<"head", v, 2>>>>
      BY <1>1, <3>1, TextLineTaken
    <3>3. LineTo(n) # <<>>
      BY <3>1, <3>2, SaysOf
    <3> QED BY <1>2, <3>3
  <2> QED BY <2>1
<1>4. WireInv'
  BY <1>1, <1>2, Taken DEF WireInv, EmptyRequestLine
<1>5. FailInv'
  BY <1>1, <1>2, <1>3, Taken DEF EmptyRequestLine, FailInv, StartInv, counts
<1> QED
  BY <1>4, <1>5
  DEF EmptyRequestLine, ParseInv, StartInv, HeadersInv, BodyInv, EndInv

LEMMA RequestLineStep ==
  ASSUME ParseInv, RequestLine
  PROVE  ParseInv'
<1>1. WireInv /\ StartInv /\ parseState = "START"
  BY DEF ParseInv, RequestLine
<1>2. PICK n \in Ends :
        /\ LineTo(n) # <<>>
        /\ head' = IF Says(LineTo(n), "head") THEN Value(LineTo(n)) ELSE "garbled"
        /\ TakeLine(n)
  BY DEF RequestLine
<1> DEFINE v == request.head
<1> DEFINE r == FromLength(request)
<1>3. v \in STRING \cup Nat /\ r \in Seq(Pieces)
  BY <1>1, StartCases
<1>4. v # ""
  <2>1. ASSUME v = "" PROVE FALSE
    <3>1. Rest = <<CR, LF>> \o r
      BY <1>1, <2>1, StartCases
    <3>2. LineTo(n) = <<>>
      BY <1>1, <1>3, <3>1, EmptyLineTaken
    <3> QED BY <1>2, <3>2
  <2> QED BY <2>1
<1>5. Rest = Line("head", v) \o r
  BY <1>1, <1>4, StartCases
<1>6. LineTo(n) = <<<<"head", v, 1>>, <<"head", v, 2>>>> /\ Rest' = r
  BY <1>1, <1>2, <1>3, <1>5, TextLineTaken
<1>7. head' = v
  <2>1. Says(LineTo(n), "head") /\ Value(LineTo(n)) = v
    BY <1>3, <1>6, SaysOf
  <2> QED BY <1>2, <2>1
<1>8. request' = request /\ parseState' = "HEADERS" /\ counts' = counts /\ calls' = calls
  BY <1>1, <1>2, Taken DEF RequestLine
<1>9. WireInv'
  BY <1>1, <1>2, <1>8, Taken DEF WireInv
<1>10. HeadersInv'
  BY <1>1, <1>4, <1>6, <1>7, <1>8 DEF HeadersInv, StartInv, counts
<1> QED BY <1>8, <1>9, <1>10 DEF ParseInv, StartInv, BodyInv, EndInv, FailInv

LEMMA HeaderStep ==
  ASSUME ParseInv, Header
  PROVE  ParseInv'
<1>1. WireInv /\ HeadersInv /\ parseState = "HEADERS"
  BY DEF ParseInv, Header
<1>2. PICK n \in Ends :
        /\ LineTo(n) # <<>>
        /\ contentLength' = IF Says(LineTo(n), "length")
                            THEN Value(LineTo(n)) ELSE contentLength
        /\ expecting' = (expecting \/ Says(LineTo(n), "expect"))
        /\ TakeLine(n)
  BY DEF Header
<1>3. /\ request' = request /\ head' = head /\ parseState' = "HEADERS"
      /\ parsedLength' = parsedLength /\ calls' = calls
  BY <1>1, <1>2, Taken DEF Header
<1>4. request \in Requests
  BY <1>1 DEF WireInv
<1>5. /\ request.length \in STRING \cup Nat /\ 0 \in STRING \cup Nat
      /\ request.expect \in BOOLEAN
      /\ FromExpect(request) \in Seq(Pieces) /\ FromEnd(request) \in Seq(Pieces)
      /\ FromBody(request) \in Seq(Pieces)
  BY <1>4, RequestType, PartTypes
<1>6. \/ /\ Rest' = FromExpect(request)
         /\ contentLength' = request.length /\ expecting' = FALSE
      \/ /\ Rest' = FromEnd(request)
         /\ contentLength' = request.length /\ expecting' = request.expect
  <2>1. CASE /\ Rest = Line("length", request.length) \o FromExpect(request)
             /\ contentLength = 0 /\ expecting = FALSE
    <3>1. /\ LineTo(n) = <<<<"length", request.length, 1>>, <<"length", request.length, 2>>>>
          /\ Rest' = FromExpect(request)
      BY <1>1, <1>2, <1>5, <2>1, TextLineTaken
    <3>2. /\ Says(LineTo(n), "length") /\ Value(LineTo(n)) = request.length
          /\ ~Says(LineTo(n), "expect")
      BY <1>5, <3>1, SaysOf
    <3> QED BY <1>2, <2>1, <3>1, <3>2
  <2>2. CASE /\ request.expect
             /\ Rest = Line("expect", 0) \o FromEnd(request)
             /\ contentLength = request.length /\ expecting = FALSE
    <3>1. /\ LineTo(n) = <<<<"expect", 0, 1>>, <<"expect", 0, 2>>>>
          /\ Rest' = FromEnd(request)
      BY <1>1, <1>2, <1>5, <2>2, TextLineTaken
    <3>2. ~Says(LineTo(n), "length") /\ Says(LineTo(n), "expect")
      BY <1>5, <3>1, SaysOf
    <3>3. contentLength' = request.length /\ expecting' = TRUE
      BY <1>2, <2>2, <3>2
    <3>4. request.expect = TRUE
      BY <1>5, <2>2
    <3> QED BY <3>1, <3>3, <3>4
  <2>3. CASE Rest = <<CR, LF>> \o FromBody(request)
    <3>1. LineTo(n) = <<>>
      BY <1>1, <1>5, <2>3, EmptyLineTaken
    <3> QED BY <1>2, <3>1
  <2> QED BY <1>1, <2>1, <2>2, <2>3, HeaderCases
<1>7. WireInv'
  BY <1>1, <1>2, <1>3, Taken DEF WireInv
<1>8. HeadersInv'
  BY <1>1, <1>3, <1>6 DEF HeadersInv
<1> QED BY <1>3, <1>7, <1>8 DEF ParseInv, StartInv, BodyInv, EndInv, FailInv

\* What is left when the headers have just ended.
LEMMA BodyLeft ==
  ASSUME WireInv, seg' \in Seq(Pieces), wire' \in Seq(Pieces), temp' = <<>>,
         Rest' = FromBody(request)
  PROVE  Len(seg') + Len(wire') = request.body
<1>1. seg' \o wire' \in Seq(Pieces) /\ Len(seg' \o wire') = Len(seg') + Len(wire')
  BY ConcatProperties
<1>2. Rest' = seg' \o wire'
  BY <1>1, ConcatEmptySeq DEF Rest
<1>3. Len(FromBody(request)) = request.body
  BY PartTypes DEF WireInv
<1> QED BY <1>1, <1>2, <1>3

LEMMA EndOfHeadersStep ==
  ASSUME ParseInv, EndOfHeaders
  PROVE  ParseInv'
<1>1. WireInv /\ HeadersInv /\ parseState = "HEADERS"
  BY DEF ParseInv, EndOfHeaders
<1>2. PICK n \in Ends : LineTo(n) = <<>> /\ TakeLine(n)
  BY DEF EndOfHeaders
<1>3. request \in Requests
  BY <1>1 DEF WireInv
<1>4. /\ request.length \in STRING \cup Nat /\ 0 \in STRING \cup Nat
      /\ request.length \in Nat /\ request.body \in Nat
      /\ FromExpect(request) \in Seq(Pieces) /\ FromEnd(request) \in Seq(Pieces)
      /\ FromBody(request) \in Seq(Pieces)
  BY <1>3, RequestType, PartTypes
<1>5. /\ Rest = <<CR, LF>> \o FromBody(request)
      /\ contentLength = request.length /\ expecting = request.expect
  <2>1. ASSUME Rest = Line("length", request.length) \o FromExpect(request)
        PROVE  FALSE
    <3>1. LineTo(n) = <<<<"length", request.length, 1>>, <<"length", request.length, 2>>>>
      BY <1>1, <1>4, <2>1, TextLineTaken
    <3>2. LineTo(n) # <<>>
      BY <1>4, <3>1, SaysOf
    <3> QED BY <1>2, <3>2
  <2>2. ASSUME Rest = Line("expect", 0) \o FromEnd(request)
        PROVE  FALSE
    <3>1. LineTo(n) = <<<<"expect", 0, 1>>, <<"expect", 0, 2>>>>
      BY <1>1, <1>4, <2>2, TextLineTaken
    <3>2. LineTo(n) # <<>>
      BY <1>4, <3>1, SaysOf
    <3> QED BY <1>2, <3>2
  <2> QED BY <1>1, <2>1, <2>2, HeaderCases
<1>6. Rest' = FromBody(request)
  BY <1>1, <1>2, <1>4, <1>5, EmptyLineTaken
<1>7. /\ temp' = <<>> /\ request' = request /\ wire' = wire
      /\ temp' \in Seq(Pieces) /\ seg' \in Seq(Pieces) /\ wire' \in Seq(Pieces)
      /\ NoLF(temp)'
  BY <1>1, <1>2, Taken
<1>8. /\ head' = head /\ contentLength' = contentLength
      /\ parsedLength' = parsedLength /\ expecting' = expecting
  BY DEF EndOfHeaders, counts
<1>9. /\ request.head # "" /\ head = request.head
      /\ parsedLength = 0 /\ calls = <<>>
  BY <1>1 DEF HeadersInv
<1>10. Len(seg') + Len(wire') = request.body
  BY <1>1, <1>6, <1>7, BodyLeft
<1>11. Len(seg') \in Nat /\ Len(wire') \in Nat
  BY <1>7, LenProperties
<1>12. CASE contentLength # 0
  <2>1. parseState' = "BODY" /\ calls' = calls
    BY <1>12 DEF EndOfHeaders
  <2>2. parsedLength' + Len(seg') + Len(wire') = request.body
    <3>1. parsedLength' = 0
      BY <1>8, <1>9
    <3> QED BY <1>10, <1>11, <3>1
  <2>3. BodyInv'
    BY <1>5, <1>7, <1>8, <1>9, <1>12, <2>1, <2>2 DEF BodyInv
  <2>4. WireInv'
    BY <1>3, <1>7, <2>1 DEF WireInv
  <2> QED BY <2>1, <2>3, <2>4 DEF ParseInv, StartInv, HeadersInv, EndInv, FailInv
<1>13. CASE contentLength = 0
  <2>1. parseState' = "END" /\ calls' = Append(calls, [head |-> head, body |-> parsedLength'])
    BY <1>13 DEF EndOfHeaders, HandleRequest
  <2>2. calls' = <<[head |-> request.head, body |-> request.length]>>
    <3>1. /\ calls' = Append(<<>>, [head |-> head, body |-> parsedLength'])
          /\ head = request.head
      BY <1>9, <2>1
    <3>2. parsedLength' = request.length
      BY <1>5, <1>8, <1>9, <1>13
    <3> QED BY <3>1, <3>2
  <2>3. Len(wire') <= request.body - request.length
    BY <1>4, <1>5, <1>10, <1>11, <1>13
  <2>4. EndInv'
    BY <1>5, <1>7, <1>8, <1>9, <1>13, <2>1, <2>2, <2>3 DEF EndInv
  <2>5. WireInv'
    BY <1>3, <1>7, <2>1 DEF WireInv
  <2> QED BY <2>1, <2>4, <2>5 DEF ParseInv, StartInv, HeadersInv, BodyInv, FailInv
<1> QED BY <1>12, <1>13

LEMMA BodyStep ==
  ASSUME ParseInv, Body
  PROVE  ParseInv'
<1>1. WireInv /\ BodyInv /\ parseState = "BODY"
  BY DEF ParseInv, Body
<1>2. /\ parsedLength' = parsedLength + Len(seg)
      /\ seg' = <<>> /\ request' = request /\ wire' = wire
      /\ temp' = temp /\ head' = head
      /\ contentLength' = contentLength /\ expecting' = expecting
  BY DEF Body, line
<1>3. /\ request \in Requests /\ temp' \in Seq(Pieces) /\ NoLF(temp)'
      /\ seg' \in Seq(Pieces) /\ wire' \in Seq(Pieces)
  BY <1>1, <1>2 DEF WireInv, NoLF
<1>4. /\ request.head # "" /\ head = request.head
      /\ contentLength = request.length /\ expecting = request.expect
      /\ contentLength # 0 /\ calls = <<>>
  BY <1>1 DEF BodyInv
<1>a. parsedLength \in Nat /\ parsedLength + Len(seg) + Len(wire) = request.body
  BY <1>1 DEF BodyInv
<1>b. parsedLength' = parsedLength + Len(seg)
  BY <1>2
<1>5. /\ request.body \in Nat /\ request.length \in Nat
      /\ Len(seg) \in Nat /\ Len(wire) \in Nat
  BY <1>1, <1>3, RequestType, LenProperties DEF WireInv
<1>6. CASE parsedLength' = contentLength
  <2>1. /\ parseState' = "END"
        /\ calls' = Append(calls, [head |-> head, body |-> parsedLength'])
    BY <1>6 DEF Body, HandleRequest
  <2>a. parsedLength' = request.length
    BY <1>4, <1>6
  <2>2. calls' = <<[head |-> request.head, body |-> request.length]>>
    <3>1. /\ calls' = Append(<<>>, [head |-> head, body |-> parsedLength'])
          /\ head = request.head
      BY <1>4, <2>1
    <3> QED BY <2>a, <3>1
  <2>3. Len(wire) <= request.body - request.length
    BY <1>a, <1>b, <1>5, <2>a
  <2>4. EndInv'
    BY <1>2, <1>4, <1>6, <2>1, <2>2, <2>3 DEF EndInv
  <2>5. WireInv'
    BY <1>2, <1>3, <2>1 DEF WireInv
  <2> QED BY <2>1, <2>4, <2>5 DEF ParseInv, StartInv, HeadersInv, BodyInv, FailInv
<1>7. CASE parsedLength' # contentLength
  <2>1. parseState' = "BODY" /\ calls' = calls
    BY <1>1, <1>7 DEF Body
  <2>2. parsedLength' \in Nat
    BY <1>a, <1>b, <1>5
  <2>3. Len(seg') = 0
    BY <1>2
  <2>a. wire' = wire
    BY <1>2
  <2>4. parsedLength' + Len(seg') + Len(wire') = request.body
    BY <1>a, <1>b, <1>5, <2>a, <2>3
  <2>5. BodyInv'
    BY <1>2, <1>4, <1>7, <2>1, <2>2, <2>4 DEF BodyInv
  <2>6. WireInv'
    BY <1>2, <1>3, <2>1 DEF WireInv
  <2> QED BY <2>1, <2>5, <2>6 DEF ParseInv, StartInv, HeadersInv, EndInv, FailInv
<1> QED BY <1>6, <1>7

LEMMA IgnoreStep ==
  ASSUME ParseInv, Ignore
  PROVE  ParseInv'
<1>1. WireInv'
  BY DEF Ignore, ParseInv, WireInv, NoLF, line
<1>2. parseState \in {"END", "FAIL"} /\ parseState' = parseState
  BY DEF Ignore
<1>3. EndInv' /\ FailInv'
  BY DEF Ignore, ParseInv, EndInv, FailInv, line, counts
<1> QED BY <1>1, <1>2, <1>3 DEF ParseInv, StartInv, HeadersInv, BodyInv

LEMMA StutterStep ==
  ASSUME ParseInv, UNCHANGED requestVars
  PROVE  ParseInv'
<1>1. /\ request' = request /\ wire' = wire /\ seg' = seg /\ temp' = temp
      /\ head' = head /\ parseState' = parseState
      /\ contentLength' = contentLength /\ parsedLength' = parsedLength
      /\ expecting' = expecting /\ calls' = calls
  BY DEF requestVars, line, counts
<1>2. WireInv' /\ Rest' = Rest
  BY <1>1 DEF ParseInv, WireInv, NoLF, Rest
<1> QED
  BY <1>1, <1>2
  DEF ParseInv, StartInv, HeadersInv, BodyInv, EndInv, FailInv

LEMMA ParseStep == ParseInv /\ [Next]_requestVars => ParseInv'
<1> SUFFICES ASSUME ParseInv, [Next]_requestVars PROVE ParseInv'
  OBVIOUS
<1>1. CASE NoNewLine        BY <1>1, NoNewLineStep
<1>2. CASE EmptyRequestLine BY <1>2, EmptyRequestLineStep
<1>3. CASE RequestLine      BY <1>3, RequestLineStep
<1>4. CASE Header           BY <1>4, HeaderStep
<1>5. CASE EndOfHeaders     BY <1>5, EndOfHeadersStep
<1>6. CASE Body             BY <1>6, BodyStep
<1>7. CASE Ignore           BY <1>7, IgnoreStep
<1>8. CASE \E n \in 1..Len(wire) : Segment(n)
  BY <1>8, SegmentStep
<1>9. CASE UNCHANGED requestVars
  BY <1>9, StutterStep
<1> QED BY <1>1, <1>2, <1>3, <1>4, <1>5, <1>6, <1>7, <1>8, <1>9 DEF Next, Parse

\* What the parser keeps and what is still to come are always the request
\* again, from a place its state names (_onData(), _parseLine()).
THEOREM ParseInvariant == Spec => []ParseInv
<1>1. Init => ParseInv
  BY InitParse
<1>2. ParseInv /\ [Next]_requestVars => ParseInv'
  BY ParseStep
<1> QED BY <1>1, <1>2, PTL DEF Spec

-----------------------------------------------------------------------------
(* What follows from it                                                    *)

\* While the headers are still being read the empty line after them has not
\* arrived whole.
LEMMA EndNotYet ==
  ASSUME ParseInv, parseState \in {"START", "HEADERS"}, seg = <<>>
  PROVE  Len(wire) > request.body
<1> DEFINE b == FromBody(request)
<1> DEFINE e == <<CR, LF>>
<1>1. /\ request \in Requests /\ temp \in Seq(Pieces) /\ wire \in Seq(Pieces)
      /\ NoLF(temp)
  BY DEF ParseInv, WireInv
<1>2. /\ b \in Seq(Pieces) /\ e \in Seq(Pieces) /\ Len(b) = request.body
      /\ FromEnd(request) \in Seq(Pieces) /\ request.body \in Nat
  BY <1>1, PartTypes, RequestType
<1>3. PICK x \in Seq(Pieces) : Rest = x \o FromEnd(request)
  <2>1. CASE parseState = "START"
    BY <1>1, <2>1, EndComes DEF ParseInv, StartInv
  <2>2. CASE parseState = "HEADERS"
    BY <1>1, <2>2, EndComes DEF ParseInv, HeadersInv
  <2> QED BY <2>1, <2>2
<1>4. temp \o wire = x \o (e \o b)
  <2>1. seg \o wire = wire
    BY <1>1, ConcatEmptySeq
  <2> QED BY <1>3, <2>1 DEF Rest, FromEnd
<1> HIDE DEF b, e
<1>5. Len(e) = 2 /\ e[2] = LF
  BY DEF e
<1>6. /\ Len(temp) \in Nat /\ Len(wire) \in Nat /\ Len(x) \in Nat /\ Len(b) \in Nat
  BY <1>1, <1>2, <1>3, LenProperties
<1>7. /\ e \o b \in Seq(Pieces) /\ Len(e \o b) = Len(e) + Len(b)
      /\ \A i \in 1..Len(e) + Len(b) :
           (e \o b)[i] = IF i <= Len(e) THEN e[i] ELSE b[i - Len(e)]
  BY <1>2, ConcatProperties
<1>8. /\ Len(x \o (e \o b)) = Len(x) + Len(e \o b)
      /\ \A i \in 1..Len(x) + Len(e \o b) :
           (x \o (e \o b))[i] = IF i <= Len(x) THEN x[i] ELSE (e \o b)[i - Len(x)]
  BY <1>3, <1>7, ConcatProperties
<1>9. /\ Len(temp \o wire) = Len(temp) + Len(wire)
      /\ \A i \in 1..Len(temp) + Len(wire) :
           (temp \o wire)[i] = IF i <= Len(temp) THEN temp[i] ELSE wire[i - Len(temp)]
  BY <1>1, ConcatProperties
<1>10. Len(temp) + Len(wire) = Len(x) + 2 + Len(b)
  BY <1>4, <1>5, <1>6, <1>7, <1>8, <1>9
<1> DEFINE m == Len(x) + 2
<1>11. (temp \o wire)[m] = LF
  <2>1. m \in 1..Len(x) + Len(e \o b) /\ ~(m <= Len(x)) /\ m - Len(x) = 2
    BY <1>5, <1>6, <1>7
  <2>2. 2 \in 1..Len(e) + Len(b) /\ 2 <= Len(e)
    BY <1>5, <1>6
  <2>3. (x \o (e \o b))[m] = (e \o b)[m - Len(x)]
    BY <1>8, <2>1
  <2>4. (e \o b)[2] = e[2]
    BY <1>7, <2>2
  <2> QED BY <1>4, <1>5, <2>1, <2>3, <2>4
<1>12. ~(m <= Len(temp))
  <2> SUFFICES ASSUME m <= Len(temp) PROVE FALSE
    OBVIOUS
  <2>1. m \in 1..Len(temp) /\ m \in 1..Len(temp) + Len(wire)
    BY <1>6
  <2>2. temp[m] = LF
    BY <1>9, <1>11, <2>1
  <2> QED BY <1>1, <2>1, <2>2 DEF NoLF
<1> QED BY <1>2, <1>6, <1>10, <1>12

LEMMA HandledFromInv == ParseInv => HandledWhenWhole
<1> SUFFICES ASSUME ParseInv, seg = <<>>,
                    request.length # 0 => request.body <= request.length
             PROVE  calls = IF Arrived
                            THEN <<[head |-> request.head, body |-> request.length]>>
                            ELSE <<>>
  BY DEF HandledWhenWhole
<1>1. request \in Requests /\ wire \in Seq(Pieces) /\ Len(seg) = 0
  BY DEF ParseInv, WireInv
<1>2. request.body \in Nat /\ request.length \in Nat /\ Len(wire) \in Nat
  BY <1>1, RequestType, LenProperties
<1>3. CASE parseState \in {"START", "HEADERS"}
  <2>1. Len(wire) > request.body
    BY <1>3, EndNotYet
  <2>2. ASSUME Arrived PROVE FALSE
    <3>1. request.body >= request.length /\ Len(wire) <= request.body - request.length
      BY <2>2 DEF Arrived
    <3> QED BY <1>2, <2>1, <3>1
  <2>3. calls = <<>>
    BY <1>3 DEF ParseInv, StartInv, HeadersInv
  <2> QED BY <2>2, <2>3
<1>4. CASE parseState = "BODY"
  <2>1. /\ contentLength = request.length /\ contentLength # 0
        /\ parsedLength # contentLength /\ calls = <<>>
    BY <1>4 DEF ParseInv, BodyInv
  <2>2. /\ parsedLength \in Nat
        /\ parsedLength + Len(seg) + Len(wire) = request.body
    BY <1>4 DEF ParseInv, BodyInv
  <2>3. request.body <= request.length /\ parsedLength # request.length
    BY <2>1
  <2>4. ~(request.body >= request.length /\ Len(wire) <= request.body - request.length)
    BY <1>1, <1>2, <2>2, <2>3
  <2> QED BY <2>1, <2>4 DEF Arrived
<1>5. CASE parseState = "END"
  <2>1. /\ request.head # "" /\ Len(wire) <= request.body - request.length
        /\ calls = <<[head |-> request.head, body |-> request.length]>>
    BY <1>5 DEF ParseInv, EndInv
  <2>2. Len(wire) <= request.body - request.length
    BY <2>1
  <2>3. request.body >= request.length
    BY <1>2, <2>2
  <2> QED BY <2>1, <2>3 DEF Arrived
<1>6. CASE parseState = "FAIL"
  BY <1>6 DEF ParseInv, FailInv, Arrived
<1> QED BY <1>3, <1>4, <1>5, <1>6 DEF ParseInv, WireInv

LEMMA OnceFromInv == ParseInv => HandledOnce
<1> SUFFICES ASSUME ParseInv PROVE HandledOnce
  OBVIOUS
<1>1. CASE parseState = "END"
  <2>1. /\ calls = <<[head |-> request.head, body |-> request.length]>>
        /\ parsedLength = contentLength
    BY <1>1 DEF ParseInv, EndInv
  <2>2. Len(calls) = 1
    BY <2>1
  <2>3. calls # <<>>
    <3>1. Len(<<>>) = 0
      OBVIOUS
    <3> QED BY <2>2, <3>1
  <2> QED BY <1>1, <2>1, <2>2, <2>3 DEF HandledOnce
<1>2. CASE parseState # "END"
  <2>1. calls = <<>>
    BY <1>2 DEF ParseInv, WireInv, StartInv, HeadersInv, BodyInv, FailInv
  <2> QED BY <1>2, <2>1 DEF HandledOnce
<1> QED BY <1>1, <1>2

LEMMA TypesFromInv == ParseInv => TypeOK
<1> SUFFICES ASSUME ParseInv PROVE TypeOK
  OBVIOUS
<1>1. /\ request \in Requests
      /\ parseState \in {"START", "HEADERS", "BODY", "END", "FAIL"}
  BY DEF ParseInv, WireInv
<1>2. /\ request.head \in STRING /\ request.length \in Nat
      /\ request.expect \in BOOLEAN
  BY <1>1, RequestType
<1>3. head \in {"", request.head}
  BY <1>1 DEF ParseInv, StartInv, HeadersInv, BodyInv, EndInv, FailInv
<1>4. contentLength \in Nat
  <2>1. contentLength = 0 \/ contentLength = request.length
    BY <1>1 DEF ParseInv, StartInv, HeadersInv, BodyInv, EndInv, FailInv
  <2> QED BY <1>2, <2>1
<1>5. parsedLength \in Nat
  <2>1. parsedLength = 0 \/ parsedLength = request.length \/ parsedLength \in Nat
    BY <1>1 DEF ParseInv, StartInv, HeadersInv, BodyInv, EndInv, FailInv
  <2> QED BY <1>2, <2>1
<1>6. expecting \in BOOLEAN
  BY <1>1, <1>2 DEF ParseInv, StartInv, HeadersInv, BodyInv, EndInv, FailInv
<1>7. \A i \in 1..Len(calls) : calls[i] \in [head: STRING, body: Nat]
  <2>1. CASE parseState = "END"
    <3>1. calls = <<[head |-> request.head, body |-> request.length]>>
      BY <2>1 DEF ParseInv, EndInv
    <3>2. [head |-> request.head, body |-> request.length] \in [head: STRING, body: Nat]
      BY <1>2
    <3> QED BY <3>1, <3>2
  <2>2. CASE parseState # "END"
    <3>1. calls = <<>>
      BY <1>1, <2>2 DEF ParseInv, StartInv, HeadersInv, BodyInv, FailInv
    <3> QED BY <3>1
  <2> QED BY <2>1, <2>2
<1> QED BY <1>1, <1>3, <1>4, <1>5, <1>6, <1>7 DEF TypeOK

\* For every request and every way to cut it: the handler is called once,
\* with the whole request, as soon as its last byte is there (_onData()).
THEOREM RequestHandledWhenWhole == Spec => []HandledWhenWhole
BY ParseInvariant, HandledFromInv, PTL

\* Whatever follows the request, it is handed over at most once (_onData()).
THEOREM RequestHandledOnce == Spec => []HandledOnce
BY ParseInvariant, OnceFromInv, PTL

\* The parser's variables keep to their types (WebRequest.cpp).
THEOREM RequestTypesCorrect == Spec => []TypeOK
BY ParseInvariant, TypesFromInv, PTL

=============================================================================
