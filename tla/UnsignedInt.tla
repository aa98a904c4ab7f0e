---------------------------- MODULE UnsignedInt ----------------------------
(***************************************************************************)
(* The C integers of the sketch: unsigned int cnt, and the signed long     *)
(* that String::toInt() returns, of the same width.                        *)
(***************************************************************************)
EXTENDS Integers

CONSTANT MaxCnt     \* the largest unsigned int: maxCnt = 4294967295

ASSUME MaxCntAssumption == MaxCnt \in Nat \ {0}

Cnt == 0..MaxCnt

\* Unsigned arithmetic wraps.
Wrap(n) == n % (MaxCnt + 1)

\* The signed integers of this width.
Half    == (MaxCnt + 1) \div 2
LongMax == Half - 1
LongMin == -Half

\* String::toInt() is atol(): it saturates at the ends of a signed long.
ToInt(p) == IF p > LongMax THEN LongMax ELSE IF p < LongMin THEN LongMin ELSE p

=============================================================================
