------------------------------ MODULE MCByter ------------------------------
(* Instances of Byter for TLC. *)
EXTENDS Byter

\* Slot values for one or two keys; 4 is the usage of the letter A.
Keys(v3, v4, v7) ==
  [NoKeys EXCEPT ![3] = v3, ![4] = v4, ![7] = v7]

\* Nothing pressed, one key, two keys.
PlainReports == {Keys(0, 0, 0), Keys(4, 0, 0), Keys(4, 5, 0)}

\* Also one key repeated in slot v7.
AllReports == PlainReports \cup {Keys(4, 0, 4)}

NoParams == {}
SomeParams == {-1, 0, 2, 9}

=============================================================================
