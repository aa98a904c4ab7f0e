--------------------------- MODULE MCFrameReader ---------------------------
(* Instances of FrameReader for TLC. *)
EXTENDS FrameReader

Keys(a, b, c, d) == [NoKeys EXCEPT ![3] = a, ![4] = b, ![5] = c, ![8] = d]
State1(keys, serial) == [keys |-> keys, code |-> 131, serial |-> serial]
State0(keys, serial) == [keys |-> keys, code |-> 136, serial |-> serial]

\* 0x57 is a key (keypad +) and the serial number.
Plus57 == State1(Keys(98, 99, 0, 87), 87)

\* The checksum is 0x57.
SumIs57 == State1(Keys(4, 0, 0, 0), 82)

\* The serial number is 0x57 and the checksum 0xAB; the other command code.
Other57AB == State0(Keys(98, 99, 55, 87), 87)

SomeFrames == {Plus57, Other57AB}
Sums57 == {SumIs57, State1(Keys(98, 99, 55, 87), 82)}

=============================================================================
