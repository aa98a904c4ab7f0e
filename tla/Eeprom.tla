------------------------------- MODULE Eeprom ------------------------------
(***************************************************************************)
(* The counter's copy in the EEPROM-emulating flash sector, seen through   *)
(* readCnt(), writeCnt() and clearCnt().                                   *)
(*                                                                         *)
(* The EEPROM class of the ESP8266 core is not part of the repository.  As *)
(* the sketch uses it: begin() loads a RAM copy of the sector, put() and   *)
(* write() change the copy and mark it dirty if a byte really changes, and *)
(* commit() does nothing to a clean copy and otherwise erases the sector   *)
(* (every byte reads 0xFF, so the counter reads Blank) and programs it.    *)
(* end() commits once more if the copy is still dirty.                     *)
(***************************************************************************)
EXTENDS UnsignedInt

CONSTANT FlashFaults    \* TRUE: an erase or a program operation may fail

ASSUME FlashFaultsAssumption == FlashFaults \in BOOLEAN

\* Four bytes 0xFF read back as an unsigned int.
Blank == MaxCnt

\* unsigned int readCnt()
ReadCnt(flash) == flash

\* Ways a commit of a dirty copy can fail: nothing erased, or erased but not
\* programmed.
Damage(flash) == IF FlashFaults THEN {flash, Blank} ELSE {}

\* Mutant of WriteOutcomes: the result of the second commit(), or of none.
WriteOutcomesSayOk(flash, cnt) ==
  {[flash |-> f, ok |-> TRUE] : f \in {cnt} \cup Damage(flash)}

\* int writeCnt(): what the sector can hold afterwards, with the result of
\* the first commit().  After a failed commit() the copy is still dirty, so
\* end() tries again and may succeed, but the result says it failed.
WriteOutcomes(flash, cnt) ==
  IF flash = cnt
  THEN {[flash |-> flash, ok |-> TRUE]}
  ELSE {[flash |-> cnt, ok |-> TRUE]}
         \cup {[flash |-> f, ok |-> FALSE] : f \in Damage(flash)}
         \cup {[flash |-> cnt, ok |-> FALSE] : f \in Damage(flash)}

\* void clearCnt(): zeros the counter and the byte before it, and leaves the
\* commit to end(), whose result is dropped.
ClearOutcomes(flash) == {0} \cup Damage(flash)

\* What a power cut inside a commit leaves: the sector erased.
TornFlash == Blank

=============================================================================
