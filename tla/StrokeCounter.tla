---------------------------- MODULE StrokeCounter --------------------------
(***************************************************************************)
(* What the device promises about the number it keeps, without serial      *)
(* port, panel, button, web server or scheduling: the count grows by at    *)
(* most six strokes at a time and is taken back by at most two, until it   *)
(* has been seen full and counting has stopped.  From then on it can only  *)
(* be cleared, set or saved, and only a restart gets it counting again.    *)
(***************************************************************************)
EXTENDS Eeprom

CONSTANTS
  Assignable,   \* the counts a client can set
  PowerCuts     \* TRUE: the device may restart

VARIABLES
  count,    \* the number of strokes
  saved,    \* the copy that survives a restart
  full,     \* the largest count has been shown
  stopped   \* no stroke is counted any more

cvars == <<count, saved, full, stopped>>

Init ==
  /\ saved \in Cnt
  /\ count = ReadCnt(saved)
  /\ full = (count = MaxCnt)
  /\ stopped = full

\* Strokes completed and strokes taken back; only the former are shown.
Strokes(up, back) ==
  /\ ~stopped
  /\ count' = Wrap(count - back + up)
  /\ full' = (full \/ (up > 0 /\ count' = MaxCnt))
  /\ UNCHANGED <<saved, stopped>>

\* Counting ends when the port has been drained, or at once if the full
\* count is noticed while a message goes away.
Stop ==
  /\ full \/ count = MaxCnt
  /\ full' = TRUE /\ stopped' = TRUE
  /\ UNCHANGED <<count, saved>>

Clear ==
  /\ count' = 0
  /\ saved' \in ClearOutcomes(saved)
  /\ UNCHANGED <<full, stopped>>

Assign ==
  /\ count' \in Assignable
  /\ UNCHANGED <<saved, full, stopped>>

Save ==
  /\ \E out \in WriteOutcomes(saved, count) : saved' = out.flash
  /\ UNCHANGED <<count, full, stopped>>

Restart ==
  /\ PowerCuts
  /\ saved' \in {saved, TornFlash}
  /\ count' = ReadCnt(saved')
  /\ full' = (count' = MaxCnt)
  /\ stopped' = full'

Next ==
  \/ \E up \in 0..6, back \in 0..2 : Strokes(up, back)
  \/ Stop \/ Clear \/ Assign \/ Save \/ Restart

Spec == Init /\ [][Next]_cvars

=============================================================================
