----------------------------- MODULE ReportLine ----------------------------
(***************************************************************************)
(* What rw() promises about the reports it counts, without bytes, headers  *)
(* and buffer: they are taken in order from a line that may lose reports,  *)
(* and may garble those that are on it when its buffer overflows.          *)
(***************************************************************************)
EXTENDS KeyReport, Sequences

CONSTANT
  Frames    \* what may be sent; keys is the report in it

VARIABLES
  sent,     \* the frames, in the order they were sent
  counted,  \* the reports that were counted, and the frames they are taken for
  torn      \* the frames that may have been garbled; 0: what was not sent

lvars == <<sent, counted, torn>>

Init == sent = <<>> /\ counted = <<>> /\ torn = {}

Send(f) == sent' = Append(sent, f) /\ UNCHANGED <<counted, torn>>

\* Only what has not been counted, or was counted last, can be garbled.
Tear(some) ==
  /\ \A n \in some \ {0} : \A i \in DOMAIN counted : counted[i].from <= n
  /\ torn' = torn \cup some
  /\ UNCHANGED <<sent, counted>>

\* A report arrives as it was sent; the ones it overtakes are lost.
Count(n) ==
  /\ n \notin torn
  /\ \A i \in DOMAIN counted : counted[i].from < n
  /\ counted' = Append(counted, [from |-> n, keys |-> sent[n].keys])
  /\ UNCHANGED <<sent, torn>>

\* Something else arrives in its place.
CountTorn ==
  /\ Len(counted') = Len(counted) + 1
  /\ LET r == counted'[Len(counted')] IN
       /\ r.from \in torn /\ r.keys \in [Slots -> Usage]
       /\ \A i \in DOMAIN counted : counted[i].from <= r.from
       /\ counted' = Append(counted, r)
  /\ UNCHANGED <<sent, torn>>

Next ==
  \/ \E f \in Frames : Send(f)
  \/ \E some \in SUBSET (0..Len(sent)) : Tear(some)
  \/ \E n \in DOMAIN sent : Count(n)
  \/ CountTorn

Spec == Init /\ [][Next]_lvars

=============================================================================
