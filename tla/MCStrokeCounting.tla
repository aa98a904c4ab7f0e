-------------------------- MODULE MCStrokeCounting -------------------------
(* Instances of StrokeCounting for TLC. *)
EXTENDS StrokeCounting

\* One line for each set of effects that a property is about, the largest.
KnownLines ==
  {{"chord", "lost", "repeated"},
   {"chord", "repeated", "rollover"},
   {"chord", "repeated"},
   {"phantom"}}

=============================================================================
