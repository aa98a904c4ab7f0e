------------------------------ MODULE MCPanel ------------------------------
(* The panel of a device whose counts have all numbers of digits that matter: *)
(* two strokes below the maximum a count has ten.                             *)
EXTENDS Panel, MCByter, TLC

MCDigits == 0 :> 5 @@ 1 :> 6 @@ 2 :> 7 @@ 3 :> 8 @@ 4 :> 10 @@ 5 :> 10
=============================================================================
