---------------------------- MODULE MCInspection ----------------------------
(* Instances of Inspection for TLC. *)
EXTENDS Inspection, TLC

CONSTANTS a, b

TwoCallers == {a, b}

\* Three pages, of which the last names the second as the next.
Circle == 0 :> 1 @@ 1 :> 2 @@ 2 :> 1
=============================================================================
