------------------------------- MODULE MCDayView -------------------------------
(* Instances of DayView for TLC.                                            *)
EXTENDS DayView, TLC

CONSTANTS e1, e2

\* two events side by side, after a free cell
DStanding == e1 :> [from |-> 1, to |-> 2] @@ e2 :> [from |-> 2, to |-> 3]

=============================================================================
