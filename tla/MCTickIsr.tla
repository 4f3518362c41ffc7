------------------------------- MODULE MCTickIsr -------------------------------
(* Values of the constants of TickIsr for TLC. *)
EXTENDS TickIsr

\* First gear, below which lies Neutral; second; Reverse.
SomeGears == {1, 2, Reverse}

OrLate == {1, 2}
================================================================================
