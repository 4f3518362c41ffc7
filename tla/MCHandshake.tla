----------------------------- MODULE MCHandshake -----------------------------
(* Values of the constants of Handshake for TLC: one unit is 10 ms. *)
EXTENDS Handshake

\* A vehicle on the road.
Driving == {[pos1 |-> FALSE, pos2 |-> TRUE, moving |-> TRUE]}

NoFaults == {{}}

OnTime == {1}

\* Second gear and reverse.
ShiftRequests == {6, R}

\* Second gear only: one step from the first.
SecondGear == {6}

\* Third gear only.
ThirdGear == {7}
==============================================================================
