---------------------------- MODULE MCShiftLogic ----------------------------
(* Values of the constants of ShiftLogic for TLC. *)
EXTENDS ShiftLogic

\* Ticks on time, late by one, and twice within the same millisecond.
MCDeltas == {0, 1, 2}

\* Every gear, and one value of each kind that is not a gear.
MCRequests == Gears \cup {Shifting, Invalid}
=============================================================================
