------------------------------ MODULE MCIX4Lever ------------------------------
(* Values of the constants of IX4Lever for TLC. *)
EXTENDS IX4Lever

\* PARK, REVERSE, DRIVE, and Sport, which holds the gear.
SomePositions == {ByteOf(51), ByteOf(50), ByteOf(53), Sport}

\* 0x3E is what the captures show at rest.
OneEncoder == {ByteOf(62)}

\* What turns PARK and DRIVE, or REVERSE and Sport, into each other, and a whole byte.
SomeMasks == {ByteOf(6), ByteOf(255)}
===============================================================================
