------------------------------ MODULE MCTcuBind ------------------------------
(* Values of the constants of TcuBind for TLC. *)
EXTENDS TcuBind

\* Sensor readings, all that ParkLock tells apart: the pawl down or up, the car
\* standing or rolling, and a broken contact.
Down    == [pos1 |-> TRUE,  pos2 |-> FALSE, moving |-> FALSE]
Up      == [pos1 |-> FALSE, pos2 |-> TRUE,  moving |-> FALSE]
Dragged == [Down EXCEPT !.moving = TRUE]
Rolling == [Up EXCEPT !.moving = TRUE]
Broken  == [pos1 |-> FALSE, pos2 |-> FALSE, moving |-> FALSE]

\* A vehicle being parked, and one that is.
Parking == {Down, Up, Dragged, Rolling, Broken}
Locked  == {Down}

\* Limp is the request that holds.
ParkRequests == {P, N, 13}

NoFaults  == {{}}
AnyFaults == {{}, {"SOL_OPEN_LOAD", "SOL_OVER_CURRENT"}}

OnTime == {1}
==============================================================================
