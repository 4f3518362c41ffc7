------------------------------- MODULE GearPath -------------------------------
(***************************************************************************)
(* What shift orchestration promises, without phases or clocks: the gear   *)
(* moves along the edges of a fixed graph, one edge at a time; a move that *)
(* has begun either arrives at the gear it set out for or is given up for  *)
(* good, with the gear still the one it left.                              *)
(***************************************************************************)
CONSTANTS Nodes,        \* the gears
          Edges,        \* the moves allowed, a set of pairs of gears
          Origin        \* the gear the box wakes up in

VARIABLES gear,         \* the gear the box is in
          heading,      \* the gear it is moving to; gear itself when at rest
          stuck         \* it has given up shifting

pathVars == <<gear, heading, stuck>>

PathInit == gear = Origin /\ heading = Origin /\ stuck = FALSE

AtRest == heading = gear

\* Set out for a neighbour.
Depart ==
  /\ AtRest /\ ~stuck
  /\ \E to \in Nodes : <<gear, to>> \in Edges /\ heading' = to
  /\ UNCHANGED <<gear, stuck>>

\* Reach the gear set out for.
Arrive ==
  /\ ~AtRest
  /\ gear' = heading
  /\ UNCHANGED <<heading, stuck>>

\* Stop shifting, in the gear the box is in.
GiveUp ==
  /\ heading' = gear
  /\ stuck' = TRUE
  /\ UNCHANGED gear

PathNext == Depart \/ Arrive \/ GiveUp

\* A move in progress does not last forever; setting out is never promised.
PathSpec ==
  PathInit /\ [][PathNext]_pathVars /\ WF_pathVars(~AtRest /\ (Arrive \/ GiveUp))
===============================================================================
