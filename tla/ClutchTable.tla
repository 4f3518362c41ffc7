----------------------------- MODULE ClutchTable -----------------------------
(***************************************************************************)
(* The shift elements of the gearbox and the table that says which of them *)
(* hold each gear (firmware/shift_logic/clutch_table.h).  A ClutchSet, one *)
(* bit per element in the firmware, is a set of elements here.             *)
(*                                                                         *)
(* The table itself is the constant Table: the header invites integrators  *)
(* to edit it after bench verification and promises that the state machine *)
(* stays correct for every table that passes the static_asserts.  Those    *)
(* static_asserts are TableAssumption; kClutchTable is the shipped table.  *)
(***************************************************************************)
EXTENDS Integers, FiniteSets

CONSTANT Table          \* gear |-> the set of elements that hold it

Neutral == 0
Forward == 1..8
Reverse == 9
Shifting == 14          \* a Gear value the DBC reserves; no table row
Invalid == 15           \* ditto

Gears == {Neutral} \cup Forward \cup {Reverse}

Elements == {"A", "B", "C", "D", "E"}

kClutchTable ==
  [g \in Gears |->
     CASE g = 0 -> {}
       [] g = 1 -> {"A", "B", "D"}
       [] g = 2 -> {"A", "B", "E"}
       [] g = 3 -> {"A", "C", "E"}
       [] g = 4 -> {"A", "C", "D"}
       [] g = 5 -> {"A", "D", "E"}
       [] g = 6 -> {"B", "D", "E"}
       [] g = 7 -> {"B", "C", "E"}
       [] g = 8 -> {"B", "C", "D"}
       [] g = 9 -> {"C", "D", "E"}]

\* A gear without a row engages nothing.
ClutchesFor(g) == IF g \in Gears THEN Table[g] ELSE {}

\* DeltaBetween: the elements a step releases and the elements it applies.
DropSet(from, to) == ClutchesFor(from) \ ClutchesFor(to)
LiftSet(from, to) == ClutchesFor(to) \ ClutchesFor(from)

IsSingleElement(from, to) ==
  /\ Cardinality(DropSet(from, to)) = 1
  /\ Cardinality(LiftSet(from, to)) = 1

AdjacentPairsAreSingleElement == \A g \in 1..7 : IsSingleElement(g, g + 1)

ForwardGearsHaveThreeElements ==
  \A g \in Forward : Cardinality(ClutchesFor(g)) = 3

ReverseHasThreeElements == Cardinality(ClutchesFor(Reverse)) = 3

NeutralEngagesNothing == ClutchesFor(Neutral) = {}

ASSUME TableAssumption ==
  /\ Table \in [Gears -> SUBSET Elements]
  /\ AdjacentPairsAreSingleElement
  /\ ForwardGearsHaveThreeElements
  /\ ReverseHasThreeElements
  /\ NeutralEngagesNothing
==============================================================================
