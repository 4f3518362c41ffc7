------------------------------ MODULE SignalMirror ------------------------------
(***************************************************************************)
(* What a CAN message promises to whoever reads it.  A sender offers a     *)
(* record of signals and changes it as it likes, now and then sends a copy,*)
(* and the receiver holds one of the copies sent, the latest that arrived. *)
(* Copies may be lost or arrive twice; they are never mixed, altered or    *)
(* reordered.                                                              *)
(***************************************************************************)
EXTENDS Sequences

VARIABLES offered,     \* what the sender would send
          underway,    \* the copies on their way, oldest first
          seen         \* what the receiver reads

vars == <<offered, underway, seen>>

\* The receiver reads zeros until it has received something.
Init == underway = <<>> /\ seen = [s \in DOMAIN offered |-> 0]

Offer ==
  /\ DOMAIN offered' = DOMAIN offered
  /\ UNCHANGED <<underway, seen>>

Send ==
  /\ underway' = Append(underway, offered)
  /\ UNCHANGED <<offered, seen>>

See ==
  /\ underway # <<>>
  /\ seen' = Head(underway)
  /\ underway' \in {underway, Tail(underway)}
  /\ UNCHANGED offered

Lose ==
  /\ underway # <<>>
  /\ underway' = Tail(underway)
  /\ UNCHANGED <<offered, seen>>

Next == Offer \/ Send \/ See \/ Lose

Spec == Init /\ [][Next]_vars
=================================================================================
