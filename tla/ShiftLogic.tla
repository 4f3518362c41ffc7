------------------------------ MODULE ShiftLogic ------------------------------
(***************************************************************************)
(* The shift orchestration state machine (firmware/shift_logic).  It walks *)
(* the gear from current to target one step of the gear graph at a time,   *)
(* each step through PreFill, TorqueCut, Overlap and Complete, and returns *)
(* after every Tick the command the bind layer drives the solenoids with.  *)
(*                                                                         *)
(* A definition commented "Variant" is a plausible mistake in the one that *)
(* follows it; nothing uses it but the sensitivity runs, which put it in   *)
(* the place of that definition and expect a property to fail.             *)
(*                                                                         *)
(* Time: the firmware keeps the absolute time a phase began and compares   *)
(* now_ms - phase_started_ms_ with a budget.  Here `elapsed` is that       *)
(* difference at the last Tick; a Tick(dt) happens dt later.  It saturates *)
(* at MaxAge, which no budget exceeds, so no comparison can tell.          *)
(*                                                                         *)
(* The ShiftCommand of a Tick is a function of the state the Tick leaves,  *)
(* so its fields are state functions and not variables.                    *)
(***************************************************************************)
EXTENDS ClutchTable

CONSTANTS pre_fill_ms,        \* ShiftCalibration
          torque_cut_ack_ms,
          overlap_ms,
          torque_restore_ms,
          pre_fill_pct,
          MaxAge,             \* where elapsed saturates
          Deltas,             \* times that may pass between two Ticks
          Requests            \* values RequestGear may be called with

ASSUME CalAssumption ==
  /\ {pre_fill_ms, torque_cut_ack_ms, overlap_ms, torque_restore_ms}
        \subseteq 0..MaxAge
  /\ MaxAge \in Nat
  /\ pre_fill_pct \in 0..100
  /\ Deltas \subseteq Nat
  /\ Requests \subseteq 0..255        \* Gear is an enum over uint8_t

VARIABLES current,            \* the gear engaged
          target,             \* the gear last requested
          next_step,          \* the gear the step in progress ends in
          phase,
          fault,
          elapsed,            \* age of the phase at the last Tick
          torque_cut_ack      \* the VCU's acknowledgement, as last plumbed in

vars == <<current, target, next_step, phase, fault, elapsed, torque_cut_ack>>

ShiftPhase == {"Idle", "PreFill", "TorqueCut", "Overlap", "Complete", "Limp"}

ShiftFault == {"None", "InvalidTargetGear", "TorqueCutTimeout",
               "OverlapTimeout", "ClutchTableInconsistent"}

Init ==
  /\ current = Neutral /\ target = Neutral /\ next_step = Neutral
  /\ phase = "Idle"
  /\ fault = "None"
  /\ elapsed = 0
  /\ torque_cut_ack = FALSE

-------------------------------------------------------------------------------
(* Helpers                                                                 *)

TargetValid == target \in Gears

\* Variant: forward gears are skipped.
PlanSkipShift ==
  IF current = target THEN current
  ELSE IF current \in Forward /\ target \in Forward THEN target
  ELSE IF current # Neutral THEN Neutral
  ELSE IF target = Reverse THEN Reverse ELSE 1

\* The single step from current toward target: one forward gear up or down,
\* and through Neutral for everything else.
PlanNextStep ==
  IF current = target THEN current
  ELSE IF current \in Forward /\ target \in Forward
  THEN IF target > current THEN current + 1 ELSE current - 1
  ELSE IF current # Neutral THEN Neutral
  ELSE IF target = Reverse THEN Reverse ELSE 1

Age(dt) == IF elapsed + dt > MaxAge THEN MaxAge ELSE elapsed + dt

PhaseElapsed(dt, budget) == Age(dt) >= budget

\* EnterPhase: going Idle withdraws the acknowledgement.
EnterPhase(p, ack) ==
  /\ phase' = p
  /\ elapsed' = 0
  /\ torque_cut_ack' = (ack /\ p # "Idle")

\* The phase goes on.
StayInPhase(ack, dt) ==
  /\ elapsed' = Age(dt)
  /\ torque_cut_ack' = ack
  /\ UNCHANGED <<current, target, next_step, phase, fault>>

-------------------------------------------------------------------------------
(* Calls from the layer above                                              *)

RequestGear(g) ==
  /\ target' = g
  /\ UNCHANGED <<current, next_step, phase, fault, elapsed, torque_cut_ack>>

SetTorqueCutAck(ack) ==
  /\ torque_cut_ack' = ack
  /\ UNCHANGED <<current, target, next_step, phase, fault, elapsed>>

-------------------------------------------------------------------------------
(* Tick: the alternatives of its switch, `ack` being the value of          *)
(* torque_cut_ack_ on entry.                                               *)

\* An out-of-range request is a fault, whatever the phase.
RejectTarget(ack) ==
  /\ ~TargetValid
  /\ fault' = "InvalidTargetGear"
  /\ target' = current
  /\ EnterPhase("Idle", ack)
  /\ UNCHANGED <<current, next_step>>

\* No torque cut where the step has no incoming or no outgoing element.
StartStep(ack) ==
  /\ phase = "Idle" /\ current # target /\ fault = "None"
  /\ next_step' = PlanNextStep
  /\ EnterPhase(IF Neutral \in {current, next_step'} THEN "Overlap"
                                                     ELSE "PreFill", ack)
  /\ UNCHANGED <<current, target, fault>>

\* Nothing to do.  No statement of the code ever enters Limp.
RestInGear(ack, dt) ==
  /\ phase \in {"Idle", "Limp"}
  /\ phase = "Idle" => current = target \/ fault # "None"
  /\ StayInPhase(ack, dt)

EndPreFill(ack, dt) ==
  /\ phase = "PreFill" /\ PhaseElapsed(dt, pre_fill_ms)
  /\ EnterPhase("TorqueCut", ack)
  /\ UNCHANGED <<current, target, next_step, fault>>

\* Variant: the acknowledgement is not waited for.
OverlapAtOnce(ack) ==
  /\ phase = "TorqueCut"
  /\ EnterPhase("Overlap", ack)
  /\ UNCHANGED <<current, target, next_step, fault>>

TorqueIsCut(ack) ==
  /\ phase = "TorqueCut" /\ ack
  /\ EnterPhase("Overlap", ack)
  /\ UNCHANGED <<current, target, next_step, fault>>

\* Variant: the timeout is recorded but the phase is not left.
TimeOutInPlace(ack, dt) ==
  /\ phase = "TorqueCut" /\ ~ack /\ PhaseElapsed(dt, torque_cut_ack_ms)
  /\ fault' = "TorqueCutTimeout"
  /\ target' = current
  /\ elapsed' = Age(dt)
  /\ UNCHANGED <<current, next_step, phase, torque_cut_ack>>

\* Variant: the shift goes on without the acknowledgement.
OverlapAnyway(ack, dt) ==
  /\ phase = "TorqueCut" /\ ~ack /\ PhaseElapsed(dt, torque_cut_ack_ms)
  /\ EnterPhase("Overlap", ack)
  /\ UNCHANGED <<current, target, next_step, fault>>

\* Variant: the acknowledgement is waited for without a limit.
WaitForAckForever(ack, dt) ==
  /\ phase = "TorqueCut" /\ ~ack /\ PhaseElapsed(dt, torque_cut_ack_ms)
  /\ StayInPhase(ack, dt)

\* Variant: the request that could not be served stays pending.
TimeOutKeepingTarget(ack, dt) ==
  /\ phase = "TorqueCut" /\ ~ack /\ PhaseElapsed(dt, torque_cut_ack_ms)
  /\ fault' = "TorqueCutTimeout"
  /\ EnterPhase("Idle", ack)
  /\ UNCHANGED <<current, target, next_step>>

\* Abort to the original gear.
TimeOutTorqueCut(ack, dt) ==
  /\ phase = "TorqueCut" /\ ~ack /\ PhaseElapsed(dt, torque_cut_ack_ms)
  /\ fault' = "TorqueCutTimeout"
  /\ target' = current
  /\ EnterPhase("Idle", ack)
  /\ UNCHANGED <<current, next_step>>

\* Variant: the step ends in the gear requested last.
EndOverlapInTarget(ack, dt) ==
  /\ phase = "Overlap" /\ PhaseElapsed(dt, overlap_ms)
  /\ current' = target
  /\ EnterPhase("Complete", ack)
  /\ UNCHANGED <<target, next_step, fault>>

\* Variant: the new gear is not taken over.
EndOverlapInOldGear(ack, dt) ==
  /\ phase = "Overlap" /\ PhaseElapsed(dt, overlap_ms)
  /\ EnterPhase("Complete", ack)
  /\ UNCHANGED <<current, target, next_step, fault>>

EndOverlap(ack, dt) ==
  /\ phase = "Overlap" /\ PhaseElapsed(dt, overlap_ms)
  /\ current' = next_step
  /\ EnterPhase("Complete", ack)
  /\ UNCHANGED <<target, next_step, fault>>

EndComplete(ack, dt) ==
  /\ phase = "Complete" /\ PhaseElapsed(dt, torque_restore_ms)
  /\ EnterPhase("Idle", ack)
  /\ UNCHANGED <<current, target, next_step, fault>>

Wait(ack, dt) ==
  /\ \/ phase = "PreFill" /\ ~PhaseElapsed(dt, pre_fill_ms)
     \/ phase = "TorqueCut" /\ ~ack /\ ~PhaseElapsed(dt, torque_cut_ack_ms)
     \/ phase = "Overlap" /\ ~PhaseElapsed(dt, overlap_ms)
     \/ phase = "Complete" /\ ~PhaseElapsed(dt, torque_restore_ms)
  /\ StayInPhase(ack, dt)

\* Tick(now_ms), dt after the previous one.  The bind layer calls
\* SetTorqueCutAck(ack) right before it: TickWith is the two together.
TickWith(ack, dt) ==
  \/ RejectTarget(ack)
  \/ /\ TargetValid
     /\ \/ StartStep(ack)
        \/ RestInGear(ack, dt)
        \/ EndPreFill(ack, dt)
        \/ TorqueIsCut(ack)
        \/ TimeOutTorqueCut(ack, dt)
        \/ EndOverlap(ack, dt)
        \/ EndComplete(ack, dt)
        \/ Wait(ack, dt)

Tick(dt) == TickWith(torque_cut_ack, dt)

Next ==
  \/ \E g \in Requests : RequestGear(g)
  \/ \E ack \in BOOLEAN : SetTorqueCutAck(ack)
  \/ \E dt \in Deltas : Tick(dt)

Spec == Init /\ [][Next]_vars

\* The main loop keeps calling Tick and the millisecond clock keeps running;
\* nothing is assumed of the VCU.
FairSpec == Spec /\ WF_vars(\E dt \in Deltas \ {0} : Tick(dt))

-------------------------------------------------------------------------------
(* The ShiftCommand the last Tick returned                                 *)

InStep == phase \in {"PreFill", "TorqueCut", "Overlap"}

OneSided == Neutral \in {current, next_step}

EngagedSet ==
  IF phase = "Overlap" THEN ClutchesFor(current) \cap ClutchesFor(next_step)
                       ELSE ClutchesFor(current)

RampingInSet == IF InStep THEN LiftSet(current, next_step) ELSE {}

RampingOutSet == IF phase = "Overlap" THEN DropSet(current, next_step) ELSE {}

TorqueCutRequest == phase = "TorqueCut" \/ (phase = "Overlap" /\ ~OneSided)

ShiftActive == phase \notin {"Idle", "Limp"}

\* Variant: cut to 8 bits before the division.
RampProgressCutEarly ==
  CASE phase = "PreFill" ->
         IF pre_fill_ms = 0 THEN 0
         ELSE ((elapsed * pre_fill_pct) % 256) \div pre_fill_ms
    [] phase = "TorqueCut" -> pre_fill_pct
    [] phase = "Overlap" ->
         IF overlap_ms = 0 THEN 100
         ELSE ((elapsed * 100) % 256) \div overlap_ms
    [] OTHER -> 100

\* Percent through the ramp, as the uint8_t it is published in.
RampProgress ==
  CASE phase = "PreFill" ->
         IF pre_fill_ms = 0 THEN 0
         ELSE ((elapsed * pre_fill_pct) \div pre_fill_ms) % 256
    [] phase = "TorqueCut" -> pre_fill_pct
    [] phase = "Overlap" ->
         IF overlap_ms = 0 THEN 100
         ELSE ((elapsed * 100) \div overlap_ms) % 256
    [] OTHER -> 100

\* Every element that is given current, at any level.
Energised == EngagedSet \cup RampingInSet \cup RampingOutSet

-------------------------------------------------------------------------------
(* Properties                                                              *)

\* The steps there are: neighbouring forward gears, Neutral to first and to
\* Reverse, and every gear to Neutral.
Adjacent(from, to) ==
  \/ from \in Forward /\ to \in Forward /\ (to = from + 1 \/ from = to + 1)
  \/ from = Neutral /\ to \in {1, Reverse}
  \/ from \in Gears \ {Neutral} /\ to = Neutral

GearGraph == {e \in Gears \X Gears : Adjacent(e[1], e[2])}

TypeOK ==
  /\ current \in Gears /\ next_step \in Gears
  /\ target \in Gears \cup Requests
  /\ phase \in ShiftPhase
  /\ fault \in ShiftFault
  /\ elapsed \in 0..MaxAge
  /\ torque_cut_ack \in BOOLEAN

\* A step under way is an edge of the gear graph, whatever was requested since.
StepUnderWay == InStep => Adjacent(current, next_step)

\* The two-sided phases are only entered between two gears that hold torque.
CutIsTwoSided == phase \in {"PreFill", "TorqueCut"} => ~OneSided

\* A fault stops the machine where it stands.
FaultMeansIdle == fault # "None" => phase = "Idle"

\* A ramp never outlives its budget: the published progress is a percentage
\* although it is computed in 32 bits and cut to 8 (shift_logic.cpp:163-165,
\* 187-189), even when Ticks come late.
RampIsPercentage ==
  /\ phase = "PreFill" => elapsed <= pre_fill_ms
  /\ phase = "Overlap" => elapsed <= overlap_ms

\* The inductive invariant: the safety properties below follow from it.
IInv ==
  /\ TypeOK
  /\ StepUnderWay
  /\ CutIsTwoSided
  /\ FaultMeansIdle
  /\ RampIsPercentage

\* The gear only ever moves along an edge of the gear graph: no gear is
\* skipped and Drive never turns into Reverse without a stop in Neutral,
\* however requests arrive during a shift (shift_logic.cpp:22-53, 114-120).
OneStepAtATime == [][current' # current => Adjacent(current, current')]_vars

\* "the current single-step shift completes before the new path is planned"
\* (shift_logic.h:100-103): once planned, a step keeps its destination and
\* ends there, unless a fault is recorded in the same Tick.
StepRunsToItsEnd ==
  [][InStep =>
       /\ next_step' = next_step
       /\ ~InStep' => current' = next_step \/ fault' # "None"]_vars

\* Between two Ticks that leave the box in forward gears, at most one shift
\* element is switched, on or off: the box is never asked to fill one clutch
\* and drain another in one command (shift_logic.h:33-38).
OneElementAtATime ==
  [][{current, current'} \subseteq Forward =>
       \A x, y \in (Energised \ Energised') \cup (Energised' \ Energised) : x = y]_vars

\* A held element of a two-sided shift starts to drain only after the torque
\* cut has been asked for in an earlier command and acknowledged
\* (shift_logic.cpp:101-112, dbc/zf8hp-tcu.dbc:141).
DrainOnlyUnderCut ==
  [][\A e \in EngagedSet \ EngagedSet' :
       \/ OneSided'
       \/ TorqueCutRequest /\ torque_cut_ack]_vars

\* "On TorqueCutAck timeout, the shift shall abort and the current gear shall be
\* held" (HARA_REPORT.txt:185): a step given up, in whatever phase and for whatever
\* reason, leaves no trace.  The box is at rest in the gear the step began in, with
\* the elements of that gear on and no other, the engine is released, and neither
\* the request nor the acknowledgement waits on (shift_logic.cpp:71-75, 105-110).
AbortRestoresGear ==
  [][InStep /\ ~InStep' /\ current' # next_step =>
       /\ phase' = "Idle" /\ current' = current /\ target' = current
       /\ Energised' = ClutchesFor(current)
       /\ ~TorqueCutRequest' /\ ~torque_cut_ack']_vars

\* Between two Ticks of one ramp the published progress never falls back.
RampNeverFallsBack ==
  [][(phase' = phase /\ next_step' = next_step) => RampProgress' >= RampProgress]_vars

\* A request for a gear is served, however many steps away and whatever the
\* VCU does, unless it is replaced or a fault is recorded.
RequestIsServed ==
  \A g \in Gears : (target = g) ~> (current = g \/ target # g \/ fault # "None")

\* The engine is never held cut for good (dbc/zf8hp-tcu.dbc:143).
TorqueComesBack == TorqueCutRequest ~> ~TorqueCutRequest

\* Shift orchestration is a walk along the gear graph.
Path == INSTANCE GearPath
          WITH Nodes <- Gears, Edges <- GearGraph, Origin <- Neutral,
               gear <- current,
               heading <- IF InStep THEN next_step ELSE current,
               stuck <- fault # "None"

\* The state machine implements that walk, and every step it begins ends.
WalksTheGearGraph == Path!PathSpec

===============================================================================
