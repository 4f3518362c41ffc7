----------------------------- MODULE TickIsrProofs -----------------------------
(***************************************************************************)
(* Tick interrupted by OnCanRx between any two of its accesses: IsrInv is  *)
(* inductive, for every calibration and clutch table, every spacing of the *)
(* Ticks and every set of gears that may be requested.  Then what a batch  *)
(* may switch, which needs phases no shorter than the loop that writes it. *)
(***************************************************************************)
EXTENDS TickIsr, FiniteSetTheorems, TLAPS

\* The instance speaks of the gears of this module.
LEMMA SameGears ==
  /\ Shift!Gears = Gears /\ Shift!Forward = Forward
  /\ Shift!Neutral = Neutral /\ Shift!Reverse = Reverse
  /\ \A g : Shift!ClutchesFor(g) = ClutchesFor(g)
BY DEF Shift!Gears, Gears, Shift!Forward, Forward, Shift!Neutral, Neutral,
       Shift!Reverse, Reverse, Shift!ClutchesFor, ClutchesFor

LEMMA LaterInRange ==
  ASSUME NEW a \in 0..MaxAge, NEW dt \in Deltas
  PROVE  Later(a, dt) \in 0..MaxAge
BY IsrAssumption DEF Later

LEMMA CountWraps ==
  ASSUME NEW n \in 0..(ShiftCountRange - 1)
  PROVE  (n + 1) % ShiftCountRange \in 0..(ShiftCountRange - 1)
BY IsrAssumption

\* The steps of Tick that only look at the state machine, if at that.
Looking ==
  \/ \E dt \in Deltas : BeginTick(dt)
  \/ MarkStale \/ SetStaleBit
  \/ ReadTarget \/ CompareWithNeutral \/ AcceptTarget \/ DecideToStep
  \/ PlanOther \/ PlanFromNeutral
  \/ ReadFaultBits("after_switch", "write_park_bit") \/ FinishPark
  \/ ReadFaultBits("read_for_poll", "write_polled_bits") \/ FinishTick

\* The steps that end the planning.
Committing == PlanSame \/ PlanForward \/ PlanToNeutral \/ PlanEngagement

Interrupt ==
  \/ \E g \in Requests : OnGearRequest(g)
  \/ \E ack \in BOOLEAN : OnVehicleInfo(ack)

LEMMA NextCases ==
  Next => Looking \/ PlumbAck \/ RejectTarget \/ SwitchOnPhase \/ Committing \/ Interrupt
BY DEF Next, InTick, Looking, Committing, Interrupt

LEMMA LookingLeaves == Looking => UNCHANGED <<shiftVars, vcu_torque_cut_ack>>
BY DEF Looking, BeginTick, MarkStale, SetStaleBit, ReadTarget, CompareWithNeutral,
       AcceptTarget, DecideToStep, PlanOther, PlanFromNeutral, ReadFaultBits,
       FinishPark, FinishTick, WriteFaultBits, vcuVars

\* Every step the planning may decide on is an edge of the gear graph.
LEMMA Edges ==
  /\ \A c, w \in Forward :
       /\ w > c => c + 1 \in Gears /\ Shift!Adjacent(c, c + 1)
       /\ ~(w > c) => c - 1 \in Gears /\ Shift!Adjacent(c, c - 1)
  /\ \A c \in Gears \ {Neutral} : Shift!Adjacent(c, Neutral)
  /\ Shift!Adjacent(Neutral, 1) /\ Shift!Adjacent(Neutral, Reverse)
  /\ 1 \in Gears /\ Neutral \in Gears /\ Reverse \in Gears
BY DEF Shift!Adjacent, Shift!Gears, Shift!Forward, Shift!Neutral, Shift!Reverse,
       Gears, Forward, Neutral, Reverse

\* Where the planning ends, whatever was requested in the meantime
\* (shift_logic.cpp:31-53).
LEMMA CommitIsHarmless ==
  ASSUME TypeOK, PlansFromRest, Committing
  PROVE  /\ pc \in Planning /\ pc' = "after_switch" /\ phase = "Idle"
         /\ \E g \in Gears : Commit(g) /\ (g = current \/ Shift!Adjacent(current, g))
         /\ UNCHANGED <<vcuVars, outVars, now, bits>> /\ t' \in {t, {}}
<1> USE SameGears DEF At, Planning, PlansFromRest
<1>1. current \in Gears
  BY DEF TypeOK, Shift!TypeOK
<1>2. CASE PlanSame
  BY <1>1, <1>2 DEF PlanSame
<1>3. CASE PlanForward
  <2> DEFINE g == IF target > current THEN current + 1 ELSE current - 1
  <2>1. current \in Forward /\ target \in Forward
    BY <1>3 DEF PlanForward
  <2>2. g \in Gears /\ Shift!Adjacent(current, g)
    BY <2>1, Edges
  <2>3. Commit(g)
    BY <1>3 DEF PlanForward
  <2> HIDE DEF g
  <2> QED  BY <1>3, <2>2, <2>3 DEF PlanForward
<1>4. CASE PlanToNeutral
  <2>1. Neutral \in Gears /\ Shift!Adjacent(current, Neutral)
    BY <1>1, <1>4 DEF PlanToNeutral, Shift!Adjacent, Gears
  <2> QED  BY <1>4, <2>1 DEF PlanToNeutral
<1>5. CASE PlanEngagement
  <2> DEFINE g == IF target = Reverse THEN Reverse
                  ELSE IF t \subseteq Forward THEN 1 ELSE Neutral
  <2>1. current = Neutral
    BY <1>5 DEF PlanEngagement
  <2>2. g \in Gears /\ (g = current \/ Shift!Adjacent(current, g))
    BY <2>1, Edges
  <2>3. Commit(g)
    BY <1>5 DEF PlanEngagement
  <2> HIDE DEF g
  <2> QED  BY <1>5, <2>2, <2>3 DEF PlanEngagement
<1> QED  BY <1>2, <1>3, <1>4, <1>5 DEF Committing

-------------------------------------------------------------------------------
(* Types                                                                   *)

LEMMA ShiftTypes == TypeOK /\ PlansFromRest /\ [Next]_vars => Shift!TypeOK'
<1> SUFFICES ASSUME TypeOK, PlansFromRest, [Next]_vars PROVE Shift!TypeOK'
  OBVIOUS
<1>1. Shift!TypeOK /\ vcu_torque_cut_ack \in BOOLEAN /\ now \in Deltas \cup {0}
  BY DEF TypeOK
<1>2. 0 \in 0..MaxAge /\ Shift!Age(now) \in 0..MaxAge
  BY <1>1, IsrAssumption DEF Shift!TypeOK, Shift!Age
<1> USE DEF Shift!TypeOK
<1>3. CASE UNCHANGED shiftVars
  BY <1>1, <1>3 DEF shiftVars
<1>4. CASE PlumbAck
  BY <1>1, <1>4 DEF PlumbAck, Shift!SetTorqueCutAck
<1>5. CASE RejectTarget
  BY <1>1, <1>2, <1>5 DEF RejectTarget, Shift!EnterPhase, Shift!ShiftPhase, Shift!ShiftFault
<1>6. CASE SwitchOnPhase
  <2> USE DEF Shift!EnterPhase, Shift!StayInPhase, Shift!ShiftPhase, Shift!ShiftFault
  <2>1. CASE Shift!RestInGear(torque_cut_ack, now) \/ Shift!Wait(torque_cut_ack, now)
    BY <1>1, <1>2, <2>1 DEF Shift!RestInGear, Shift!Wait
  <2>2. CASE \/ Shift!EndPreFill(torque_cut_ack, now) \/ Shift!TorqueIsCut(torque_cut_ack)
             \/ Shift!EndComplete(torque_cut_ack, now)
    BY <1>1, <1>2, <2>2 DEF Shift!EndPreFill, Shift!TorqueIsCut, Shift!EndComplete
  <2>3. CASE Shift!TimeOutTorqueCut(torque_cut_ack, now)
    BY <1>1, <1>2, <2>3 DEF Shift!TimeOutTorqueCut
  <2>4. CASE Shift!EndOverlap(torque_cut_ack, now)
    BY <1>1, <1>2, <2>4 DEF Shift!EndOverlap
  <2> QED  BY <1>6, <2>1, <2>2, <2>3, <2>4 DEF SwitchOnPhase
<1>7. CASE Committing
  <2>1. PICK g \in Gears : Commit(g)
    BY <1>7, CommitIsHarmless
  <2> QED  BY <1>1, <1>2, <2>1, SameGears DEF Commit, Shift!EnterPhase, Shift!ShiftPhase
<1>8. CASE Interrupt
  <2>1. CASE \E ack \in BOOLEAN : OnVehicleInfo(ack)
    BY <1>3, <2>1 DEF OnVehicleInfo
  <2>2. ASSUME NEW g \in Requests, OnGearRequest(g) PROVE Shift!TypeOK'
    BY <1>1, <2>2, SameGears, IsrAssumption DEF OnGearRequest, Shift!RequestGear
  <2> QED  BY <1>8, <2>1, <2>2 DEF Interrupt
<1>9. CASE Looking \/ UNCHANGED vars
  BY <1>3, <1>9, LookingLeaves DEF vars
<1> QED  BY <1>4, <1>5, <1>6, <1>7, <1>8, <1>9, NextCases

\* The types of what the machine does not own.
OwnTypeOK ==
  /\ {vcu_torque_cut_ack, vcu_request_ever_seen, vcu_stale} \subseteq BOOLEAN
  /\ {vcu_request_age, loop_age} \subseteq 0..MaxAge
  /\ fault_bits \subseteq {"CAN_STALE"}
  /\ shift_count \in 0..(ShiftCountRange - 1)
  /\ last_completed_gear \in Gears
  /\ channels \subseteq Elements
  /\ pc \in Access
  /\ now \in Deltas \cup {0}
  /\ t \subseteq Gears
  /\ bits \subseteq {"CAN_STALE"}

LEMMA TypeParts == TypeOK <=> Shift!TypeOK /\ OwnTypeOK
BY DEF TypeOK, OwnTypeOK

LEMMA EnergisedElements == TypeOK => Shift!Energised \subseteq Elements
<1>1. \A h \in Gears : ClutchesFor(h) \subseteq Elements
  BY TableAssumption DEF ClutchesFor
<1> QED  BY <1>1, SameGears
         DEF TypeOK, Shift!TypeOK, Shift!Energised, Shift!EngagedSet, Shift!RampingInSet,
             Shift!RampingOutSet, Shift!LiftSet, Shift!DropSet

LEMMA OwnTypes == TypeOK /\ PlansFromRest /\ [Next]_vars => OwnTypeOK'
<1> SUFFICES ASSUME TypeOK, PlansFromRest, [Next]_vars PROVE OwnTypeOK'
  OBVIOUS
<1>0. OwnTypeOK /\ current \in Gears /\ target \in Gears
  BY TypeParts, IsrAssumption, SameGears DEF Shift!TypeOK
<1>1. 0 \in 0..MaxAge
  BY IsrAssumption
<1> USE DEF OwnTypeOK, Access, Planning, Writing, At
<1>2. CASE \E dt \in Deltas : BeginTick(dt)
  <2>1. PICK dt \in Deltas : BeginTick(dt)
    BY <1>2
  <2>2. Later(vcu_request_age, dt) \in 0..MaxAge /\ Later(loop_age, dt) \in 0..MaxAge
    BY <1>0, LaterInRange
  <2> QED  BY <1>0, <2>1, <2>2 DEF BeginTick
<1>3. CASE MarkStale \/ SetStaleBit
  BY <1>0, <1>3 DEF MarkStale, SetStaleBit, outVars
<1>4. CASE \/ PlumbAck \/ ReadTarget \/ CompareWithNeutral \/ AcceptTarget \/ RejectTarget
           \/ DecideToStep \/ SwitchOnPhase \/ PlanOther \/ PlanFromNeutral
  BY <1>0, <1>4 DEF PlumbAck, ReadTarget, CompareWithNeutral, AcceptTarget, RejectTarget,
     DecideToStep, SwitchOnPhase, PlanOther, PlanFromNeutral, vcuVars, outVars
<1>5. CASE Committing
  BY <1>0, <1>5, CommitIsHarmless DEF vcuVars, outVars
<1>6. CASE \/ ReadFaultBits("after_switch", "write_park_bit")
           \/ ReadFaultBits("read_for_poll", "write_polled_bits")
  BY <1>0, <1>6 DEF ReadFaultBits, vcuVars, outVars
<1>7. CASE FinishPark
  <2>1. shift_count' \in 0..(ShiftCountRange - 1) /\ last_completed_gear' \in Gears
    <3>1. CountShift
      BY <1>7 DEF FinishPark
    <3>2. (shift_count + 1) % ShiftCountRange \in 0..(ShiftCountRange - 1)
      BY <1>0, CountWraps
    <3> QED  BY <1>0, <3>1, <3>2 DEF CountShift
  <2>2. channels' \subseteq Elements /\ loop_age' \in 0..MaxAge
    BY <1>0, <1>1, <1>7, EnergisedElements DEF FinishPark, EmitSolenoids
  <2> QED  BY <1>0, <1>7, <2>1, <2>2 DEF FinishPark, WriteFaultBits
<1>8. CASE FinishTick
  BY <1>0, <1>8 DEF FinishTick, WriteFaultBits, outVars
<1>9. CASE Interrupt
  BY <1>0, <1>1, <1>9 DEF Interrupt, OnGearRequest, OnVehicleInfo, outVars, locals
<1>10. CASE UNCHANGED vars
  BY <1>0, <1>10 DEF vars, vcuVars, outVars, locals
<1> QED  BY <1>2, <1>3, <1>4, <1>5, <1>6, <1>7, <1>8, <1>9, <1>10
         DEF Next, InTick, Committing, Interrupt

-------------------------------------------------------------------------------
(* The step under way                                                      *)

\* Planning is only reached from Idle, and is left before the phase changes.
LEMMA PlansStep == TypeOK /\ PlansFromRest /\ [Next]_vars => PlansFromRest'
<1> SUFFICES ASSUME TypeOK, PlansFromRest, [Next]_vars PROVE PlansFromRest'
  OBVIOUS
<1> USE DEF PlansFromRest, Planning, At
<1>1. CASE Looking
  BY <1>1, LookingLeaves DEF Looking, BeginTick, MarkStale, SetStaleBit, ReadTarget,
     CompareWithNeutral, AcceptTarget, DecideToStep, PlanOther, PlanFromNeutral,
     ReadFaultBits, FinishPark, FinishTick, shiftVars
<1>2. CASE PlumbAck \/ RejectTarget \/ SwitchOnPhase
  BY <1>2 DEF PlumbAck, RejectTarget, SwitchOnPhase
<1>3. CASE Committing
  BY <1>3, CommitIsHarmless
<1>4. CASE Interrupt
  BY <1>4 DEF Interrupt, OnGearRequest, OnVehicleInfo, Shift!RequestGear, shiftVars, locals
<1>5. CASE UNCHANGED vars
  BY <1>5 DEF vars, shiftVars, locals
<1> QED  BY <1>1, <1>2, <1>3, <1>4, <1>5, NextCases

LEMMA HarmlessStep ==
  TypeOK /\ PlansFromRest /\ StepIsHarmless /\ [Next]_vars => StepIsHarmless'
<1> SUFFICES ASSUME TypeOK, PlansFromRest, StepIsHarmless, [Next]_vars
             PROVE  StepIsHarmless'
  OBVIOUS
<1> USE DEF StepIsHarmless, Shift!InStep, Shift!EnterPhase, Shift!StayInPhase
<1>1. CASE Looking \/ UNCHANGED vars
  BY <1>1, LookingLeaves DEF vars, shiftVars
<1>2. CASE PlumbAck
  BY <1>2 DEF PlumbAck, Shift!SetTorqueCutAck
<1>3. CASE RejectTarget
  BY <1>3 DEF RejectTarget
<1>4. CASE SwitchOnPhase
  BY <1>4 DEF SwitchOnPhase, Shift!RestInGear, Shift!EndPreFill, Shift!TorqueIsCut,
     Shift!TimeOutTorqueCut, Shift!EndOverlap, Shift!EndComplete, Shift!Wait
<1>5. CASE Committing
  <2>1. PICK g \in Gears : Commit(g) /\ (g = current \/ Shift!Adjacent(current, g))
    BY <1>5, CommitIsHarmless
  <2> QED  BY <2>1 DEF Commit
<1>6. CASE Interrupt
  BY <1>6 DEF Interrupt, OnGearRequest, OnVehicleInfo, Shift!RequestGear, shiftVars
<1> QED  BY <1>1, <1>2, <1>3, <1>4, <1>5, <1>6, NextCases

\* A step leaves Complete through "after_switch", where the count is then made.
LEMMA UncountedStep ==
  TypeOK /\ PlansFromRest /\ NoStepUncounted /\ [Next]_vars => NoStepUncounted'
<1> SUFFICES ASSUME TypeOK, PlansFromRest, NoStepUncounted, [Next]_vars
             PROVE  NoStepUncounted'
  OBVIOUS
<1> USE DEF NoStepUncounted, At, Shift!EnterPhase, Shift!StayInPhase
<1>1. CASE FinishPark
  <2>1. pc' = "read_for_poll" /\ UNCHANGED <<phase, current>>
    BY <1>1 DEF FinishPark, WriteFaultBits, shiftVars
  <2>2. CASE phase = "Idle"
    <3>1. current = last_completed_gear \/ last_completed_gear' = current
      BY <1>1, <2>2, Zenon DEF FinishPark, CountShift
    <3>2. current = last_completed_gear => last_completed_gear' = last_completed_gear
      BY <1>1, Zenon DEF FinishPark, CountShift
    <3> QED  BY <2>1, <3>1, <3>2
  <2>3. CASE phase # "Idle"
    BY <1>1, <2>1, <2>3 DEF FinishPark, CountShift
  <2> QED  BY <2>2, <2>3
<1>2. CASE Looking /\ ~FinishPark
  <2>1. UNCHANGED last_completed_gear
    BY <1>2 DEF Looking, BeginTick, MarkStale, SetStaleBit, ReadTarget,
       CompareWithNeutral, AcceptTarget, DecideToStep, PlanOther, PlanFromNeutral,
       ReadFaultBits, FinishTick, outVars
  <2>2. \/ pc' \in {"after_switch", "write_park_bit"}
        \/ pc \notin {"after_switch", "write_park_bit"}
    BY <1>2 DEF Looking, BeginTick, MarkStale, SetStaleBit, ReadTarget,
       CompareWithNeutral, AcceptTarget, DecideToStep, PlanOther, PlanFromNeutral,
       ReadFaultBits, FinishTick
  <2> QED  BY <1>2, <2>1, <2>2, LookingLeaves DEF shiftVars
<1>3. CASE PlumbAck
  BY <1>3 DEF PlumbAck, Shift!SetTorqueCutAck, outVars
<1>4. CASE RejectTarget
  BY <1>4 DEF RejectTarget
<1>5. CASE SwitchOnPhase
  BY <1>5 DEF SwitchOnPhase, Shift!RestInGear, Shift!EndPreFill, Shift!TorqueIsCut,
     Shift!TimeOutTorqueCut, Shift!EndOverlap, Shift!EndComplete, Shift!Wait, outVars
<1>6. CASE Committing
  <2>1. PICK g \in Gears : Commit(g)
    BY <1>6, CommitIsHarmless
  <2>2. phase = "Idle" /\ pc \notin {"after_switch", "write_park_bit"} /\ UNCHANGED outVars
    BY <1>6, CommitIsHarmless DEF Planning
  <2> QED  BY <2>1, <2>2 DEF Commit, outVars
<1>7. CASE Interrupt
  BY <1>7 DEF Interrupt, OnGearRequest, OnVehicleInfo, Shift!RequestGear, shiftVars,
     outVars, locals
<1>8. CASE UNCHANGED vars
  BY <1>8 DEF vars, shiftVars, outVars, locals
<1> QED  BY <1>1, <1>2, <1>3, <1>4, <1>5, <1>6, <1>7, <1>8, NextCases

-------------------------------------------------------------------------------
(* The fault bits and the solenoids                                        *)

\* What is written back over fault_bits_ was read after silence was noticed, or
\* silence has been withdrawn since.
LEMMA SilenceStep == SilenceIsNotHidden /\ [Next]_vars => SilenceIsNotHidden'
<1> SUFFICES ASSUME SilenceIsNotHidden, [Next]_vars PROVE SilenceIsNotHidden'
  OBVIOUS
<1> USE DEF SilenceIsNotHidden, Writing, At
<1>1. CASE (\E dt \in Deltas : BeginTick(dt)) \/ MarkStale \/ SetStaleBit
  BY <1>1 DEF BeginTick, MarkStale, SetStaleBit
<1>2. CASE \/ PlumbAck \/ ReadTarget \/ CompareWithNeutral \/ AcceptTarget \/ RejectTarget
           \/ DecideToStep \/ SwitchOnPhase \/ PlanOther \/ PlanFromNeutral
  BY <1>2 DEF PlumbAck, ReadTarget, CompareWithNeutral, AcceptTarget, RejectTarget,
     DecideToStep, SwitchOnPhase, PlanOther, PlanFromNeutral, vcuVars
<1>3. CASE Committing
  BY <1>3 DEF Committing, PlanSame, PlanForward, PlanToNeutral, PlanEngagement, vcuVars
<1>4. CASE \/ ReadFaultBits("after_switch", "write_park_bit")
           \/ ReadFaultBits("read_for_poll", "write_polled_bits")
  BY <1>4 DEF ReadFaultBits, vcuVars
<1>5. CASE FinishPark \/ FinishTick
  BY <1>5 DEF FinishPark, FinishTick, WriteFaultBits
<1>6. CASE Interrupt
  BY <1>6 DEF Interrupt, OnGearRequest, OnVehicleInfo, locals
<1>7. CASE UNCHANGED vars
  BY <1>7 DEF vars, vcuVars, locals
<1> QED  BY <1>1, <1>2, <1>3, <1>4, <1>5, <1>6, <1>7 DEF Next, InTick, Committing, Interrupt

\* The elements a harmless step energises are those of its one or two gears.
LEMMA EnergisedIsLegal ==
  ASSUME TypeOK, StepIsHarmless
  PROVE  \E a, b \in Gears :
           /\ a = b \/ (a \in Forward /\ b \in Forward /\ a = b + 1)
           /\ Shift!Energised = ClutchesFor(a) \cup ClutchesFor(b)
<1>1. current \in Gears /\ next_step \in Gears
  BY SameGears DEF TypeOK, Shift!TypeOK
<1>2. CASE ~Shift!InStep
  <2>1. Shift!Energised = ClutchesFor(current)
    BY SameGears, <1>2 DEF Shift!Energised, Shift!EngagedSet, Shift!RampingInSet,
       Shift!RampingOutSet, Shift!InStep
  <2> QED  BY <1>1, <2>1
<1>3. CASE Shift!InStep
  <2>1. Shift!Energised = ClutchesFor(current) \cup ClutchesFor(next_step)
    BY SameGears, <1>3 DEF Shift!Energised, Shift!EngagedSet, Shift!RampingInSet,
       Shift!RampingOutSet, Shift!InStep, Shift!LiftSet, Shift!DropSet
  <2>2. \/ next_step = current
        \/ /\ current \in Forward /\ next_step \in Forward
           /\ next_step = current + 1 \/ current = next_step + 1
        \/ current = Neutral
        \/ next_step = Neutral
    BY <1>3, SameGears DEF StepIsHarmless, Shift!Adjacent
  <2>3. ClutchesFor(Neutral) = {}
    BY TableAssumption DEF NeutralEngagesNothing
  <2>4. CASE next_step = current
    BY <1>1, <2>1, <2>4
  <2>5. CASE current \in Forward /\ next_step \in Forward /\ next_step = current + 1
    BY <1>1, <2>1, <2>5
  <2>6. CASE current \in Forward /\ next_step \in Forward /\ current = next_step + 1
    BY <1>1, <2>1, <2>6
  <2>7. CASE current = Neutral
    BY <1>1, <2>1, <2>3, <2>7
  <2>8. CASE next_step = Neutral
    BY <1>1, <2>1, <2>3, <2>8
  <2> QED  BY <2>2, <2>4, <2>5, <2>6, <2>7, <2>8
<1> QED  BY <1>2, <1>3

LEMMA EnabledStep ==
  TypeOK /\ StepIsHarmless /\ EnabledSetIsLegal /\ [Next]_vars => EnabledSetIsLegal'
<1> SUFFICES ASSUME TypeOK, StepIsHarmless, EnabledSetIsLegal, [Next]_vars
             PROVE  EnabledSetIsLegal'
  OBVIOUS
<1>1. channels' = channels \/ channels' = Shift!Energised
  <2>1. CASE FinishPark
    BY <2>1 DEF FinishPark, EmitSolenoids
  <2>2. CASE ~FinishPark
    BY <2>2 DEF Next, InTick, BeginTick, MarkStale, SetStaleBit, PlumbAck, ReadTarget,
       CompareWithNeutral, AcceptTarget, RejectTarget, DecideToStep, SwitchOnPhase,
       PlanSame, PlanOther, PlanForward, PlanToNeutral, PlanFromNeutral, PlanEngagement,
       ReadFaultBits, FinishTick, OnGearRequest, OnVehicleInfo, vars, outVars
  <2> QED  BY <2>1, <2>2
<1>2. CASE channels' = channels
  BY <1>2 DEF EnabledSetIsLegal
<1>3. CASE channels' = Shift!Energised
  BY <1>3, EnergisedIsLegal DEF EnabledSetIsLegal
<1> QED  BY <1>1, <1>2, <1>3

-------------------------------------------------------------------------------
(* IsrInv is inductive                                                     *)

LEMMA InitIsrInv == Init => IsrInv
<1> SUFFICES ASSUME Init PROVE IsrInv
  OBVIOUS
<1>1. TypeOK
  <2>1. torque_cut_ack \in BOOLEAN
    BY Zenon DEF Init, Shift!Init
  <2>2. Shift!TypeOK
    BY <2>1, IsrAssumption
       DEF Init, Shift!Init, Shift!TypeOK, Shift!Gears, Shift!ShiftPhase, Shift!ShiftFault
  <2>3. {vcu_torque_cut_ack, vcu_request_ever_seen, vcu_stale} \subseteq BOOLEAN
    BY Zenon DEF Init
  <2>4. OwnTypeOK
    BY <2>3, IsrAssumption DEF Init, OwnTypeOK, Access, Gears
  <2> QED  BY <2>2, <2>4, TypeParts
<1>2. StepIsHarmless /\ PlansFromRest
  BY DEF Init, Shift!Init, StepIsHarmless, Shift!InStep, PlansFromRest, Planning
<1>3. SilenceIsNotHidden
  BY DEF Init, SilenceIsNotHidden
<1>4. EnabledSetIsLegal
  <2>1. ClutchesFor(Neutral) = {} /\ Neutral \in Gears
    BY TableAssumption DEF NeutralEngagesNothing, Gears
  <2> QED  BY <2>1 DEF Init, EnabledSetIsLegal
<1>5. NoStepUncounted
  BY SameGears DEF Init, Shift!Init, NoStepUncounted
<1> QED  BY <1>1, <1>2, <1>3, <1>4, <1>5 DEF IsrInv

\* However the interrupts fall between the accesses of Tick: no step leads off the
\* gear graph, a noticed silence stays reported, the enabled elements are those of
\* one gear or of two neighbours, and no step goes uncounted.
THEOREM InterruptsAreHarmless == Spec => []IsrInv
<1>1. IsrInv /\ [Next]_vars => IsrInv'
  <2> SUFFICES ASSUME IsrInv, [Next]_vars PROVE IsrInv'
    OBVIOUS
  <2>1. TypeOK'
    <3>1. Shift!TypeOK' /\ OwnTypeOK'
      BY ShiftTypes, OwnTypes DEF IsrInv
    <3> QED  BY <3>1 DEF TypeOK, OwnTypeOK
  <2> QED  BY <2>1, PlansStep, HarmlessStep, SilenceStep, EnabledStep, UncountedStep DEF IsrInv
<1> QED  BY InitIsrInv, <1>1, PTL DEF Spec

-------------------------------------------------------------------------------
(* From batch to batch                                                     *)

\* Nothing is on, or nothing shall be, or it is at most one element that differs.
Near(a, b) ==
  \/ a = {} \/ b = {}
  \/ \A x, y \in (a \ b) \cup (b \ a) : x = y

\* The accesses of a Tick before its switch has looked at the time.
BeforeSwitch ==
  {"mark_stale", "set_bit", "plumb_ack", "read_target", "compare_with_Neutral",
   "compare_with_Reverse", "switch"}

AgeAtSwitch == IF pc \in BeforeSwitch THEN Shift!Age(now) ELSE elapsed

\* The Tick under way still writes a batch, and its switch is behind it.
BatchIsDue == pc \in {"after_switch", "write_park_bit"} /\ loop_age >= kSolenoidLoopMs

\* What is enabled lags at most one element behind what is commanded: a phase that
\* lasts a whole loop is not left before a batch has caught up with it, and no phase
\* that may be shorter changes what is commanded at both of its ends.
BatchInv ==
  /\ Near(channels, Shift!Energised)
  /\ Shift!InStep => channels \in {ClutchesFor(current), Shift!Energised}
  /\ (phase = "Idle" /\ fault = "None") \/ phase = "TorqueCut"
        => channels = Shift!Energised \/ BatchIsDue
  /\ phase = "Overlap" => channels = Shift!Energised \/ current = Neutral
  /\ phase \in {"PreFill", "Complete"}
        => channels = Shift!Energised \/ AgeAtSwitch <= loop_age
  /\ pc \in Planning => fault = "None"

LEMMA EnergisedSet ==
  /\ Shift!Energised = ClutchesFor(current)
        \cup (IF Shift!InStep THEN ClutchesFor(next_step) ELSE {})
  /\ Shift!Energised' = ClutchesFor(current')
        \cup (IF Shift!InStep' THEN ClutchesFor(next_step') ELSE {})
BY SameGears DEF Shift!Energised, Shift!EngagedSet, Shift!RampingInSet,
   Shift!RampingOutSet, Shift!InStep, Shift!LiftSet, Shift!DropSet

LEMMA ClutchesAreFinite ==
  ASSUME NEW S \in SUBSET Elements
  PROVE  IsFiniteSet(S)
<1>1. IsFiniteSet({"A"} \cup {"B"}) /\ IsFiniteSet({"C"} \cup {"D"}) /\ IsFiniteSet({"E"})
  BY FS_Singleton, FS_Union
<1>2. IsFiniteSet(({"A"} \cup {"B"}) \cup ({"C"} \cup {"D"}))
  BY <1>1, FS_Union
<1>3. IsFiniteSet((({"A"} \cup {"B"}) \cup ({"C"} \cup {"D"})) \cup {"E"})
  BY <1>1, <1>2, FS_Union
<1>4. Elements = (({"A"} \cup {"B"}) \cup ({"C"} \cup {"D"})) \cup {"E"}
  BY DEF Elements
<1> QED  BY <1>3, <1>4, FS_Subset

\* An edge of the gear graph that joins two gears which hold torque swaps one element
\* for one (clutch_table.h's static_asserts).
LEMMA EdgeSwapsOne ==
  ASSUME NEW a \in Gears, NEW b \in Gears, b = a \/ Shift!Adjacent(a, b)
  PROVE  /\ ClutchesFor(a) = {} \/ \A x, y \in ClutchesFor(b) \ ClutchesFor(a) : x = y
         /\ ClutchesFor(b) = {} \/ \A x, y \in ClutchesFor(a) \ ClutchesFor(b) : x = y
<1> DEFINE D(c, d) == ClutchesFor(c) \ ClutchesFor(d)
<1>1. ASSUME NEW g \in 1..7
      PROVE  /\ \A x, y \in D(g, g + 1) : x = y
             /\ \A x, y \in D(g + 1, g) : x = y
  <2>1. Cardinality(D(g, g + 1)) = 1 /\ Cardinality(D(g + 1, g)) = 1
    BY TableAssumption DEF AdjacentPairsAreSingleElement, IsSingleElement, DropSet, LiftSet
  <2>2. IsFiniteSet(D(g, g + 1)) /\ IsFiniteSet(D(g + 1, g))
    <3>1. D(g, g + 1) \in SUBSET Elements /\ D(g + 1, g) \in SUBSET Elements
      BY TableAssumption DEF ClutchesFor
    <3> QED  BY <3>1, ClutchesAreFinite
  <2>3. (\E x : D(g, g + 1) = {x}) /\ (\E x : D(g + 1, g) = {x})
    BY <2>1, <2>2, FS_Singleton
  <2> QED  BY <2>3
<1>2. CASE b = a \/ a = Neutral \/ b = Neutral
  BY <1>2, TableAssumption DEF NeutralEngagesNothing
<1>3. CASE a \in Forward /\ b \in Forward /\ b = a + 1
  <2>1. a \in 1..7
    BY <1>3 DEF Forward
  <2> QED  BY <1>1, <1>3, <2>1
<1>4. CASE a \in Forward /\ b \in Forward /\ a = b + 1
  <2>1. b \in 1..7
    BY <1>4 DEF Forward
  <2> QED  BY <1>1, <1>4, <2>1
<1> QED  BY <1>2, <1>3, <1>4, SameGears DEF Shift!Adjacent

\* The steps that leave gear, phase and age alone, and write no batch.
Idling ==
  \/ Looking /\ ~FinishPark
  \/ PlumbAck \/ Interrupt \/ UNCHANGED vars

LEMMA IdlingKeepsBatch ==
  ASSUME TypeOK, BatchInv, Idling
  PROVE  BatchInv'
<1>1. /\ UNCHANGED <<current, next_step, phase, fault, elapsed, channels>>
      /\ Shift!Energised' = Shift!Energised /\ Shift!InStep' = Shift!InStep
  <2>1. UNCHANGED <<current, next_step, phase, fault, elapsed>>
    BY LookingLeaves DEF Idling, PlumbAck, Interrupt, OnGearRequest, OnVehicleInfo,
       Shift!SetTorqueCutAck, Shift!RequestGear, shiftVars, vars
  <2>2. UNCHANGED channels
    BY DEF Idling, Looking, BeginTick, MarkStale, SetStaleBit, ReadTarget,
       CompareWithNeutral, AcceptTarget, DecideToStep, PlanOther, PlanFromNeutral,
       ReadFaultBits, FinishTick, PlumbAck, Interrupt, OnGearRequest, OnVehicleInfo,
       outVars, vars
  <2>3. Shift!InStep' = Shift!InStep
    BY <2>1 DEF Shift!InStep
  <2> QED  BY <2>1, <2>2, <2>3, EnergisedSet
<1>2. BatchIsDue => BatchIsDue'
  BY DEF BatchIsDue, Idling, Looking, BeginTick, MarkStale, SetStaleBit, ReadTarget,
     CompareWithNeutral, AcceptTarget, DecideToStep, PlanOther, PlanFromNeutral,
     ReadFaultBits, FinishTick, PlumbAck, Interrupt, OnGearRequest, OnVehicleInfo,
     At, outVars, locals, vars
<1>3. phase \in {"PreFill", "Complete"} /\ AgeAtSwitch <= loop_age
        => AgeAtSwitch' <= loop_age'
  <2>1. CASE \E dt \in Deltas : BeginTick(dt)
    <3>1. PICK dt \in Deltas : BeginTick(dt)
      BY <2>1
    <3>2. AgeAtSwitch = elapsed
      BY <3>1 DEF AgeAtSwitch, BeforeSwitch, BeginTick, At
    <3>3. AgeAtSwitch' = Shift!Age(dt) /\ loop_age' = Later(loop_age, dt)
      BY <1>1, <3>1 DEF AgeAtSwitch, BeforeSwitch, BeginTick, At, Shift!Age
    <3>4. elapsed \in 0..MaxAge /\ loop_age \in 0..MaxAge /\ dt \in Nat /\ MaxAge \in Nat
      BY IsrAssumption DEF TypeOK, Shift!TypeOK
    <3> QED  BY <3>2, <3>3, <3>4 DEF Shift!Age, Later
  <2>2. CASE DecideToStep
    BY <2>2 DEF DecideToStep
  <2>3. CASE UNCHANGED <<loop_age, now>> /\ (pc \in BeforeSwitch <=> pc' \in BeforeSwitch)
    BY <1>1, <2>3 DEF AgeAtSwitch, Shift!Age
  <2>4. CASE FinishTick
    BY <1>1, <2>4 DEF FinishTick, At, AgeAtSwitch, BeforeSwitch, outVars
  <2>5. \/ (\E dt \in Deltas : BeginTick(dt)) \/ DecideToStep \/ FinishTick
        \/ UNCHANGED <<loop_age, now>> /\ (pc \in BeforeSwitch <=> pc' \in BeforeSwitch)
    BY DEF Idling, Looking, MarkStale, SetStaleBit, ReadTarget, CompareWithNeutral,
       AcceptTarget, PlanOther, PlanFromNeutral, ReadFaultBits, PlumbAck, Interrupt,
       OnGearRequest, OnVehicleInfo, At, BeforeSwitch, outVars, locals, vars
  <2> QED  BY <2>1, <2>2, <2>3, <2>4, <2>5
<1>4. pc' \in Planning => pc \in Planning \/ fault = "None"
  BY DEF Planning, Idling, Looking, BeginTick, MarkStale, SetStaleBit, ReadTarget,
     CompareWithNeutral, AcceptTarget, DecideToStep, PlanOther, PlanFromNeutral,
     ReadFaultBits, FinishTick, PlumbAck, Interrupt, OnGearRequest, OnVehicleInfo,
     At, locals, vars
<1> QED  BY <1>1, <1>2, <1>3, <1>4 DEF BatchInv, Near

\* A batch catches up; without one there was nothing due.
LEMMA FinishParkKeepsBatch ==
  ASSUME TypeOK, BatchInv, FinishPark
  PROVE  BatchInv' /\ (channels' # channels => channels' = Shift!Energised)
<1>1. /\ UNCHANGED <<current, next_step, phase, fault, elapsed>>
      /\ pc = "write_park_bit" /\ pc' = "read_for_poll"
  BY DEF FinishPark, WriteFaultBits, shiftVars, At
<1>2. Shift!Energised' = Shift!Energised /\ Shift!InStep' = Shift!InStep
  BY <1>1, EnergisedSet DEF Shift!InStep
<1>3. CASE loop_age >= kSolenoidLoopMs
  <2>1. channels' = Shift!Energised
    BY <1>3 DEF FinishPark, EmitSolenoids
  <2>2. pc' \notin Planning
    BY <1>1 DEF Planning
  <2> QED  BY <1>1, <1>2, <2>1, <2>2 DEF BatchInv, Near
<1>4. CASE ~(loop_age >= kSolenoidLoopMs)
  <2>1. UNCHANGED <<channels, loop_age>> /\ ~BatchIsDue
    BY <1>4 DEF FinishPark, EmitSolenoids, BatchIsDue
  <2>2. AgeAtSwitch = elapsed /\ AgeAtSwitch' = elapsed /\ pc' \notin Planning
    BY <1>1 DEF AgeAtSwitch, BeforeSwitch, Planning
  <2> QED  BY <1>1, <1>2, <2>1, <2>2 DEF BatchInv, Near
<1> QED  BY <1>3, <1>4

\* A rejected target ends the step under way in the gear it began from, where the
\* fault then keeps the box.
LEMMA RejectKeepsBatch ==
  ASSUME TypeOK, StepIsHarmless, BatchInv, RejectTarget
  PROVE  BatchInv'
<1>1. /\ current' = current /\ phase' = "Idle" /\ fault' # "None" /\ channels' = channels
      /\ pc' = "after_switch"
  BY DEF RejectTarget, Shift!EnterPhase, At, outVars
<1>2. Near(channels, ClutchesFor(current))
  <2>1. CASE Shift!InStep
    <3>1. /\ channels \in {ClutchesFor(current),
                           ClutchesFor(current) \cup ClutchesFor(next_step)}
          /\ next_step = current \/ Shift!Adjacent(current, next_step)
          /\ current \in Gears /\ next_step \in Gears
      BY <2>1, EnergisedSet, SameGears DEF BatchInv, StepIsHarmless, TypeOK, Shift!TypeOK
    <3>2. ClutchesFor(current) = {}
            \/ \A x, y \in ClutchesFor(next_step) \ ClutchesFor(current) : x = y
      BY <3>1, EdgeSwapsOne
    <3> QED  BY <3>1, <3>2 DEF Near
  <2>2. CASE ~Shift!InStep
    BY <2>2, EnergisedSet DEF BatchInv
  <2> QED  BY <2>1, <2>2
<1>3. Shift!Energised' = ClutchesFor(current) /\ ~Shift!InStep'
  BY <1>1, EnergisedSet DEF Shift!InStep
<1> QED  BY <1>1, <1>2, <1>3 DEF BatchInv, Near, Planning

\* Where the planning ends, a batch has caught up with the gear.
LEMMA CommitKeepsBatch ==
  ASSUME IsrInv, BatchInv, Committing
  PROVE  BatchInv'
<1> USE SameGears
<1>1. PICK g \in Gears : Commit(g) /\ (g = current \/ Shift!Adjacent(current, g))
  BY CommitIsHarmless DEF IsrInv
<1>2. /\ pc \in Planning /\ pc' = "after_switch" /\ phase = "Idle"
      /\ UNCHANGED <<channels, loop_age>>
  BY CommitIsHarmless DEF IsrInv, outVars
<1>3. channels = ClutchesFor(current)
  BY <1>2, EnergisedSet DEF BatchInv, BatchIsDue, Planning, Shift!InStep
<1>4. /\ UNCHANGED <<current, fault>> /\ next_step' = g /\ elapsed' = 0
      /\ phase' = IF Neutral \in {current, g} THEN "Overlap" ELSE "PreFill"
  BY <1>1 DEF Commit, Shift!EnterPhase
<1>5. Shift!Energised' = ClutchesFor(current) \cup ClutchesFor(g)
  BY <1>4, EnergisedSet DEF Shift!InStep
<1>6. current \in Gears /\ loop_age \in Nat
  BY DEF IsrInv, TypeOK, Shift!TypeOK
<1>7. Near(channels, Shift!Energised')
  BY <1>1, <1>3, <1>5, <1>6, EdgeSwapsOne DEF Near
<1>8. phase' = "Overlap" => channels = Shift!Energised' \/ current = Neutral
  BY <1>3, <1>4, <1>5, TableAssumption DEF NeutralEngagesNothing
<1>9. AgeAtSwitch' <= loop_age'
  BY <1>2, <1>4, <1>6 DEF AgeAtSwitch, BeforeSwitch
<1>10. pc' \notin Planning
  BY <1>2 DEF Planning
<1> QED  BY <1>2, <1>3, <1>4, <1>7, <1>8, <1>9, <1>10 DEF BatchInv, Near

\* The switch: a phase that is left because its time is up has lasted a whole loop if
\* a batch is what it waits for.
LEMMA SwitchKeepsBatch ==
  ASSUME kSolenoidLoopMs <= pre_fill_ms, kSolenoidLoopMs <= torque_restore_ms,
         TypeOK, StepIsHarmless, BatchInv, SwitchOnPhase
  PROVE  BatchInv'
<1>1. /\ pc = "switch" /\ pc' = "after_switch" /\ UNCHANGED <<channels, loop_age>>
      /\ ~BatchIsDue /\ pc' \notin Planning
  BY DEF SwitchOnPhase, At, outVars, BatchIsDue, Planning
<1>2. /\ AgeAtSwitch = Shift!Age(now) /\ AgeAtSwitch' = elapsed'
      /\ AgeAtSwitch \in Nat /\ loop_age \in Nat /\ kSolenoidLoopMs \in Nat
  <2>1. AgeAtSwitch = Shift!Age(now) /\ AgeAtSwitch' = elapsed'
    BY <1>1 DEF AgeAtSwitch, BeforeSwitch
  <2>2. elapsed \in Nat /\ now \in Nat /\ MaxAge \in Nat /\ loop_age \in Nat
        /\ kSolenoidLoopMs \in Nat
    BY IsrAssumption DEF TypeOK, Shift!TypeOK
  <2> QED  BY <2>1, <2>2 DEF Shift!Age
<1>3. pre_fill_ms \in Nat /\ torque_restore_ms \in Nat
  BY IsrAssumption
<1> USE DEF Shift!EnterPhase, Shift!StayInPhase
<1>4. CASE Shift!RestInGear(torque_cut_ack, now) \/ Shift!Wait(torque_cut_ack, now)
  <2>1. UNCHANGED <<current, next_step, phase, fault>> /\ elapsed' = Shift!Age(now)
    BY <1>4 DEF Shift!RestInGear, Shift!Wait
  <2>2. Shift!InStep' = Shift!InStep /\ Shift!Energised' = Shift!Energised
    BY <2>1, EnergisedSet DEF Shift!InStep
  <2> QED  BY <1>1, <1>2, <2>1, <2>2 DEF BatchInv, Near
<1>5. CASE Shift!EndPreFill(torque_cut_ack, now)
  <2>1. /\ phase = "PreFill" /\ phase' = "TorqueCut" /\ UNCHANGED <<current, next_step>>
        /\ pre_fill_ms <= Shift!Age(now)
    BY <1>2, <1>3, <1>5 DEF Shift!EndPreFill, Shift!PhaseElapsed
  <2>2. Shift!InStep /\ Shift!InStep' /\ Shift!Energised' = Shift!Energised
    BY <2>1, EnergisedSet DEF Shift!InStep
  <2>3. channels = Shift!Energised \/ BatchIsDue'
    BY <1>1, <1>2, <1>3, <2>1 DEF BatchInv, BatchIsDue
  <2> QED  BY <1>1, <2>1, <2>2, <2>3 DEF BatchInv, Near
<1>6. CASE Shift!TorqueIsCut(torque_cut_ack)
  <2>1. phase = "TorqueCut" /\ phase' = "Overlap" /\ UNCHANGED <<current, next_step>>
    BY <1>6 DEF Shift!TorqueIsCut
  <2>2. Shift!InStep /\ Shift!InStep' /\ Shift!Energised' = Shift!Energised
    BY <2>1, EnergisedSet DEF Shift!InStep
  <2> QED  BY <1>1, <2>1, <2>2 DEF BatchInv, Near
<1>7. CASE Shift!TimeOutTorqueCut(torque_cut_ack, now)
  <2>1. phase = "TorqueCut" /\ phase' = "Idle" /\ fault' # "None" /\ current' = current
    BY <1>7 DEF Shift!TimeOutTorqueCut
  <2>2. /\ channels = ClutchesFor(current) \cup ClutchesFor(next_step)
        /\ next_step = current \/ Shift!Adjacent(current, next_step)
        /\ current \in Gears /\ next_step \in Gears
    BY <1>1, <2>1, EnergisedSet, SameGears
       DEF BatchInv, StepIsHarmless, Shift!InStep, TypeOK, Shift!TypeOK
  <2>3. Shift!Energised' = ClutchesFor(current) /\ ~Shift!InStep'
    BY <2>1, EnergisedSet DEF Shift!InStep
  <2>4. Near(channels, Shift!Energised')
    BY <2>2, <2>3, EdgeSwapsOne DEF Near
  <2> QED  BY <1>1, <2>1, <2>3, <2>4 DEF BatchInv, Near
<1>8. CASE Shift!EndOverlap(torque_cut_ack, now)
  <2>1. phase = "Overlap" /\ phase' = "Complete" /\ current' = next_step /\ elapsed' = 0
    BY <1>8 DEF Shift!EndOverlap
  <2>2. /\ \/ channels = ClutchesFor(current) \cup ClutchesFor(next_step)
           \/ channels = ClutchesFor(current) /\ current = Neutral
        /\ next_step = current \/ Shift!Adjacent(current, next_step)
        /\ current \in Gears /\ next_step \in Gears
    BY <2>1, EnergisedSet, SameGears
       DEF BatchInv, StepIsHarmless, Shift!InStep, TypeOK, Shift!TypeOK
  <2>3. Shift!Energised' = ClutchesFor(next_step) /\ ~Shift!InStep'
    BY <2>1, EnergisedSet DEF Shift!InStep
  <2>4. ClutchesFor(Neutral) = {}
    BY TableAssumption DEF NeutralEngagesNothing
  <2>5. Near(channels, Shift!Energised')
    BY <2>2, <2>3, <2>4, EdgeSwapsOne DEF Near
  <2> QED  BY <1>1, <1>2, <2>1, <2>3, <2>5 DEF BatchInv, Near
<1>9. CASE Shift!EndComplete(torque_cut_ack, now)
  <2>1. /\ phase = "Complete" /\ phase' = "Idle" /\ UNCHANGED <<current, next_step>>
        /\ torque_restore_ms <= Shift!Age(now)
    BY <1>2, <1>3, <1>9 DEF Shift!EndComplete, Shift!PhaseElapsed
  <2>2. ~Shift!InStep' /\ Shift!Energised' = Shift!Energised
    BY <2>1, EnergisedSet DEF Shift!InStep
  <2>3. channels = Shift!Energised \/ BatchIsDue'
    BY <1>1, <1>2, <1>3, <2>1 DEF BatchInv, BatchIsDue
  <2> QED  BY <1>1, <2>1, <2>2, <2>3 DEF BatchInv, Near
<1> QED  BY <1>4, <1>5, <1>6, <1>7, <1>8, <1>9 DEF SwitchOnPhase

LEMMA InitBatchInv == Init => BatchInv
<1> SUFFICES ASSUME Init PROVE BatchInv
  OBVIOUS
<1>1. phase = "Idle" /\ current = Neutral /\ channels = {} /\ pc = "ready"
  BY SameGears DEF Init, Shift!Init
<1>2. Shift!Energised = {} /\ ~Shift!InStep
  BY <1>1, EnergisedSet, TableAssumption DEF Shift!InStep, NeutralEngagesNothing
<1> QED  BY <1>1, <1>2 DEF BatchInv, Near, Planning

\* If filling and restoring torque each last at least one solenoid loop, no two
\* elements are switched by one batch but through all off, wherever the interrupts
\* strike and however late the Ticks come.
THEOREM BatchesSwitchOneElement ==
  ASSUME kSolenoidLoopMs <= pre_fill_ms, kSolenoidLoopMs <= torque_restore_ms
  PROVE  Spec => OneElementPerBatch
<1>1. IsrInv /\ BatchInv /\ [Next]_vars => BatchInv'
  <2> SUFFICES ASSUME IsrInv, BatchInv, [Next]_vars PROVE BatchInv'
    OBVIOUS
  <2>1. \/ Idling \/ FinishPark \/ RejectTarget \/ SwitchOnPhase \/ Committing
    BY NextCases DEF Idling
  <2> QED  BY <2>1, IdlingKeepsBatch, FinishParkKeepsBatch, RejectKeepsBatch,
              SwitchKeepsBatch, CommitKeepsBatch DEF IsrInv
<1>2. IsrInv /\ BatchInv /\ [Next]_vars =>
        [\/ channels = {} \/ channels' = {}
         \/ \A x, y \in (channels \ channels') \cup (channels' \ channels) : x = y]_vars
  <2> SUFFICES ASSUME IsrInv, BatchInv, Next
               PROVE  Near(channels, channels')
    BY DEF Near
  <2>1. CASE FinishPark
    BY <2>1, FinishParkKeepsBatch DEF IsrInv, BatchInv, Near
  <2>2. CASE ~FinishPark
    <3>1. channels' = channels
      BY <2>2 DEF Next, InTick, BeginTick, MarkStale, SetStaleBit, PlumbAck, ReadTarget,
         CompareWithNeutral, AcceptTarget, RejectTarget, DecideToStep, SwitchOnPhase,
         PlanSame, PlanOther, PlanForward, PlanToNeutral, PlanFromNeutral,
         PlanEngagement, ReadFaultBits, FinishTick, OnGearRequest, OnVehicleInfo, outVars
    <3> QED  BY <3>1 DEF Near
  <2> QED  BY <2>1, <2>2
<1> QED  BY <1>1, <1>2, InitBatchInv, InterruptsAreHarmless, PTL DEF Spec, OneElementPerBatch
==============================================================================
