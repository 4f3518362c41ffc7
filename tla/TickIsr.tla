---------------------------------- MODULE TickIsr ----------------------------------
(***************************************************************************)
(* TcuBind::Tick with OnCanRx as the interrupt that tcu_bind.h:97 says it  *)
(* may be: it strikes between any two accesses of Tick to what the two     *)
(* share, which are target_ of ShiftLogic, the latched acknowledgement,    *)
(* vcu_stale_, last_vcu_request_ms_ and fault_bits_.  None of them is      *)
(* volatile or guarded, so where the code reads one twice the two reads    *)
(* may differ, and a read-modify-write may write back what was overtaken.  *)
(*                                                                         *)
(* Tick is cut at those accesses; what lies between two of them is one     *)
(* step.  ParkLock and the status frames, which share nothing else with    *)
(* the interrupt that a property here is about, are left to TcuBind; of    *)
(* their part in Tick, the rewriting of fault_bits_ remains.               *)
(*                                                                         *)
(* A definition commented "Variant" is a plausible mistake in the one that *)
(* follows it, used by the sensitivity runs only.                          *)
(***************************************************************************)
EXTENDS ClutchTable

CONSTANTS pre_fill_ms, torque_cut_ack_ms, overlap_ms, torque_restore_ms,
          pre_fill_pct,           \* ShiftCalibration
          kSolenoidLoopMs, kVcuStaleThresholdMs,
          MaxAge,                 \* where every age saturates
          Deltas,                 \* times that may pass between two Ticks
          ShiftCountRange,        \* shift_count_ is a uint8_t: 256
          Requests                \* gears OnCanRx may request

VARIABLES current, target, next_step, phase, fault, elapsed, torque_cut_ack,  \* shift_
          vcu_torque_cut_ack, vcu_request_ever_seen, vcu_request_age, vcu_stale,
          fault_bits,             \* of which only CAN_STALE matters here
          shift_count, last_completed_gear,
          channels,               \* elements the last SPI batch enabled
          loop_age,               \* since the last SPI batch
          pc,                     \* the access Tick comes to next
          now,                    \* locals of Tick: time since the last Tick,
          t,                      \*   target_ as last read, as a singleton,
          bits                    \*   fault_bits_ as last read

Shift == INSTANCE ShiftLogic

shiftVars == <<current, target, next_step, phase, fault, elapsed, torque_cut_ack>>
vcuVars   == <<vcu_torque_cut_ack, vcu_request_ever_seen, vcu_request_age, vcu_stale,
               fault_bits>>
outVars   == <<shift_count, last_completed_gear, channels, loop_age>>
locals    == <<pc, now, t, bits>>

vars == <<shiftVars, vcuVars, outVars, locals>>

ASSUME IsrAssumption ==
  /\ {pre_fill_ms, torque_cut_ack_ms, overlap_ms, torque_restore_ms} \subseteq 0..MaxAge
  /\ MaxAge \in Nat /\ Deltas \subseteq Nat
  /\ kSolenoidLoopMs \in 1..MaxAge
  /\ kVcuStaleThresholdMs \in 0..(MaxAge - 1)
  /\ ShiftCountRange \in Nat \ {0}
  /\ Requests \subseteq Gears

Init ==
  /\ Shift!Init
  /\ vcu_torque_cut_ack = FALSE
  /\ vcu_request_ever_seen = FALSE /\ vcu_request_age = 0 /\ vcu_stale = FALSE
  /\ fault_bits = {}
  /\ shift_count = 0 /\ last_completed_gear = Neutral
  /\ channels = {} /\ loop_age = MaxAge
  /\ pc = "ready" /\ now = 0 /\ t = {} /\ bits = {}

-------------------------------------------------------------------------------
(* OnCanRx, at any moment                                                  *)

OnGearRequest(g) ==
  /\ Shift!RequestGear(g)
  /\ vcu_request_age' = 0
  /\ vcu_request_ever_seen' = TRUE
  /\ vcu_stale' = FALSE
  /\ fault_bits' = {}
  /\ UNCHANGED <<vcu_torque_cut_ack, outVars, locals>>

OnVehicleInfo(ack) ==
  /\ vcu_torque_cut_ack' = ack
  /\ UNCHANGED <<shiftVars, vcu_request_ever_seen, vcu_request_age, vcu_stale,
                 fault_bits, outVars, locals>>

-------------------------------------------------------------------------------
(* Tick                                                                    *)

Later(a, dt) == IF a + dt > MaxAge THEN MaxAge ELSE a + dt

At(here, next) == pc = here /\ pc' = next

\* The stale check is made.
BeginTick(dt) ==
  /\ LET late == vcu_request_ever_seen
                   /\ Later(vcu_request_age, dt) > kVcuStaleThresholdMs
     IN  At("ready", IF late THEN "mark_stale" ELSE "plumb_ack")
  /\ vcu_request_age' = Later(vcu_request_age, dt)
  /\ loop_age' = Later(loop_age, dt)
  /\ now' = dt
  /\ UNCHANGED <<shiftVars, vcu_torque_cut_ack, vcu_request_ever_seen, vcu_stale,
                 fault_bits, shift_count, last_completed_gear, channels, t, bits>>

\* vcu_stale_ = true, and fault_bits_ is read for the |= that follows.
MarkStale ==
  /\ At("mark_stale", "set_bit")
  /\ vcu_stale' = TRUE
  /\ bits' = fault_bits
  /\ UNCHANGED <<shiftVars, vcu_torque_cut_ack, vcu_request_ever_seen,
                 vcu_request_age, fault_bits, outVars, now, t>>

SetStaleBit ==
  /\ At("set_bit", "plumb_ack")
  /\ fault_bits' = bits \cup {"CAN_STALE"}
  /\ bits' = {}
  /\ UNCHANGED <<shiftVars, vcu_torque_cut_ack, vcu_request_ever_seen,
                 vcu_request_age, vcu_stale, outVars, now, t>>

PlumbAck ==
  /\ At("plumb_ack", "read_target")
  /\ Shift!SetTorqueCutAck(vcu_torque_cut_ack)
  /\ UNCHANGED <<vcuVars, outVars, now, t, bits>>

\* Three reads of target_ decide whether it is valid: one for the range of the
\* forward gears, one for each of the two others.
ReadTarget ==
  /\ At("read_target", "compare_with_Neutral")
  /\ t' = {target}
  /\ UNCHANGED <<shiftVars, vcuVars, outVars, now, bits>>

CompareWithNeutral ==
  /\ At("compare_with_Neutral",
        IF target = Neutral THEN "switch" ELSE "compare_with_Reverse")
  /\ UNCHANGED <<shiftVars, vcuVars, outVars, now, t, bits>>

AcceptTarget ==
  /\ At("compare_with_Reverse", "switch")
  /\ target = Reverse \/ t \subseteq Forward
  /\ UNCHANGED <<shiftVars, vcuVars, outVars, now, t, bits>>

RejectTarget ==
  /\ At("compare_with_Reverse", "after_switch")
  /\ ~(target = Reverse \/ t \subseteq Forward)
  /\ fault' = "InvalidTargetGear"
  /\ target' = current
  /\ Shift!EnterPhase("Idle", torque_cut_ack)
  /\ t' = {}
  /\ UNCHANGED <<current, next_step, vcuVars, outVars, now, bits>>

\* In Idle, target_ is compared once more before PlanNextStep is called.
DecideToStep ==
  /\ At("switch", "plan")
  /\ phase = "Idle" /\ current # target /\ fault = "None"
  /\ t' = {}
  /\ UNCHANGED <<shiftVars, vcuVars, outVars, now, bits>>

\* All other alternatives of the switch look at target_ no more.
SwitchOnPhase ==
  /\ At("switch", "after_switch")
  /\ \/ Shift!RestInGear(torque_cut_ack, now)
     \/ Shift!EndPreFill(torque_cut_ack, now)
     \/ Shift!TorqueIsCut(torque_cut_ack)
     \/ Shift!TimeOutTorqueCut(torque_cut_ack, now)
     \/ Shift!EndOverlap(torque_cut_ack, now)
     \/ Shift!EndComplete(torque_cut_ack, now)
     \/ Shift!Wait(torque_cut_ack, now)
  /\ t' = {}
  /\ UNCHANGED <<vcuVars, outVars, now, bits>>

\* Variant: the phases are entered as if target_ had been planned for.
CommitToTarget(g) ==
  /\ next_step' = target
  /\ Shift!EnterPhase(IF Neutral \in {current, next_step'} THEN "Overlap"
                                                           ELSE "PreFill", torque_cut_ack)
  /\ UNCHANGED <<current, target, fault>>

\* What PlanNextStep returns, and the phase that begins.
Commit(g) ==
  /\ next_step' = g
  /\ Shift!EnterPhase(IF Neutral \in {current, next_step'} THEN "Overlap"
                                                           ELSE "PreFill", torque_cut_ack)
  /\ UNCHANGED <<current, target, fault>>

\* PlanNextStep reads target_ three more times.
PlanSame ==
  /\ At("plan", "after_switch")
  /\ current = target
  /\ Commit(current)
  /\ UNCHANGED <<vcuVars, outVars, now, t, bits>>

PlanOther ==
  /\ At("plan", "plan_tgt")
  /\ current # target
  /\ UNCHANGED <<shiftVars, vcuVars, outVars, now, t, bits>>

PlanForward ==
  /\ At("plan_tgt", "after_switch")
  /\ current \in Forward /\ target \in Forward
  /\ Commit(IF target > current THEN current + 1 ELSE current - 1)
  /\ UNCHANGED <<vcuVars, outVars, now, t, bits>>

PlanToNeutral ==
  /\ At("plan_tgt", "after_switch")
  /\ current # Neutral /\ ~(current \in Forward /\ target \in Forward)
  /\ Commit(Neutral)
  /\ UNCHANGED <<vcuVars, outVars, now, t, bits>>

PlanFromNeutral ==
  /\ At("plan_tgt", "plan_from_Neutral")
  /\ current = Neutral
  /\ t' = {target}
  /\ UNCHANGED <<shiftVars, vcuVars, outVars, now, bits>>

PlanEngagement ==
  /\ At("plan_from_Neutral", "after_switch")
  /\ Commit(IF target = Reverse THEN Reverse
            ELSE IF t \subseteq Forward THEN 1 ELSE Neutral)
  /\ t' = {}
  /\ UNCHANGED <<vcuVars, outVars, now, bits>>

\* The bit of the park sensor, and later those of the solenoids, are rewritten:
\* fault_bits_ is read ...
ReadFaultBits(here, next) ==
  /\ At(here, next)
  /\ bits' = fault_bits
  /\ UNCHANGED <<shiftVars, vcuVars, outVars, now, t>>

\* ... and written back.
WriteFaultBits ==
  /\ fault_bits' = bits
  /\ bits' = {}
  /\ UNCHANGED <<shiftVars, vcu_torque_cut_ack, vcu_request_ever_seen,
                 vcu_request_age, vcu_stale, t>>

CountShift ==
  IF phase = "Idle" /\ current # last_completed_gear
  THEN /\ shift_count' = (shift_count + 1) % ShiftCountRange
       /\ last_completed_gear' = current
  ELSE UNCHANGED <<shift_count, last_completed_gear>>

\* Variant: the batch is made up of the elements held, not of those ramping.
EmitEngagedOnly ==
  IF loop_age >= kSolenoidLoopMs
  THEN channels' = Shift!EngagedSet /\ loop_age' = 0
  ELSE UNCHANGED <<channels, loop_age>>

EmitSolenoids ==
  IF loop_age >= kSolenoidLoopMs
  THEN channels' = Shift!Energised /\ loop_age' = 0
  ELSE UNCHANGED <<channels, loop_age>>

FinishPark ==
  /\ At("write_park_bit", "read_for_poll")
  /\ WriteFaultBits
  /\ CountShift
  /\ EmitSolenoids
  /\ UNCHANGED now

FinishTick ==
  /\ At("write_polled_bits", "ready")
  /\ WriteFaultBits
  /\ now' = 0
  /\ UNCHANGED outVars

InTick ==
  \/ MarkStale \/ SetStaleBit \/ PlumbAck
  \/ ReadTarget \/ CompareWithNeutral \/ AcceptTarget \/ RejectTarget
  \/ DecideToStep \/ SwitchOnPhase
  \/ PlanSame \/ PlanOther \/ PlanForward \/ PlanToNeutral
  \/ PlanFromNeutral \/ PlanEngagement
  \/ ReadFaultBits("after_switch", "write_park_bit") \/ FinishPark
  \/ ReadFaultBits("read_for_poll", "write_polled_bits") \/ FinishTick

Next ==
  \/ \E dt \in Deltas : BeginTick(dt)
  \/ InTick
  \/ \E g \in Requests : OnGearRequest(g)
  \/ \E ack \in BOOLEAN : OnVehicleInfo(ack)

Spec == Init /\ [][Next]_vars

\* A Tick once begun is finished, and the main loop goes on with a running clock:
\* the fairness is strong because no Tick begins within another.
FairSpec == Spec /\ WF_vars(InTick) /\ SF_vars(\E dt \in Deltas \ {0} : BeginTick(dt))

-------------------------------------------------------------------------------
(* Properties: what survives the interrupts                                *)

Planning == {"plan", "plan_tgt", "plan_from_Neutral"}
Writing  == {"write_park_bit", "write_polled_bits"}

Access ==
  Planning \cup Writing
    \cup {"ready", "mark_stale", "set_bit", "plumb_ack", "read_target",
          "compare_with_Neutral", "compare_with_Reverse", "switch", "after_switch",
          "read_for_poll"}

TypeOK ==
  /\ Shift!TypeOK
  /\ {vcu_torque_cut_ack, vcu_request_ever_seen, vcu_stale} \subseteq BOOLEAN
  /\ {vcu_request_age, loop_age} \subseteq 0..MaxAge
  /\ fault_bits \subseteq {"CAN_STALE"}
  /\ shift_count \in 0..(ShiftCountRange - 1)
  /\ last_completed_gear \in Gears
  /\ channels \subseteq Elements
  /\ pc \in Access
  /\ now \in Deltas \cup {0}
  /\ t \subseteq Gears
  /\ bits \subseteq {"CAN_STALE"}

\* A step under way is still an edge of the gear graph, or leads nowhere at all;
\* which of the two, and whether anyone wanted it, depends on the interrupts
\* (shift_logic.cpp:31-53, 79-80).
StepIsHarmless ==
  Shift!InStep => next_step = current \/ Shift!Adjacent(current, next_step)

\* Why: what PlanNextStep found out about current, no interrupt can change.
PlansFromRest ==
  /\ pc \in Planning => phase = "Idle"
  /\ pc = "plan_from_Neutral" => current = Neutral

\* A silent VCU may go on being reported when it is heard again, until its next
\* frame, but silence once noticed is never hidden: while vcu_stale_ is set, so is
\* the bit, or this Tick is about to set it (tcu_bind.cpp:87-88, 102-103, 145-149,
\* 212-214).  What a write-back of fault_bits_ loses is only ever the withdrawal.
SilenceIsNotHidden ==
  vcu_stale => /\ fault_bits # {} \/ pc = "set_bit"
               /\ pc \in Writing => bits # {}

\* The enabled elements are those of one gear or of two neighbours.
EnabledSetIsLegal ==
  \E a, b \in Gears :
    /\ a = b \/ (a \in Forward /\ b \in Forward /\ a = b + 1)
    /\ channels = ClutchesFor(a) \cup ClutchesFor(b)

\* A completed step is counted in the Tick that finds the box Idle again; only one
\* that led nowhere is not, which TcuBind's CountedOnce rules out without the
\* interrupts (tcu_bind.cpp:151-156).
NoStepUncounted ==
  /\ phase = "Idle" /\ pc \notin {"after_switch", "write_park_bit"}
        => last_completed_gear = current
  /\ phase \notin {"Idle", "Complete"} => last_completed_gear = current

\* The inductive invariant.
IsrInv ==
  /\ TypeOK
  /\ StepIsHarmless
  /\ PlansFromRest
  /\ SilenceIsNotHidden
  /\ EnabledSetIsLegal
  /\ NoStepUncounted

\* No two elements switch between two batches but through all off, even when the
\* target changes in the middle of planning (HARA_REPORT.txt:46).
OneElementPerBatch ==
  [][\/ channels = {} \/ channels' = {}
     \/ \A x, y \in (channels \ channels') \cup (channels' \ channels) : x = y]_vars

\* A request is served however the interrupts fall, unless it is replaced, or a
\* fault recorded: none is lost without one (shift_logic.cpp:73, 108).
RequestIsServed ==
  \A g \in Requests : (target = g) ~> (current = g \/ target # g \/ fault # "None")

\* shift_logic.h:56 on InvalidTargetGear: "request went to a gear we can't reach".
\* OnCanRx requests none such, and the fault would then not be recorded.
InvalidMeansUnreachable == fault # "InvalidTargetGear"
====================================================================================
