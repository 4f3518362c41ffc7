-------------------------------- MODULE TcuBind --------------------------------
(***************************************************************************)
(* The bind layer (firmware/tcu_bind): the per-millisecond orchestrator    *)
(* that runs ShiftLogic and ParkLock on what the VCU sent, writes the      *)
(* solenoid drivers every kSolenoidLoopMs, polls their fault registers,    *)
(* and publishes the status frames at their cadences.                      *)
(*                                                                         *)
(* The two state machines are instances of their own modules over this     *)
(* module's variables; Tick is their Ticks conjoined with what the bind    *)
(* layer does around them, in the order of the code.  The solenoid driver  *)
(* (firmware/solenoid_driver) and the CAN layer (firmware/can_codegen)     *)
(* appear as the bind layer uses them: which channels the last SPI batch   *)
(* enabled, and what the last frame of each kind said.                     *)
(*                                                                         *)
(* A definition commented "Variant" is a plausible mistake in the one that *)
(* follows it, used by the sensitivity runs only.                          *)
(***************************************************************************)
EXTENDS ClutchTable

CONSTANTS pre_fill_ms, torque_cut_ack_ms, overlap_ms, torque_restore_ms,
          pre_fill_pct,                              \* ShiftCalibration
          engage_pulse_ms, disengage_pulse_ms,
          engage_budget_ms, disengage_budget_ms,     \* ParkCalibration
          kSolenoidLoopMs, kFaultPollMs, kCadence20msMs, kCadence100msMs,
          kVcuStaleThresholdMs,
          MaxAge,           \* where every age saturates
          Deltas,           \* times that may pass between two Ticks
          ShiftCountRange,  \* shift_count_ is a uint8_t: 256
          GearRequests,     \* values of VCU_GearRequest.TargetGear
          Readings,         \* what read_park_sensors may return
          DriverFaults      \* what the fault registers of the chips may say

VARIABLES current, target, next_step, phase, shift_fault, shift_elapsed,
          torque_cut_ack,                            \* shift_
          park_state, park_fault, request_engaged, park_elapsed,
          park_lock_engaged, reading, driven,        \* park_
          vcu_torque_cut_ack,      \* can_: latched VCU_VehicleInfo.TorqueCutAck
          vcu_request_ever_seen,
          vcu_request_age,         \* age of the last VCU_GearRequest
          vcu_stale,
          fault_bits,              \* a set of FaultBit
          shift_count,
          last_completed_gear,
          age,                     \* of the last emission of each loop
          channels,                \* solenoids the last SPI batch enabled
          status1, shift_status, status2   \* the frames last sent

Shift == INSTANCE ShiftLogic
           WITH fault <- shift_fault, elapsed <- shift_elapsed, Requests <- Gears

Park == INSTANCE ParkLock
          WITH state <- park_state, fault <- park_fault, elapsed <- park_elapsed

shiftVars == <<current, target, next_step, phase, shift_fault, shift_elapsed,
               torque_cut_ack>>

parkVars == <<park_state, park_fault, request_engaged, park_elapsed,
              park_lock_engaged, reading, driven>>

vcuVars == <<vcu_torque_cut_ack, vcu_request_ever_seen, vcu_request_age, vcu_stale>>

outVars == <<shift_count, last_completed_gear, age, channels,
             status1, shift_status, status2>>

vars == <<shiftVars, parkVars, vcuVars, fault_bits, outVars>>

\* What runs on a cadence of its own, and the cadence.
Cadence == [solenoid_loop |-> kSolenoidLoopMs,
            fault_poll    |-> kFaultPollMs,
            status1       |-> kCadence20msMs,
            shift_status  |-> kCadence20msMs,
            status2       |-> kCadence100msMs]

Loops == DOMAIN Cadence

ASSUME BindAssumption ==
  /\ {pre_fill_ms, torque_cut_ack_ms, overlap_ms, torque_restore_ms,
      engage_pulse_ms, disengage_pulse_ms, engage_budget_ms, disengage_budget_ms}
        \subseteq 0..MaxAge
  /\ pre_fill_pct \in 0..100
  /\ \A l \in Loops : Cadence[l] \in 1..MaxAge
  /\ MaxAge \in Nat
  /\ kVcuStaleThresholdMs \in 0..(MaxAge - 1)
  /\ Deltas \subseteq Nat
  /\ ShiftCountRange \in Nat \ {0}
  /\ GearRequests \subseteq 0..15        \* a 4-bit signal

DriverFault == {"SOL_OPEN_LOAD", "SOL_SHORT_TO_SUPPLY", "SOL_OVER_CURRENT"}

\* The bits any statement sets; the other bits of the layout are never used.
FaultBit == DriverFault \cup {"CAN_STALE", "PARK_SENSOR"}

ASSUME InputAssumption ==
  /\ Readings \subseteq [pos1 : BOOLEAN, pos2 : BOOLEAN, moving : BOOLEAN]
  /\ DriverFaults \subseteq SUBSET DriverFault

\* The cadence trackers start as "never": due on the first call.
Init ==
  /\ Shift!Init
  /\ Park!Init
  /\ vcu_torque_cut_ack = FALSE
  /\ vcu_request_ever_seen = FALSE /\ vcu_request_age = 0 /\ vcu_stale = FALSE
  /\ fault_bits = {}
  /\ shift_count = 0
  /\ last_completed_gear = Neutral
  /\ age = [l \in Loops |-> MaxAge]
  /\ channels = {}
  /\ status1 = [current_gear |-> Neutral, shift_in_progress |-> FALSE,
                tcu_ready |-> FALSE, any_fault |-> FALSE, park_lock |-> FALSE]
  /\ shift_status = [shift_phase |-> "Idle", torque_cut_request |-> FALSE,
                     shift_fault_code |-> "None"]
  /\ status2 = [fault_bits |-> {}, shift_count |-> 0]

-------------------------------------------------------------------------------
(* OnCanRx                                                                 *)

\* VCU_GearRequest.TargetGear
P == 0
R == 1
N == 2
D == 3
Manual == 5..12

\* The gear a TargetGear stands for; S, Limp and Invalid stand for none.
GearOf(tg) ==
  IF tg \in {P, N} THEN Neutral
  ELSE IF tg = R THEN Reverse
  ELSE IF tg = D THEN 1
  ELSE tg - 4

SeeVcu ==
  /\ vcu_request_age' = 0
  /\ vcu_request_ever_seen' = TRUE
  /\ vcu_stale' = FALSE
  /\ fault_bits' = fault_bits \ {"CAN_STALE"}
  /\ UNCHANGED <<vcu_torque_cut_ack, outVars>>

OnGearRequest(tg) ==
  /\ tg \in {P, R, N, D} \cup Manual
  /\ Shift!RequestGear(GearOf(tg))
  /\ Park!RequestEngaged(tg = P)
  /\ SeeVcu

OnHoldRequest(tg) ==
  /\ tg \notin {P, R, N, D} \cup Manual
  /\ SeeVcu
  /\ UNCHANGED <<shiftVars, parkVars>>

OnVehicleInfo(ack) ==
  /\ vcu_torque_cut_ack' = ack
  /\ UNCHANGED <<shiftVars, parkVars, vcu_request_ever_seen, vcu_request_age,
                 vcu_stale, fault_bits, outVars>>

-------------------------------------------------------------------------------
(* Solenoids                                                               *)

SolenoidId == [A |-> 0, B |-> 1, C |-> 2, D |-> 3, E |-> 4,
               Tcc |-> 5, LinePressure |-> 6, ParkHold |-> 7, ParkRelease |-> 8]

\* The set of bits of 1u << id that are left in a uint8_t.
SolenoidBit(s) == {SolenoidId[s]} \cap 0..7

\* engagement_mask, from the commands of this Tick.
EngagementMask ==
  UNION {SolenoidBit(s) :
           s \in Shift!Energised
                 \cup (IF Park!HoldEnergise THEN {"ParkHold"} ELSE {})
                 \cup (IF Park!ReleaseEnergise THEN {"ParkRelease"} ELSE {})}

\* The channels BuildFramesForChipMask enables, over both chips.
Enabled(mask) == {s \in DOMAIN SolenoidId : SolenoidId[s] \in mask}

-------------------------------------------------------------------------------
(* Tick                                                                    *)

Later(a, dt) == IF a + dt > MaxAge THEN MaxAge ELSE a + dt

Due(l, dt) == Later(age[l], dt) >= Cadence[l]

\* The VCU has been heard of, but not for too long.
StaleNow(dt) ==
  vcu_request_ever_seen /\ Later(vcu_request_age, dt) > kVcuStaleThresholdMs

CheckStale(dt) ==
  /\ vcu_request_age' = Later(vcu_request_age, dt)
  /\ vcu_stale' = (vcu_stale \/ StaleNow(dt))
  /\ UNCHANGED vcu_request_ever_seen

\* last_completed_gear follows current at every return to Idle.
CountShift ==
  IF phase' = "Idle" /\ current' # last_completed_gear
  THEN /\ shift_count' = (shift_count + 1) % ShiftCountRange
       /\ last_completed_gear' = current'
  ELSE UNCHANGED <<shift_count, last_completed_gear>>

\* Variant: frames are only written for the channels to be switched on.
EmitOnlyEnables(dt) ==
  channels' = IF Due("solenoid_loop", dt)
              THEN channels \cup Enabled(EngagementMask') ELSE channels

\* Variant: the solenoids are written before the state machines have run.
EmitBeforeTicks(dt) ==
  channels' = IF Due("solenoid_loop", dt) THEN Enabled(EngagementMask) ELSE channels

EmitSolenoids(dt) ==
  channels' = IF Due("solenoid_loop", dt) THEN Enabled(EngagementMask') ELSE channels

\* Variant: the poll starts from a clean slate.
PollMaxFaultsFromZero(bits, faults, dt) ==
  IF Due("fault_poll", dt) THEN faults ELSE bits

\* The solenoid bits are those of the last poll, the others stay.
PollMaxFaults(bits, faults, dt) ==
  IF Due("fault_poll", dt) THEN (bits \ DriverFault) \cup faults ELSE bits

\* fault_bits_ once the stale check and the park tick have updated it.
BitsAfterPark(dt) ==
  (fault_bits \ {"PARK_SENSOR"})
    \cup (IF StaleNow(dt) THEN {"CAN_STALE"} ELSE {})
    \cup (IF park_fault' = "SensorImpossibleReading" THEN {"PARK_SENSOR"} ELSE {})

EmitStatus1(dt) ==
  status1' = IF Due("status1", dt)
             THEN [current_gear      |-> current',
                   shift_in_progress |-> Shift!ShiftActive',
                   tcu_ready         |-> ~vcu_stale',
                   any_fault         |-> fault_bits' # {},
                   park_lock         |-> park_lock_engaged']
             ELSE status1

\* Variant: ShiftStatus goes out with the slow frames.
EmitShiftStatusSlowly(dt) ==
  shift_status' = IF Due("status2", dt)
                  THEN [shift_phase        |-> phase',
                        torque_cut_request |-> Shift!TorqueCutRequest',
                        shift_fault_code   |-> shift_fault']
                  ELSE shift_status

EmitShiftStatus(dt) ==
  shift_status' = IF Due("shift_status", dt)
                  THEN [shift_phase        |-> phase',
                        torque_cut_request |-> Shift!TorqueCutRequest',
                        shift_fault_code   |-> shift_fault']
                  ELSE shift_status

\* Variant: Status2 is packed before the fault poll.
EmitStatus2BeforePoll(dt) ==
  status2' = IF Due("status2", dt)
             THEN [fault_bits |-> BitsAfterPark(dt), shift_count |-> shift_count']
             ELSE status2

EmitStatus2(dt) ==
  status2' = IF Due("status2", dt)
             THEN [fault_bits |-> fault_bits', shift_count |-> shift_count']
             ELSE status2

\* Tick(now_ms), dt after the previous one: s is what read_park_sensors returns,
\* faults what the fault registers hold if they are polled.
Tick(s, faults, dt) ==
  /\ CheckStale(dt)
  /\ Shift!TickWith(vcu_torque_cut_ack, dt)
  /\ Park!Tick(s, dt)
  /\ CountShift
  /\ EmitSolenoids(dt)
  /\ fault_bits' = PollMaxFaults(BitsAfterPark(dt), faults, dt)
  /\ EmitStatus1(dt)
  /\ EmitShiftStatus(dt)
  /\ EmitStatus2(dt)
  /\ age' = [l \in Loops |-> IF Due(l, dt) THEN 0 ELSE Later(age[l], dt)]
  /\ UNCHANGED vcu_torque_cut_ack

Next ==
  \/ \E tg \in GearRequests : OnGearRequest(tg) \/ OnHoldRequest(tg)
  \/ \E ack \in BOOLEAN : OnVehicleInfo(ack)
  \/ \E s \in Readings, faults \in DriverFaults, dt \in Deltas : Tick(s, faults, dt)

Spec == Init /\ [][Next]_vars

\* The main loop keeps calling Tick and the clock keeps running.
Running == \E s \in Readings, faults \in DriverFaults, dt \in Deltas \ {0} :
             Tick(s, faults, dt)

FairSpec == Spec /\ WF_vars(Running)

-------------------------------------------------------------------------------
(* Properties                                                              *)

TypeOK ==
  /\ Shift!TypeOK
  /\ Park!TypeOK
  /\ vcuVars \in BOOLEAN \X BOOLEAN \X (0..MaxAge) \X BOOLEAN
  /\ fault_bits \subseteq FaultBit
  /\ shift_count \in 0..(ShiftCountRange - 1)
  /\ last_completed_gear \in Gears
  /\ age \in [Loops -> 0..MaxAge]
  /\ channels \subseteq DOMAIN SolenoidId

\* FaultBits[CanStale] is set exactly while the VCU counts as silent, although
\* three places rewrite fault_bits_ (tcu_bind.cpp:87-88, 102-103, 145-149, 212-214).
StaleBitAgrees == "CAN_STALE" \in fault_bits <=> vcu_stale

\* Every completed step is counted, once: the count is behind the gear exactly
\* while the step restores torque (tcu_bind.cpp:151-156).
CountedOnce == last_completed_gear = current <=> phase # "Complete"

\* A park position sensor that reads impossibly is on the bus as long as it does.
DeadSensorIsFlagged ==
  park_state # "Init" /\ reading.pos1 = reading.pos2 => "PARK_SENSOR" \in fault_bits

\* Safety goal of T003 as the hardware sees it: between two SPI batches the
\* enabled clutches are those of one gear, or of two neighbouring forward gears
\* (HARA_REPORT.txt:46).
EnabledSetIsLegal ==
  \E a, b \in Gears :
    /\ a = b \/ (a \in Forward /\ b \in Forward /\ a = b + 1)
    /\ channels \cap Elements = ClutchesFor(a) \cup ClutchesFor(b)

\* The inductive invariant, with those of the two machines.
BindInv ==
  /\ TypeOK
  /\ Shift!IInv
  /\ Park!ParkInv
  /\ StaleBitAgrees
  /\ CountedOnce
  /\ DeadSensorIsFlagged
  /\ EnabledSetIsLegal

\* ParkLock's own promises (stated in ParkLock), for the machine as it is run here:
\* its solenoids are on only under a reading that allows it ...
ParkInv == Park!ParkInv

\* ... and less than one pulse without a break (park_lock.cpp:95-116, 139-160) ...
PulseIsBounded == Park!PulseIsBounded

\* ... and a pawl that stays stuck is reported again and again (park_lock.h:68-69) ...
StuckPawlIsReported == Park!StuckPawlIsReported

\* ... and driven again and again (park_lock.cpp:95-97, 139-141).
StuckPawlIsRetried == Park!StuckPawlIsRetried

\* A solenoid fault read by a poll is in the Status2 frame of the same Tick: the
\* 100 ms from fault to bus (HARA_REPORT.txt:93) leave no second poll period.
PolledFaultsArePublished ==
  [][age'["fault_poll"] = 0 /\ age["fault_poll"] # 0 =>
       status2'.fault_bits = fault_bits']_vars

\* ParkHold is only switched on over SPI in a Tick that has read a standing
\* vehicle and a raised pawl (park_lock.h:43-45, HARA_REPORT.txt:20).
HoldIsSwitchedOnSafely ==
  [][("ParkHold" \in channels' \ channels) =>
       ~reading'.moving /\ reading'.pos2 /\ ~reading'.pos1]_vars

\* A silent VCU becomes visible on the bus, unless it is heard again.
StaleIsPublished ==
  vcu_stale ~> (~vcu_stale \/ "CAN_STALE" \in status2.fault_bits)

\* When the gear stays, the solenoids come to hold it.
EnabledFollowsGear ==
  \A tg \in GearRequests :
    <>[](phase = "Idle" /\ current = GearOf(tg))
      => <>[](channels \cap Elements = ClutchesFor(GearOf(tg)))

\* park_lock.h:39-40: "release requires actively energising the Release
\* solenoid".  Whenever a batch is written in a Tick in which ParkLock commands
\* the release, the Release solenoid would then be enabled.
ReleaseIsEnergised ==
  [][age'["solenoid_loop"] = 0 /\ age["solenoid_loop"] # 0 /\ Park!ReleaseEnergise' =>
       "ParkRelease" \in channels']_vars
===============================================================================
