------------------------------- MODULE Handshake -------------------------------
(***************************************************************************)
(* The torque-cut handshake end to end: TcuBind and, over CAN, the VCU.    *)
(*                                                                         *)
(* The VCU is not in the repository; it is modelled as the DBC describes   *)
(* the frames it shares with the TCU (dbc/zf8hp-tcu.dbc:119, 141, 146): it *)
(* cuts the motor torque while the last TCU_ShiftStatus asks for it, and   *)
(* sends VCU_VehicleInfo cyclically, TorqueCutAck saying whether torque is *)
(* cut.  No frame is lost and the VCU reacts at once, so what goes wrong   *)
(* here goes wrong with a healthy VCU.                                     *)
(***************************************************************************)
EXTENDS TcuBind

CONSTANT VehicleInfoMs          \* cycle of VCU_VehicleInfo: 100 in the DBC

ASSUME VehicleInfoAssumption == VehicleInfoMs \in 1..MaxAge

VARIABLES torque_is_cut,        \* the VCU holds motor torque at zero
          vehicle_info_age      \* since the last VCU_VehicleInfo

handshakeVars == <<vars, torque_is_cut, vehicle_info_age>>

\* The VCU's cycle may stand anywhere when the TCU boots.
HandshakeInit ==
  /\ Init
  /\ torque_is_cut = FALSE
  /\ vehicle_info_age \in 0..(VehicleInfoMs - 1)

\* dt passes in both; the VCU obeys the ShiftStatus frame of this Tick, if any.
\* Time does not pass the point where VCU_VehicleInfo is due.
TimePasses(s, faults, dt) ==
  /\ vehicle_info_age + dt <= VehicleInfoMs
  /\ Tick(s, faults, dt)
  /\ torque_is_cut' = shift_status'.torque_cut_request
  /\ vehicle_info_age' = vehicle_info_age + dt

SendVehicleInfo ==
  /\ vehicle_info_age = VehicleInfoMs
  /\ OnVehicleInfo(torque_is_cut)
  /\ vehicle_info_age' = 0
  /\ UNCHANGED torque_is_cut

SendGearRequest(tg) ==
  /\ OnGearRequest(tg) \/ OnHoldRequest(tg)
  /\ UNCHANGED <<torque_is_cut, vehicle_info_age>>

HandshakeNext ==
  \/ \E s \in Readings, faults \in DriverFaults, dt \in Deltas : TimePasses(s, faults, dt)
  \/ SendVehicleInfo
  \/ \E tg \in GearRequests : SendGearRequest(tg)

\* Both main loops keep running.
HandshakeSpec ==
  /\ HandshakeInit
  /\ [][HandshakeNext]_handshakeVars
  /\ WF_handshakeVars(SendVehicleInfo)
  /\ WF_handshakeVars(\E s \in Readings, faults \in DriverFaults, dt \in Deltas \ {0} :
                        TimePasses(s, faults, dt))

-------------------------------------------------------------------------------
(* Properties                                                              *)

\* "VCU pulls engine/motor torque to ~zero, then asserts TorqueCutAck in
\* VCU_VehicleInfo. TCU sees ack, transitions to Overlap phase"
\* (dbc/zf8hp-tcu.dbc:141): clutches are swapped only once torque is cut.
OverlapMeansTorqueIsCut ==
  [][phase = "TorqueCut" /\ phase' = "Overlap" => torque_is_cut]_handshakeVars

\* Who is timed out: a VCU whose last VCU_VehicleInfo was so long ago that, with the
\* cycle of TCU_ShiftStatus, it could not have answered within the budget
\* (shift_logic.h:71).  Nothing in it says that the VCU is late by its own cycle.
TimeoutMeansSilence ==
  [][shift_fault # "TorqueCutTimeout" /\ shift_fault' = "TorqueCutTimeout"
       => torque_cut_ack_ms < vehicle_info_age' + kCadence20msMs]_handshakeVars

\* How long, at least, the cut has not been asked for.
NotAskedFor ==
  CASE phase = "PreFill"            -> torque_restore_ms + shift_elapsed
    [] phase = "Overlap"            -> IF Shift!OneSided THEN torque_restore_ms ELSE 0
    [] phase = "Complete"           -> shift_elapsed
    [] phase = "Idle"               -> torque_restore_ms
    [] OTHER                        -> 0

\* The VCU does what the last TCU_ShiftStatus says, and that is never old.
StatusIsObeyed ==
  /\ torque_is_cut \in BOOLEAN /\ vehicle_info_age \in 0..VehicleInfoMs
  /\ torque_is_cut = shift_status.torque_cut_request
  /\ torque_is_cut \/ phase # "Idle" => age["shift_status"] < kCadence20msMs

\* While a cut is waited for, it is held or the next TCU_ShiftStatus asks for it,
\* and if held it is acknowledged with the next VCU_VehicleInfo: both frames keep
\* their cycle, whatever their phase to the shift (shift_logic.cpp:101-112,
\* tcu_bind.cpp:248-262).
AckIsDue ==
  phase = "TorqueCut" =>
    /\ ~torque_is_cut => shift_elapsed <= age["shift_status"]
    /\ torque_is_cut /\ ~vcu_torque_cut_ack =>
         shift_elapsed < vehicle_info_age + kCadence20msMs

\* An acknowledgement outlives its request by one cycle of each frame at most.
AckIsWithdrawn ==
  shift_fault = "None" =>
    /\ torque_is_cut => NotAskedFor <= age["shift_status"]
    /\ ~torque_is_cut /\ vcu_torque_cut_ack =>
         NotAskedFor < vehicle_info_age + kCadence20msMs

\* The inductive invariant.
HandshakeInv ==
  /\ BindInv
  /\ StatusIsObeyed
  /\ AckIsDue
  /\ AckIsWithdrawn

\* With a healthy VCU a gear requested and not replaced is reached.  TorqueCutAck
\* "Mirrors TCU_ShiftStatus.TorqueCutRequest with one frame of latency"
\* (dbc/zf8hp-tcu.dbc:146) in a frame that is "100 ms cyclic" (119), and even "a
\* single missed handshake shouldn't disable the box" (shift_logic.cpp:106-107).
\* True of a VCU with a cycle of 20 ms, false of the documented one.
RequestReachesGear ==
  \A tg \in GearRequests :
    target = GearOf(tg) ~> (current = GearOf(tg) \/ target # GearOf(tg))
===============================================================================
