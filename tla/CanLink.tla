--------------------------------- MODULE CanLink ---------------------------------
(***************************************************************************)
(* The CAN layer (firmware/can_codegen/Can_ZF8HP): two objects of the one  *)
(* class, the VCU's and the TCU's.  Each fills structs through its setters,*)
(* packs them into frames when its main loop asks for one, and latches the *)
(* frames of the other.  Of the members, each side uses the half that its  *)
(* messages need: tx[m] and the counters are those of the sender of m,     *)
(* latched[m], decodes[m] and frame_seen[m] those of its receiver.         *)
(*                                                                         *)
(* The bus keeps the order of the frames of one message, may lose a frame, *)
(* deliver it twice (a receive buffer read again) or deliver it short.     *)
(*                                                                         *)
(* A definition commented "Variant" is a plausible mistake in the one that *)
(* follows it, used by the sensitivity runs only.                          *)
(***************************************************************************)
EXTENDS TcuCodec, Sequences

CONSTANTS DecodeRange,    \* statistics are uint16_t: 65536
          MaxSettings,    \* bound: calls of setters in a behaviour
          MaxUnderway,    \* bound: frames on the bus at a time
          MaxSkipped,     \* bound: frames lost or cut short in a row
          Arguments       \* what each setter may be called with

VARIABLES active,         \* the message this behaviour is about
          tx,             \* the structs PackTx packs
          counter,        \* cnt520 and cnt521
          underway,       \* the frames on the bus, oldest first
          latched,        \* the structs DecodeRx unpacks into
          decodes, frame_seen, decode_errors,
          settings,       \* how many calls of setters there have been
          skipped,        \* frames the receiver missed since the latched one
          heard           \* some frame has been delivered

vars == <<active, tx, counter, underway, latched, decodes, frame_seen,
          decode_errors, settings, skipped, heard>>

\* The messages are of the same shape and share no member but decodeErrors, so
\* a behaviour exchanges one of them, active.

\* What Arguments is indexed by.
Setters == {"SetTargetGear", "SetDriveMode", "SetAccelPedal", "SetTorqueRequest",
            "SetVehicleSpeed", "SetBrakePressed", "SetVcuReady", "SetActualTorque",
            "SetMotorRpm", "SetTorqueCutAck", "SetStatus1Telemetry",
            "SetStatus1Sensors", "SetStatus2Telemetry", "SetShiftStatusTelemetry",
            "SetPumpStatusTelemetry"}

ASSUME BoundAssumption ==
  /\ {DecodeRange, MaxUnderway} \subseteq Nat \ {0}
  /\ {MaxSettings, MaxSkipped} \subseteq Nat

\* What the parameters of the setters can hold; floats are in hundredths.
ASSUME InputAssumption ==
  /\ DOMAIN Arguments = Setters
  /\ Arguments["SetTargetGear"] \cup Arguments["SetDriveMode"] \subseteq uint8_t
  /\ Arguments["SetAccelPedal"] \cup Arguments["SetVehicleSpeed"] \subseteq Int
  /\ Arguments["SetTorqueRequest"] \cup Arguments["SetActualTorque"]
       \cup Arguments["SetMotorRpm"] \subseteq int16_t
  /\ Arguments["SetBrakePressed"] \cup Arguments["SetVcuReady"]
       \cup Arguments["SetTorqueCutAck"] \subseteq 0..1
  /\ \A t \in Arguments["SetStatus1Telemetry"] \cup Arguments["SetStatus1Sensors"] :
       Fits("TCU_Status1", t)
  /\ \A t \in Arguments["SetStatus2Telemetry"]     : Fits("TCU_Status2", t)
  /\ \A t \in Arguments["SetShiftStatusTelemetry"] : Fits("TCU_ShiftStatus", t)
  /\ \A t \in Arguments["SetPumpStatusTelemetry"]  : Fits("TCU_PumpStatus", t)

\* The counter of a message that has one.
Counters == [VCU_GearRequest |-> "counter520", VCU_VehicleInfo |-> "counter521"]

CounterRange == 16        \* & 0x0F

Init ==
  /\ active \in Messages
  /\ tx = [m \in Messages |-> Zeroed(m)]      \* P, Comfort and not ready are all 0
  /\ counter = [m \in VcuMessages |-> 0]
  /\ underway = <<>>
  /\ latched = [m \in Messages |-> Zeroed(m)]
  /\ decodes = [m \in Messages \ VcuMessages |-> 0]
  /\ frame_seen = [m \in {"TCU_ShiftStatus", "TCU_PumpStatus"} |-> FALSE]
  /\ decode_errors = 0
  /\ settings = 0
  /\ skipped = 0
  /\ heard = FALSE

-------------------------------------------------------------------------------
(* Setters                                                                 *)

\* Assign the members of m that r names.
Set(m, r) ==
  /\ active = m
  /\ settings < MaxSettings
  /\ settings' = settings + 1
  /\ tx' = [tx EXCEPT ![m] = [s \in DOMAIN @ |-> IF s \in DOMAIN r THEN r[s] ELSE @[s]]]
  /\ UNCHANGED <<active, counter, underway, latched, decodes, frame_seen,
                 decode_errors, skipped, heard>>

Clamped(v, low, high) == IF v < low THEN low ELSE IF v > high THEN high ELSE v

\* Variant: a pedal beyond full travel is not clamped.
PedalUnclamped(pct) == ((2 * Clamped(pct, 0, 12700) + 50) \div 100) % 256

\* In hundredths of a percent; in the code pct * 2 + 0.5, cut.
Pedal(pct) == (2 * Clamped(pct, 0, 10000) + 50) \div 100

\* In hundredths of a km/h, which are the units of the signal.
Speed(kmh) == Clamped(kmh, 0, 65535)

SetTargetGear(gearChoice) == Set("VCU_GearRequest", [target_gear |-> gearChoice])
SetDriveMode(modeChoice)  == Set("VCU_GearRequest", [drive_mode |-> modeChoice])
SetAccelPedal(pct)        == Set("VCU_GearRequest", [accel_pedal |-> Pedal(pct)])
SetTorqueRequest(nm)      == Set("VCU_GearRequest", [torque_request |-> nm])
SetVehicleSpeed(kmh)      == Set("VCU_GearRequest", [vehicle_speed |-> Speed(kmh)])
SetBrakePressed(b)        == Set("VCU_GearRequest", [brake_pressed |-> b])
SetVcuReady(r)            == Set("VCU_GearRequest", [vcu_ready |-> r])
SetActualTorque(nm)       == Set("VCU_VehicleInfo", [actual_torque |-> nm])
SetMotorRpm(rpm)          == Set("VCU_VehicleInfo", [motor_rpm |-> rpm])
SetTorqueCutAck(ack)      == Set("VCU_VehicleInfo", [torque_cut_ack |-> ack])

\* The setters of telemetry assign several members, t.
SetStatus1Telemetry(t)     == Set("TCU_Status1", t)
SetStatus1Sensors(t)       == Set("TCU_Status1", t)
SetStatus2Telemetry(t)     == Set("TCU_Status2", t)
SetShiftStatusTelemetry(t) == Set("TCU_ShiftStatus", t)
SetPumpStatusTelemetry(t)  == Set("TCU_PumpStatus", t)

-------------------------------------------------------------------------------
(* PackTx and DecodeRx                                                     *)

\* A counter is stamped into the struct, and advanced.
Stamp(m) ==
  IF m \in VcuMessages
  THEN /\ tx' = [tx EXCEPT ![m][Counters[m]] = counter[m]]
       /\ counter' = [counter EXCEPT ![m] = (@ + 1) % CounterRange]
  ELSE UNCHANGED <<tx, counter>>

PackTx(m) ==
  /\ active = m
  /\ Len(underway) < MaxUnderway
  /\ Stamp(m)
  /\ underway' = Append(underway, [id |-> FrameId[m], bits |-> Pack(m, tx'[m])])
  /\ UNCHANGED <<active, latched, decodes, frame_seen, decode_errors, settings,
                 skipped, heard>>

\* Variant: the two VCU frames are latched by the cases of each other.
LatchInTheOther(m, frame) ==
  LET into == IF m = "VCU_GearRequest" THEN "VCU_VehicleInfo" ELSE m
  IN  latched' = [latched EXCEPT ![into] = Unpack(into, frame.bits)]

Latch(m, frame) == latched' = [latched EXCEPT ![m] = Unpack(m, frame.bits)]

\* A frame of eight bytes.  Any other id is none of ours and changes nothing.
DecodeRx(frame) ==
  \E m \in Messages :
    /\ FrameId[m] = frame.id
    /\ Latch(m, frame)
    /\ decodes' = [n \in DOMAIN decodes |->
                     IF n = m THEN (decodes[n] + 1) % DecodeRange ELSE decodes[n]]
    /\ frame_seen' = [n \in DOMAIN frame_seen |-> n = m \/ frame_seen[n]]
    /\ UNCHANGED decode_errors

\* A frame of less than eight bytes, of whatever id.
DecodeShort ==
  /\ decode_errors' = (decode_errors + 1) % DecodeRange
  /\ UNCHANGED <<latched, decodes, frame_seen>>

\* What the bus does with the oldest frame.

Deliver ==
  /\ underway # <<>>
  /\ DecodeRx(Head(underway))
  /\ underway' = Tail(underway)
  /\ skipped' = 0 /\ heard' = TRUE
  /\ UNCHANGED <<active, tx, counter, settings>>

\* It stays, to be delivered again: the latched frame is the one ahead.
DeliverTwice ==
  /\ underway # <<>>
  /\ DecodeRx(Head(underway))
  /\ skipped' = -1 /\ heard' = TRUE
  /\ UNCHANGED <<active, tx, counter, underway, settings>>

Skip ==
  /\ underway # <<>>
  /\ skipped < MaxSkipped
  /\ underway' = Tail(underway)
  /\ skipped' = skipped + 1
  /\ UNCHANGED <<active, tx, counter, settings, heard>>

Lose == Skip /\ UNCHANGED <<latched, decodes, frame_seen, decode_errors>>

CutShort == Skip /\ DecodeShort

SetVcu ==
  \/ \E a \in Arguments["SetTargetGear"]    : SetTargetGear(a)
  \/ \E a \in Arguments["SetDriveMode"]     : SetDriveMode(a)
  \/ \E a \in Arguments["SetAccelPedal"]    : SetAccelPedal(a)
  \/ \E a \in Arguments["SetTorqueRequest"] : SetTorqueRequest(a)
  \/ \E a \in Arguments["SetVehicleSpeed"]  : SetVehicleSpeed(a)
  \/ \E a \in Arguments["SetBrakePressed"]  : SetBrakePressed(a)
  \/ \E a \in Arguments["SetVcuReady"]      : SetVcuReady(a)
  \/ \E a \in Arguments["SetActualTorque"]  : SetActualTorque(a)
  \/ \E a \in Arguments["SetMotorRpm"]      : SetMotorRpm(a)
  \/ \E a \in Arguments["SetTorqueCutAck"]  : SetTorqueCutAck(a)

SetTelemetry ==
  \/ \E a \in Arguments["SetStatus1Telemetry"]     : SetStatus1Telemetry(a)
  \/ \E a \in Arguments["SetStatus1Sensors"]       : SetStatus1Sensors(a)
  \/ \E a \in Arguments["SetStatus2Telemetry"]     : SetStatus2Telemetry(a)
  \/ \E a \in Arguments["SetShiftStatusTelemetry"] : SetShiftStatusTelemetry(a)
  \/ \E a \in Arguments["SetPumpStatusTelemetry"]  : SetPumpStatusTelemetry(a)

Next ==
  \/ SetVcu \/ SetTelemetry
  \/ \E m \in Messages : PackTx(m)
  \/ Deliver \/ DeliverTwice \/ Lose \/ CutShort

Spec == Init /\ [][Next]_vars

\* Frames are packed at a cadence, and the bus does not lose every one.
FairSpec == Spec /\ WF_vars(PackTx(active)) /\ SF_vars(Deliver)

-------------------------------------------------------------------------------
(* Properties                                                              *)

TypeOK ==
  /\ active \in Messages
  /\ DOMAIN tx = Messages /\ DOMAIN latched = Messages
  /\ \A m \in Messages : tx[m] \in Struct[m] /\ latched[m] \in Struct[m]
  /\ counter \in [VcuMessages -> 0..(CounterRange - 1)]
  /\ underway \in Seq([id : {FrameId[m] : m \in Messages}, bits : SUBSET (0..63)])
  /\ Len(underway) <= MaxUnderway
  /\ decodes \in [Messages \ VcuMessages -> 0..(DecodeRange - 1)]
  /\ frame_seen \in [{"TCU_ShiftStatus", "TCU_PumpStatus"} -> BOOLEAN]
  /\ decode_errors \in 0..(DecodeRange - 1)
  /\ settings \in 0..MaxSettings
  /\ skipped \in -1..MaxSkipped
  /\ heard \in BOOLEAN

\* The signals of the message but for its counter.
Body == DOMAIN Layout[active] \ {"counter520", "counter521"}

\* v as a signal of this width and sign holds it.
Cut(f, v) ==
  IF f.signed THEN ((v + 2^(f.length - 1)) % 2^f.length) - 2^(f.length - 1)
  ELSE v % 2^f.length

Offered == [s \in Body |-> Cut(Layout[active][s], tx[active][s])]
Seen    == [s \in Body |-> latched[active][s]]

Content(frame) == LET msg == Unpack(active, frame.bits) IN [s \in Body |-> msg[s]]

Mirror == INSTANCE SignalMirror
            WITH offered  <- Offered,
                 underway <- [k \in DOMAIN underway |-> Content(underway[k])],
                 seen     <- Seen

\* Whatever is lost, repeated or cut short, the receiver of a message holds one
\* of the structs its sender packed, each signal cut to its width: never a
\* mixture of two, and never an older one after a newer one
\* (Can_ZF8HP.cpp:21-102, zf8hp_tcu.c:84-1381).
Mirrors == Mirror!Spec

\* A frame is latched by its own message and by no other, and before the first
\* good one a message reads zero: P, no acknowledgement, no fault
\* (Can_ZF8HP.cpp:25-61).
LatchedByItsOwnId ==
  \A m \in Messages : (m # active \/ ~heard) => latched[m] = Zeroed(m)

\* Nothing the VCU's setters accept puts a signal on the bus outside the range
\* its generated range test accepts (Can_ZF8HP.cpp:177-193).
VcuFramesAreInRange ==
  active \in VcuMessages =>
    \A k \in DOMAIN underway :
      LET msg == Unpack(active, underway[k].bits)
      IN  \A s \in DOMAIN msg : IsInRange(Physical[active][s], msg[s])

\* Of every value on the bus, the raw and the physical range test say the same
\* (zf8hp_tcu.c, *_is_in_range and *_is_in_phys_range of *_decode).
RangesAgree ==
  \A k \in DOMAIN underway :
    LET msg == Unpack(active, underway[k].bits)
    IN  \A s \in DOMAIN msg :
          LET p == Physical[active][s]
          IN  IsInRange(p, msg[s]) <=> IsInPhysRange(p, Decode(p, msg[s]))

\* The setters written by hand round where the generated encoders cut: they
\* agree to within one step (Can_ZF8HP.cpp:181, 192; zf8hp_tcu.c, *_encode).
SettersEncode ==
  LET agree(signal, raw, value) ==
        LET p == GearRequestPhysical[signal]
        IN  IsInPhysRange(p, value) => \A e \in Encodings(p, value) : raw - e \in {0, 1}
  IN  /\ \A pct \in Arguments["SetAccelPedal"] : agree("accel_pedal", Pedal(pct), pct)
      /\ \A kmh \in Arguments["SetVehicleSpeed"] : agree("vehicle_speed", Speed(kmh), kmh)

\* The counter of a VCU message tells its receiver how many frames it missed:
\* what has been packed since the latched frame and is not underway was lost
\* (Can_ZF8HP.cpp:70-81).
CounterMeasuresLoss ==
  active \in VcuMessages /\ heard =>
    (counter[active] - latched[active][Counters[active]] - 1 - Len(underway))
      % CounterRange = skipped % CounterRange

\* The frames on the bus are of the message this behaviour is about.
OfOneMessage == \A k \in DOMAIN underway : underway[k].id = FrameId[active]

\* The VCU's signals that their field alone does not keep in range.
TxInRange ==
  /\ tx["VCU_GearRequest"].accel_pedal \in 0..200
  /\ tx["VCU_VehicleInfo"].motor_temp = 0 /\ tx["VCU_VehicleInfo"].battery_soc = 0

\* The frames on the bus carry consecutive counters, up to the last one stamped.
Consecutive ==
  active \in VcuMessages =>
    \A k \in DOMAIN underway :
      Unpack(active, underway[k].bits)[Counters[active]]
        = (counter[active] - Len(underway) + k - 1) % CounterRange

CanInv ==
  /\ TypeOK
  /\ OfOneMessage
  /\ TxInRange
  /\ Consecutive
  /\ LatchedByItsOwnId
  /\ RangesAgree
  /\ VcuFramesAreInRange
  /\ SettersEncode
  /\ CounterMeasuresLoss

\* When the setters are left alone, the receiver comes to hold what they set,
\* however many frames the bus loses, as long as it does not lose all.
EventuallyInStep == <>[](Seen = Offered)
===================================================================================
