-------------------------------- MODULE TcuCodec --------------------------------
(***************************************************************************)
(* The six messages between VCU and TCU as the generated codec lays them   *)
(* out (firmware/can_codegen/zf8hp_tcu.c and .h).  The code is one pair of *)
(* functions per message and four per signal, all of the same shape; here  *)
(* the shapes are operators and what differs is in tables:                 *)
(*   *Layout    where pack and unpack put each signal,                     *)
(*   *Struct    the C struct they convert from and to,                     *)
(*   *Physical  the ranges and units of encode, decode and the range tests.*)
(*                                                                         *)
(* A frame is the set of positions, 0 to 63, of its bits that are 1; bit   *)
(* p is bit p % 8 of byte p \div 8.  All signals are little-endian, so a   *)
(* signal that spans two bytes is contiguous in this numbering.            *)
(***************************************************************************)
EXTENDS Integers

\* Frame identifiers.
FrameId == [VCU_GearRequest |-> 1312, VCU_VehicleInfo |-> 1313,    \* 0x520, 0x521
            TCU_Status1     |-> 1344, TCU_Status2     |-> 1345,    \* 0x540, 0x541
            TCU_PumpStatus  |-> 1346, TCU_ShiftStatus |-> 1347]    \* 0x542, 0x543

Messages == DOMAIN FrameId

VcuMessages == {"VCU_GearRequest", "VCU_VehicleInfo"}

-------------------------------------------------------------------------------
(* Layout                                                                  *)

Field(start, length)       == [start |-> start, length |-> length, signed |-> FALSE]
SignedField(start, length) == [start |-> start, length |-> length, signed |-> TRUE]

GearRequestLayout ==
  [target_gear    |-> Field(0, 4),   drive_mode    |-> Field(4, 4),
   accel_pedal    |-> Field(8, 8),   torque_request |-> SignedField(16, 16),
   vehicle_speed  |-> Field(32, 16), brake_pressed |-> Field(48, 1),
   fault_clear    |-> Field(49, 1),  force_shift   |-> Field(50, 1),
   vcu_ready      |-> Field(51, 1),  counter520    |-> Field(56, 4)]

VehicleInfoLayout ==
  [actual_torque   |-> SignedField(0, 16), motor_rpm    |-> SignedField(16, 16),
   motor_temp      |-> SignedField(32, 8), battery_soc  |-> Field(40, 8),
   charging_active |-> Field(48, 1),       regen_allowed |-> Field(49, 1),
   hv_present      |-> Field(50, 1),       torque_cut_ack |-> Field(51, 1),
   counter521      |-> Field(56, 4)]

Status1Layout ==
  [current_gear      |-> Field(0, 4),   target_gear_echo |-> Field(4, 4),
   tcu_state         |-> Field(8, 4),   shift_in_progress |-> Field(12, 1),
   tcu_ready         |-> Field(13, 1),  any_fault        |-> Field(14, 1),
   park_lock         |-> Field(15, 1),  input_shaft_rpm  |-> Field(16, 16),
   output_shaft_rpm  |-> Field(32, 16), oil_temp         |-> SignedField(48, 8),
   line_pressure     |-> Field(56, 8)]

Status2Layout ==
  [sol_a_current |-> Field(0, 16), sol_b_current |-> Field(16, 16),
   fault_bits    |-> Field(32, 16), shift_count  |-> Field(48, 8),
   tcu_hw_temp   |-> SignedField(56, 8)]

ShiftStatusLayout ==
  [shift_phase           |-> Field(0, 3),  torque_cut_request     |-> Field(3, 1),
   shift_active          |-> Field(4, 1),  shift_fault_code       |-> Field(5, 3),
   shift_ramp_percent    |-> Field(8, 8),  shift_elapsed_ms       |-> Field(16, 16),
   current_clutch_set    |-> Field(32, 5), target_clutch_set      |-> Field(40, 5),
   ramping_in_clutch_set |-> Field(48, 5), ramping_out_clutch_set |-> Field(56, 5)]

PumpStatusLayout ==
  [pump_state     |-> Field(0, 3),  pump_run_ack     |-> Field(3, 1),
   pump_lin_fault |-> Field(4, 1),  pump_alt_fault   |-> Field(5, 1),
   pump_rpm       |-> Field(16, 16), pump_voltage    |-> Field(32, 8),
   pump_current_raw |-> Field(40, 8), pump_retry_count |-> Field(48, 8),
   counter542     |-> Field(56, 4)]

\* Variant: the fault code is put one bit too low, onto ShiftActive.
OverlappingLayout ==
  [VCU_GearRequest |-> GearRequestLayout, VCU_VehicleInfo |-> VehicleInfoLayout,
   TCU_Status1 |-> Status1Layout, TCU_Status2 |-> Status2Layout,
   TCU_ShiftStatus |-> [ShiftStatusLayout EXCEPT !.shift_fault_code = Field(4, 3)],
   TCU_PumpStatus |-> PumpStatusLayout]

Layout ==
  [VCU_GearRequest |-> GearRequestLayout, VCU_VehicleInfo |-> VehicleInfoLayout,
   TCU_Status1 |-> Status1Layout, TCU_Status2 |-> Status2Layout,
   TCU_ShiftStatus |-> ShiftStatusLayout, TCU_PumpStatus |-> PumpStatusLayout]

\* The positions of the 1s among the low n bits of v, in two's complement.
Ones(v, n) == {k \in 0..(n - 1) : (v \div 2^k) % 2 = 1}

\* The number with these bits.  No signal is wider than 16.
ValueOf ==
  [ones \in SUBSET (0..15) |->
     LET bit(k) == IF k \in ones THEN 2^k ELSE 0
     IN  bit(0) + bit(1) + bit(2) + bit(3) + bit(4) + bit(5) + bit(6) + bit(7)
        + bit(8) + bit(9) + bit(10) + bit(11) + bit(12) + bit(13) + bit(14) + bit(15)]

\* *_pack: a cleared frame into which each signal is or-ed, cut to its width.
Pack(m, msg) ==
  UNION {LET f == Layout[m][s] IN {f.start + k : k \in Ones(msg[s], f.length)} :
           s \in DOMAIN Layout[m]}

\* A signed field is cast to its two's complement.
Value(f, ones) ==
  ValueOf[ones] - (IF f.signed /\ f.length - 1 \in ones THEN 2^f.length ELSE 0)

\* *_unpack: each signal masked out.
Unpack(m, frame) ==
  [s \in DOMAIN Layout[m] |->
     LET f == Layout[m][s]
     IN  Value(f, {k \in 0..(f.length - 1) : f.start + k \in frame})]

-------------------------------------------------------------------------------
(* Structs: the types of their members                                     *)

uint8_t  == 0..255
uint16_t == 0..65535
int8_t   == -128..127
int16_t  == -32768..32767

GearRequestStruct ==
  [target_gear |-> uint8_t, drive_mode |-> uint8_t, accel_pedal |-> uint8_t,
   torque_request |-> int16_t, vehicle_speed |-> uint16_t, brake_pressed |-> uint8_t,
   fault_clear |-> uint8_t, force_shift |-> uint8_t, vcu_ready |-> uint8_t,
   counter520 |-> uint8_t]

VehicleInfoStruct ==
  [actual_torque |-> int16_t, motor_rpm |-> int16_t, motor_temp |-> int8_t,
   battery_soc |-> uint8_t, charging_active |-> uint8_t, regen_allowed |-> uint8_t,
   hv_present |-> uint8_t, torque_cut_ack |-> uint8_t, counter521 |-> uint8_t]

Status1Struct ==
  [current_gear |-> uint8_t, target_gear_echo |-> uint8_t, tcu_state |-> uint8_t,
   shift_in_progress |-> uint8_t, tcu_ready |-> uint8_t, any_fault |-> uint8_t,
   park_lock |-> uint8_t, input_shaft_rpm |-> uint16_t, output_shaft_rpm |-> uint16_t,
   oil_temp |-> int8_t, line_pressure |-> uint8_t]

Status2Struct ==
  [sol_a_current |-> uint16_t, sol_b_current |-> uint16_t, fault_bits |-> uint16_t,
   shift_count |-> uint8_t, tcu_hw_temp |-> int8_t]

ShiftStatusStruct ==
  [shift_phase |-> uint8_t, torque_cut_request |-> uint8_t, shift_active |-> uint8_t,
   shift_fault_code |-> uint8_t, shift_ramp_percent |-> uint8_t,
   shift_elapsed_ms |-> uint16_t, current_clutch_set |-> uint8_t,
   target_clutch_set |-> uint8_t, ramping_in_clutch_set |-> uint8_t,
   ramping_out_clutch_set |-> uint8_t]

PumpStatusStruct ==
  [pump_state |-> uint8_t, pump_run_ack |-> uint8_t, pump_lin_fault |-> uint8_t,
   pump_alt_fault |-> uint8_t, pump_rpm |-> uint16_t, pump_voltage |-> uint8_t,
   pump_current_raw |-> uint8_t, pump_retry_count |-> uint8_t, counter542 |-> uint8_t]

Members ==
  [VCU_GearRequest |-> GearRequestStruct, VCU_VehicleInfo |-> VehicleInfoStruct,
   TCU_Status1 |-> Status1Struct, TCU_Status2 |-> Status2Struct,
   TCU_ShiftStatus |-> ShiftStatusStruct, TCU_PumpStatus |-> PumpStatusStruct]

\* r gives members of m values of their types.
Fits(m, r) ==
  DOMAIN r \subseteq DOMAIN Members[m] /\ \A s \in DOMAIN r : r[s] \in Members[m][s]

Struct == [m \in Messages |-> {msg \in [DOMAIN Layout[m] -> Int] : Fits(m, msg)}]

\* *_init, and the {} initialiser of the class members: all zero.
Zeroed(m) == [s \in DOMAIN Layout[m] |-> 0]

-------------------------------------------------------------------------------
(* Physical values, in hundredths of the signal's unit                     *)

\* Raw values that *_is_in_range accepts, scale and offset of *_decode, and the
\* physical values that *_is_in_phys_range accepts.
Ranged(low, high, by) ==
  [raw |-> low..high, scale |-> by, offset |-> 0, phys |-> (by * low)..(by * high)]

Count(max)      == Ranged(0, max, 100)
Scaled(max, by) == Ranged(0, max, by)
Signed16        == Ranged(-32768, 32767, 100)
\* Held in an int8_t: the raw values above 127 of the physical range do not exist.
Celsius == [raw |-> 0..127, scale |-> 100, offset |-> -4000, phys |-> -4000..21500]
Flag == Count(1)

GearRequestPhysical ==
  [target_gear   |-> Count(15),        drive_mode     |-> Count(15),
   accel_pedal   |-> Scaled(200, 50),  torque_request |-> Signed16,
   vehicle_speed |-> Scaled(65535, 1), brake_pressed  |-> Flag,
   fault_clear   |-> Flag,             force_shift    |-> Flag,
   vcu_ready     |-> Flag,             counter520     |-> Count(15)]

VehicleInfoPhysical ==
  [actual_torque   |-> Signed16, motor_rpm      |-> Signed16,
   motor_temp      |-> Celsius,  battery_soc    |-> Scaled(200, 50),
   charging_active |-> Flag,     regen_allowed  |-> Flag,
   hv_present      |-> Flag,     torque_cut_ack |-> Flag,
   counter521      |-> Count(15)]

Status1Physical ==
  [current_gear     |-> Count(15),    target_gear_echo  |-> Count(15),
   tcu_state        |-> Count(15),    shift_in_progress |-> Flag,
   tcu_ready        |-> Flag,         any_fault         |-> Flag,
   park_lock        |-> Flag,         input_shaft_rpm   |-> Count(65535),
   output_shaft_rpm |-> Count(65535), oil_temp          |-> Celsius,
   line_pressure    |-> Scaled(255, 10)]

Status2Physical ==
  [sol_a_current |-> Count(65535), sol_b_current |-> Count(65535),
   fault_bits    |-> Count(65535), shift_count   |-> Count(255),
   tcu_hw_temp   |-> Celsius]

ShiftStatusPhysical ==
  [shift_phase           |-> Count(7),   torque_cut_request     |-> Flag,
   shift_active          |-> Flag,       shift_fault_code       |-> Count(7),
   shift_ramp_percent    |-> Count(100), shift_elapsed_ms       |-> Count(65535),
   current_clutch_set    |-> Count(31),  target_clutch_set      |-> Count(31),
   ramping_in_clutch_set |-> Count(31),  ramping_out_clutch_set |-> Count(31)]

PumpStatusPhysical ==
  [pump_state       |-> Count(7),       pump_run_ack     |-> Flag,
   pump_lin_fault   |-> Flag,           pump_alt_fault   |-> Flag,
   pump_rpm         |-> Count(65535),   pump_voltage     |-> Scaled(255, 10),
   pump_current_raw |-> Count(255),     pump_retry_count |-> Count(255),
   counter542       |-> Count(15)]

Physical ==
  [VCU_GearRequest |-> GearRequestPhysical, VCU_VehicleInfo |-> VehicleInfoPhysical,
   TCU_Status1 |-> Status1Physical, TCU_Status2 |-> Status2Physical,
   TCU_ShiftStatus |-> ShiftStatusPhysical, TCU_PumpStatus |-> PumpStatusPhysical]

Decode(p, raw) == raw * p.scale + p.offset

IsInRange(p, raw) == raw \in p.raw

IsInPhysRange(p, value) == value \in p.phys

\* What *_encode may return for a value that is a multiple of the scale: dividing
\* by 0.1 or 0.01 in binary may fall just below the integer, and is then cut.
Encodings(p, value) ==
  LET n == (value - p.offset) \div p.scale
  IN  IF p.scale \in {1, 10} /\ n > 0 THEN {n - 1, n} ELSE {n}
===============================================================================
