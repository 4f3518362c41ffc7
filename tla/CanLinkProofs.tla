------------------------------ MODULE CanLinkProofs ------------------------------
(***************************************************************************)
(* The CAN layer, for every bound, every width of the statistics and all   *)
(* that the setters can be called with.  The tables of the codec are       *)
(* checked entry by entry: signals are apart, members hold what their      *)
(* signals can.  Then bits are summed, which gives the round trip: what is *)
(* unpacked of a packed struct is that struct, each signal cut to its      *)
(* width.  The rest is order: frames on the bus carry consecutive counters *)
(* and are latched oldest first, so that the two sides refine SignalMirror.*)
(***************************************************************************)
EXTENDS CanLink, TLAPS

-------------------------------------------------------------------------------
(* The tables                                                              *)

\* The powers of two of the widths and weights.
LEMMA Powers ==
  /\ 2^0 = 1 /\ 2^1 = 2 /\ 2^2 = 4 /\ 2^3 = 8 /\ 2^4 = 16 /\ 2^5 = 32 /\ 2^6 = 64
  /\ 2^7 = 128 /\ 2^8 = 256 /\ 2^9 = 512 /\ 2^10 = 1024 /\ 2^11 = 2048 /\ 2^12 = 4096
  /\ 2^13 = 8192 /\ 2^14 = 16384 /\ 2^15 = 32768 /\ 2^16 = 65536
OBVIOUS

Lengths == {1, 3, 4, 5, 8, 16}

\* What a field of this width and sign can hold.
Holds(f) ==
  IF f.signed THEN (-(2^(f.length - 1)))..(2^(f.length - 1) - 1) ELSE 0..(2^f.length - 1)

\* A field lies in the frame; the signed ones are a byte or two wide.
IsField(f) ==
  /\ f.start \in 0..63 /\ f.length \in Lengths /\ f.start + f.length <= 64
  /\ f.signed = TRUE \/ f.signed = FALSE
  /\ f.signed => f.length \in {8, 16}

Apart(f, g) == f.start + f.length <= g.start \/ g.start + g.length <= f.start

\* The tables message by message.
LEMMA Tables ==
  ASSUME NEW m \in Messages
  PROVE  \/ /\ m = "VCU_GearRequest" /\ Layout[m] = GearRequestLayout
            /\ Members[m] = GearRequestStruct /\ Physical[m] = GearRequestPhysical
         \/ /\ m = "VCU_VehicleInfo" /\ Layout[m] = VehicleInfoLayout
            /\ Members[m] = VehicleInfoStruct /\ Physical[m] = VehicleInfoPhysical
         \/ /\ m = "TCU_Status1" /\ Layout[m] = Status1Layout
            /\ Members[m] = Status1Struct /\ Physical[m] = Status1Physical
         \/ /\ m = "TCU_Status2" /\ Layout[m] = Status2Layout
            /\ Members[m] = Status2Struct /\ Physical[m] = Status2Physical
         \/ /\ m = "TCU_ShiftStatus" /\ Layout[m] = ShiftStatusLayout
            /\ Members[m] = ShiftStatusStruct /\ Physical[m] = ShiftStatusPhysical
         \/ /\ m = "TCU_PumpStatus" /\ Layout[m] = PumpStatusLayout
            /\ Members[m] = PumpStatusStruct /\ Physical[m] = PumpStatusPhysical
BY DEF Messages, FrameId, Layout, Members, Physical

LEMMA FieldsOfMessages ==
  ASSUME NEW m \in Messages, NEW s \in DOMAIN Layout[m]
  PROVE  IsField(Layout[m][s])
<1>1. ASSUME NEW a \in 0..63, NEW n \in Lengths, a + n <= 64 PROVE IsField(Field(a, n))
  BY <1>1 DEF IsField, Field
<1>2. ASSUME NEW a \in 0..63, NEW n \in {8, 16}, a + n <= 64 PROVE IsField(SignedField(a, n))
  BY <1>2 DEF IsField, SignedField, Lengths
<1>3. \A t \in DOMAIN GearRequestLayout : IsField(GearRequestLayout[t])
  BY <1>1, <1>2 DEF GearRequestLayout, Lengths
<1>4. \A t \in DOMAIN VehicleInfoLayout : IsField(VehicleInfoLayout[t])
  BY <1>1, <1>2 DEF VehicleInfoLayout, Lengths
<1>5. \A t \in DOMAIN Status1Layout : IsField(Status1Layout[t])
  BY <1>1, <1>2 DEF Status1Layout, Lengths
<1>6. \A t \in DOMAIN Status2Layout : IsField(Status2Layout[t])
  BY <1>1, <1>2 DEF Status2Layout, Lengths
<1>7. \A t \in DOMAIN ShiftStatusLayout : IsField(ShiftStatusLayout[t])
  BY <1>1, <1>2 DEF ShiftStatusLayout, Lengths
<1>8. \A t \in DOMAIN PumpStatusLayout : IsField(PumpStatusLayout[t])
  BY <1>1, <1>2 DEF PumpStatusLayout, Lengths
<1>. QED BY <1>3, <1>4, <1>5, <1>6, <1>7, <1>8, Tables

LEMMA FieldsAreApart ==
  ASSUME NEW m \in Messages, NEW s \in DOMAIN Layout[m], NEW t \in DOMAIN Layout[m], s # t
  PROVE  Apart(Layout[m][s], Layout[m][t])
<1>. USE DEF Apart, Field, SignedField
<1>1. \A a, b \in DOMAIN GearRequestLayout :
        a # b => Apart(GearRequestLayout[a], GearRequestLayout[b])
  BY DEF GearRequestLayout
<1>2. \A a, b \in DOMAIN VehicleInfoLayout :
        a # b => Apart(VehicleInfoLayout[a], VehicleInfoLayout[b])
  BY DEF VehicleInfoLayout
<1>3. \A a, b \in DOMAIN Status1Layout : a # b => Apart(Status1Layout[a], Status1Layout[b])
  BY DEF Status1Layout
<1>4. \A a, b \in DOMAIN Status2Layout : a # b => Apart(Status2Layout[a], Status2Layout[b])
  BY DEF Status2Layout
<1>5. \A a, b \in DOMAIN ShiftStatusLayout :
        a # b => Apart(ShiftStatusLayout[a], ShiftStatusLayout[b])
  BY DEF ShiftStatusLayout
<1>6. \A a, b \in DOMAIN PumpStatusLayout :
        a # b => Apart(PumpStatusLayout[a], PumpStatusLayout[b])
  BY DEF PumpStatusLayout
<1>. HIDE DEF Apart
<1>. QED BY <1>1, <1>2, <1>3, <1>4, <1>5, <1>6, Tables

\* Every member has its signal, and its type holds whatever the field does.
LEMMA MembersHoldFields ==
  ASSUME NEW m \in Messages
  PROVE  /\ DOMAIN Members[m] = DOMAIN Layout[m] /\ DOMAIN Physical[m] = DOMAIN Layout[m]
         /\ \A s \in DOMAIN Layout[m] : Holds(Layout[m][s]) \subseteq Members[m][s]
<1>1. \A a : /\ Holds(Field(a, 1)) = 0..1   /\ Holds(Field(a, 3)) = 0..7
             /\ Holds(Field(a, 4)) = 0..15  /\ Holds(Field(a, 5)) = 0..31
             /\ Holds(Field(a, 8)) = uint8_t /\ Holds(Field(a, 16)) = uint16_t
             /\ Holds(SignedField(a, 8)) = int8_t /\ Holds(SignedField(a, 16)) = int16_t
  BY Powers DEF Holds, Field, SignedField, uint8_t, uint16_t, int8_t, int16_t
<1>2. 0..1 \subseteq uint8_t /\ 0..7 \subseteq uint8_t /\ 0..15 \subseteq uint8_t
      /\ 0..31 \subseteq uint8_t
  BY DEF uint8_t
<1>3. /\ DOMAIN GearRequestStruct = DOMAIN GearRequestLayout
      /\ DOMAIN GearRequestPhysical = DOMAIN GearRequestLayout
      /\ \A s \in DOMAIN GearRequestLayout : Holds(GearRequestLayout[s]) \subseteq GearRequestStruct[s]
  BY <1>1, <1>2 DEF GearRequestLayout, GearRequestStruct, GearRequestPhysical
<1>4. /\ DOMAIN VehicleInfoStruct = DOMAIN VehicleInfoLayout
      /\ DOMAIN VehicleInfoPhysical = DOMAIN VehicleInfoLayout
      /\ \A s \in DOMAIN VehicleInfoLayout : Holds(VehicleInfoLayout[s]) \subseteq VehicleInfoStruct[s]
  BY <1>1, <1>2 DEF VehicleInfoLayout, VehicleInfoStruct, VehicleInfoPhysical
<1>5. /\ DOMAIN Status1Struct = DOMAIN Status1Layout
      /\ DOMAIN Status1Physical = DOMAIN Status1Layout
      /\ \A s \in DOMAIN Status1Layout : Holds(Status1Layout[s]) \subseteq Status1Struct[s]
  BY <1>1, <1>2 DEF Status1Layout, Status1Struct, Status1Physical
<1>6. /\ DOMAIN Status2Struct = DOMAIN Status2Layout
      /\ DOMAIN Status2Physical = DOMAIN Status2Layout
      /\ \A s \in DOMAIN Status2Layout : Holds(Status2Layout[s]) \subseteq Status2Struct[s]
  BY <1>1, <1>2 DEF Status2Layout, Status2Struct, Status2Physical
<1>7. /\ DOMAIN ShiftStatusStruct = DOMAIN ShiftStatusLayout
      /\ DOMAIN ShiftStatusPhysical = DOMAIN ShiftStatusLayout
      /\ \A s \in DOMAIN ShiftStatusLayout : Holds(ShiftStatusLayout[s]) \subseteq ShiftStatusStruct[s]
  BY <1>1, <1>2 DEF ShiftStatusLayout, ShiftStatusStruct, ShiftStatusPhysical
<1>8. /\ DOMAIN PumpStatusStruct = DOMAIN PumpStatusLayout
      /\ DOMAIN PumpStatusPhysical = DOMAIN PumpStatusLayout
      /\ \A s \in DOMAIN PumpStatusLayout : Holds(PumpStatusLayout[s]) \subseteq PumpStatusStruct[s]
  BY <1>1, <1>2 DEF PumpStatusLayout, PumpStatusStruct, PumpStatusPhysical
<1>. QED BY <1>3, <1>4, <1>5, <1>6, <1>7, <1>8, Tables

\* Of every value a member can have, the raw and the physical range test say the same.
LEMMA RangeTestsAgree ==
  ASSUME NEW m \in Messages, NEW s \in DOMAIN Layout[m], NEW v \in Members[m][s]
  PROVE  IsInRange(Physical[m][s], v) <=> IsInPhysRange(Physical[m][s], Decode(Physical[m][s], v))
<1>. DEFINE Agree(p, T) == \A x \in T : IsInRange(p, x) <=> IsInPhysRange(p, Decode(p, x))
<1>1. ASSUME NEW a \in Int, NEW b \in Int, NEW by \in {1, 10, 50, 100}, NEW T, T \subseteq Int
      PROVE  Agree(Ranged(a, b, by), T)
  <2>1. CASE by = 1
    BY <1>1, <2>1, SMT DEF Ranged, IsInRange, IsInPhysRange, Decode
  <2>2. CASE by = 10
    BY <1>1, <2>2, SMT DEF Ranged, IsInRange, IsInPhysRange, Decode
  <2>3. CASE by = 50
    BY <1>1, <2>3, SMT DEF Ranged, IsInRange, IsInPhysRange, Decode
  <2>4. CASE by = 100
    BY <1>1, <2>4, SMT DEF Ranged, IsInRange, IsInPhysRange, Decode
  <2>. QED BY <2>1, <2>2, <2>3, <2>4
<1>2. ASSUME NEW max \in Nat, NEW T, T \subseteq Int
      PROVE  /\ Agree(Count(max), T)
             /\ Agree(Scaled(max, 1), T) /\ Agree(Scaled(max, 10), T) /\ Agree(Scaled(max, 50), T)
  <2>. HIDE DEF Agree
  <2>. QED BY <1>1, <1>2 DEF Count, Scaled
<1>3. Agree(Signed16, int16_t)
  <2>1. int16_t \subseteq Int
    BY SMT DEF int16_t
  <2>. HIDE DEF Agree
  <2>3. ASSUME NEW a \in Int, NEW b \in Int PROVE Agree(Ranged(a, b, 100), int16_t)
    BY <1>1, <2>1
  <2>4. Agree(Ranged(-32768, 32767, 100), int16_t)
    <3>1. -32768 \in Int /\ 32767 \in Int
      BY SMT
    <3>. QED BY <3>1, <2>3, SMT
  <2>. QED BY <2>4, SMT DEF Signed16
<1>4. Agree(Celsius, int8_t)
  BY SMT DEF Celsius, int8_t, IsInRange, IsInPhysRange, Decode
<1>5. uint8_t \subseteq Int /\ uint16_t \subseteq Int
  BY SMT DEF uint8_t, uint16_t
<1>6. /\ \A max \in Nat : Agree(Count(max), uint8_t) /\ Agree(Count(max), uint16_t)
      /\ Agree(Flag, uint8_t)
  BY <1>2, <1>5 DEF Flag
<1>7. /\ \A max \in Nat : Agree(Scaled(max, 10), uint8_t) /\ Agree(Scaled(max, 50), uint8_t)
      /\ \A max \in Nat : Agree(Scaled(max, 1), uint16_t)
  BY <1>2, <1>5
<1>. HIDE DEF Agree
<1>11. \A t \in DOMAIN GearRequestPhysical : Agree(GearRequestPhysical[t], GearRequestStruct[t])
  BY <1>3, <1>4, <1>6, <1>7, SMT DEF GearRequestPhysical, GearRequestStruct
<1>12. \A t \in DOMAIN VehicleInfoPhysical : Agree(VehicleInfoPhysical[t], VehicleInfoStruct[t])
  BY <1>3, <1>4, <1>6, <1>7, SMT DEF VehicleInfoPhysical, VehicleInfoStruct
<1>13. \A t \in DOMAIN Status1Physical : Agree(Status1Physical[t], Status1Struct[t])
  BY <1>3, <1>4, <1>6, <1>7, SMT DEF Status1Physical, Status1Struct
<1>14. \A t \in DOMAIN Status2Physical : Agree(Status2Physical[t], Status2Struct[t])
  BY <1>3, <1>4, <1>6, <1>7, SMT DEF Status2Physical, Status2Struct
<1>15. \A t \in DOMAIN ShiftStatusPhysical : Agree(ShiftStatusPhysical[t], ShiftStatusStruct[t])
  BY <1>3, <1>4, <1>6, <1>7, SMT DEF ShiftStatusPhysical, ShiftStatusStruct
<1>16. \A t \in DOMAIN PumpStatusPhysical : Agree(PumpStatusPhysical[t], PumpStatusStruct[t])
  BY <1>3, <1>4, <1>6, <1>7, SMT DEF PumpStatusPhysical, PumpStatusStruct
<1>17. Agree(Physical[m][s], Members[m][s])
  BY <1>11, <1>12, <1>13, <1>14, <1>15, <1>16, Tables, MembersHoldFields
<1>. QED BY <1>17 DEF Agree

\* The VCU's signals whose field holds more than their range.
Narrow == {"accel_pedal", "motor_temp", "battery_soc"}

\* Every other signal of the VCU is in range whatever its field holds.
LEMMA FieldsInRange ==
  ASSUME NEW m \in VcuMessages, NEW s \in DOMAIN Layout[m] \ Narrow, NEW v \in Holds(Layout[m][s])
  PROVE  IsInRange(Physical[m][s], v)
<1>. DEFINE Takes(p, T) == \A x \in T : IsInRange(p, x)
<1>1. ASSUME NEW a \in Int, NEW b \in Int, NEW by, NEW x \in Int, a <= x, x <= b
      PROVE  IsInRange(Ranged(a, b, by), x)
  BY <1>1 DEF IsInRange, Ranged
<1>2. /\ Takes(Flag, 0..1) /\ Takes(Count(15), 0..15) /\ Takes(Scaled(65535, 1), uint16_t)
      /\ Takes(Signed16, int16_t)
  <2>1. Takes(Flag, 0..1) /\ Takes(Count(15), 0..15)
    BY <1>1, SMT DEF Flag, Count
  <2>2. Takes(Scaled(65535, 1), uint16_t)
    <3>1. SUFFICES ASSUME NEW x \in uint16_t PROVE IsInRange(Ranged(0, 65535, 1), x)
      BY DEF Scaled
    <3>2. x \in Int /\ 0 <= x /\ x <= 65535
      BY SMT DEF uint16_t
    <3>. HIDE DEF Takes
    <3>. QED BY <1>1, <3>2, SMT
  <2>3. Takes(Signed16, int16_t)
    <3>1. SUFFICES ASSUME NEW x \in int16_t PROVE IsInRange(Ranged(-32768, 32767, 100), x)
      BY DEF Signed16
    <3>2. x \in Int /\ -32768 <= x /\ x <= 32767
      BY SMT DEF int16_t
    <3>. HIDE DEF Takes
    <3>. QED BY <1>1, <3>2, SMT
  <2>. QED BY <2>1, <2>2, <2>3
<1>3. \A a : /\ Holds(Field(a, 1)) = 0..1 /\ Holds(Field(a, 4)) = 0..15
             /\ Holds(Field(a, 16)) = uint16_t /\ Holds(SignedField(a, 16)) = int16_t
  BY Powers DEF Holds, Field, SignedField, uint16_t, int16_t
<1>. HIDE DEF Takes
<1>4. \A t \in DOMAIN GearRequestLayout \ Narrow :
        Takes(GearRequestPhysical[t], Holds(GearRequestLayout[t]))
  BY <1>2, <1>3, SMT DEF GearRequestLayout, GearRequestPhysical, Narrow
<1>5. \A t \in DOMAIN VehicleInfoLayout \ Narrow :
        Takes(VehicleInfoPhysical[t], Holds(VehicleInfoLayout[t]))
  BY <1>2, <1>3, SMT DEF VehicleInfoLayout, VehicleInfoPhysical, Narrow
<1>6. m \in Messages /\ (m = "VCU_GearRequest" \/ m = "VCU_VehicleInfo")
  BY DEF VcuMessages, Messages, FrameId
<1>7. Takes(Physical[m][s], Holds(Layout[m][s]))
  BY <1>4, <1>5, <1>6, Tables
<1>. QED BY <1>7 DEF Takes

-------------------------------------------------------------------------------
(* Bits and numbers                                                        *)

\* One more bit of v.
LEMMA Digit ==
  ASSUME NEW v \in Int
  PROVE  /\ v % 1 = 0
         /\ v % 2     = (v % 1)     + 1     * ((v \div 1) % 2)
         /\ v % 4     = (v % 2)     + 2     * ((v \div 2) % 2)
         /\ v % 8     = (v % 4)     + 4     * ((v \div 4) % 2)
         /\ v % 16    = (v % 8)     + 8     * ((v \div 8) % 2)
         /\ v % 32    = (v % 16)    + 16    * ((v \div 16) % 2)
         /\ v % 64    = (v % 32)    + 32    * ((v \div 32) % 2)
         /\ v % 128   = (v % 64)    + 64    * ((v \div 64) % 2)
         /\ v % 256   = (v % 128)   + 128   * ((v \div 128) % 2)
         /\ v % 512   = (v % 256)   + 256   * ((v \div 256) % 2)
         /\ v % 1024  = (v % 512)   + 512   * ((v \div 512) % 2)
         /\ v % 2048  = (v % 1024)  + 1024  * ((v \div 1024) % 2)
         /\ v % 4096  = (v % 2048)  + 2048  * ((v \div 2048) % 2)
         /\ v % 8192  = (v % 4096)  + 4096  * ((v \div 4096) % 2)
         /\ v % 16384 = (v % 8192)  + 8192  * ((v \div 8192) % 2)
         /\ v % 32768 = (v % 16384) + 16384 * ((v \div 16384) % 2)
         /\ v % 65536 = (v % 32768) + 32768 * ((v \div 32768) % 2)
OBVIOUS

\* The sum of the bits, weight by weight.
LEMMA ValueOfBits ==
  ASSUME NEW ones \in SUBSET (0..15)
  PROVE  LET bit(k, w) == IF k \in ones THEN w ELSE 0
         IN  ValueOf[ones] =
               bit(0, 1) + bit(1, 2) + bit(2, 4) + bit(3, 8) + bit(4, 16) + bit(5, 32)
                 + bit(6, 64) + bit(7, 128) + bit(8, 256) + bit(9, 512) + bit(10, 1024)
                 + bit(11, 2048) + bit(12, 4096) + bit(13, 8192) + bit(14, 16384)
                 + bit(15, 32768)
BY Powers DEF ValueOf

\* The weights of the fields.
LEMMA Weights ==
  ASSUME NEW n \in Lengths
  PROVE  /\ 2^n \in Nat /\ 2^(n - 1) \in Nat /\ 2^n = 2 * 2^(n - 1) /\ 2^n >= 2
         /\ 2^n <= 65536
<1>1. CASE n = 1
  BY <1>1, Powers
<1>2. CASE n = 3
  BY <1>2, Powers
<1>3. CASE n = 4
  BY <1>3, Powers
<1>4. CASE n = 5
  BY <1>4, Powers
<1>5. CASE n = 8
  BY <1>5, Powers
<1>6. CASE n = 16
  BY <1>6, Powers
<1>. QED BY <1>1, <1>2, <1>3, <1>4, <1>5, <1>6 DEF Lengths

\* The sum of the low n bits is less than their weight, and its top bit tells the half.
LEMMA ValueIsNarrow ==
  ASSUME NEW n \in Lengths, NEW ones \in SUBSET (0..(n - 1))
  PROVE  /\ ValueOf[ones] \in Int /\ ValueOf[ones] >= 0 /\ ValueOf[ones] < 2^n
         /\ IF n - 1 \in ones THEN ValueOf[ones] >= 2^(n - 1) ELSE ValueOf[ones] < 2^(n - 1)
<1>. DEFINE bit(k, w) == IF k \in ones THEN w ELSE 0
<1>1. ones \in SUBSET (0..15)
  BY DEF Lengths
<1>2. ValueOf[ones] =
        bit(0, 1) + bit(1, 2) + bit(2, 4) + bit(3, 8) + bit(4, 16) + bit(5, 32)
          + bit(6, 64) + bit(7, 128) + bit(8, 256) + bit(9, 512) + bit(10, 1024)
          + bit(11, 2048) + bit(12, 4096) + bit(13, 8192) + bit(14, 16384) + bit(15, 32768)
  BY <1>1, ValueOfBits
<1>3. \A w : \A k \in n..15 : bit(k, w) = 0
  BY DEF Lengths
<1>4. \A k, w : bit(k, w) = 0 \/ bit(k, w) = w
  OBVIOUS
<1>5. \A w : bit(n - 1, w) = IF n - 1 \in ones THEN w ELSE 0
  OBVIOUS
<1>. HIDE DEF bit
<1>6. CASE n = 1
  BY <1>2, <1>3, <1>4, <1>5, <1>6, Powers
<1>7. CASE n = 3
  BY <1>2, <1>3, <1>4, <1>5, <1>7, Powers
<1>8. CASE n = 4
  BY <1>2, <1>3, <1>4, <1>5, <1>8, Powers
<1>9. CASE n = 5
  BY <1>2, <1>3, <1>4, <1>5, <1>9, Powers
<1>10. CASE n = 8
  BY <1>2, <1>3, <1>4, <1>5, <1>10, Powers
<1>11. CASE n = 16
  <2>. DEFINE low == bit(0, 1) + bit(1, 2) + bit(2, 4) + bit(3, 8) + bit(4, 16) + bit(5, 32)
                       + bit(6, 64) + bit(7, 128)
              high == bit(8, 256) + bit(9, 512) + bit(10, 1024) + bit(11, 2048)
                        + bit(12, 4096) + bit(13, 8192) + bit(14, 16384)
  <2>1. low \in Int /\ low >= 0 /\ low < 256
    BY <1>4
  <2>2. high \in Int /\ high >= 0 /\ high < 32768 - 255
    BY <1>4
  <2>3. bit(15, 32768) = IF 15 \in ones THEN 32768 ELSE 0
    BY SMT DEF bit
  <2>4. ValueOf[ones] = low + high + bit(15, 32768)
    BY <1>2, <1>4
  <2>. HIDE DEF low, high
  <2>5. /\ ValueOf[ones] \in Int /\ ValueOf[ones] >= 0 /\ ValueOf[ones] < 65536
        /\ IF 15 \in ones THEN ValueOf[ones] >= 32768 ELSE ValueOf[ones] < 32768
    BY <2>1, <2>2, <2>3, <2>4, SMT
  <2>. QED BY <1>11, <2>5, Powers, SMT
<1>. QED BY <1>6, <1>7, <1>8, <1>9, <1>10, <1>11 DEF Lengths

\* What a field unpacks to is what it can hold.
LEMMA ValueIsHeld ==
  ASSUME NEW f, IsField(f), NEW ones \in SUBSET (0..(f.length - 1))
  PROVE  Value(f, ones) \in Holds(f)
<1>1. /\ f.length \in Lengths /\ (f.signed = TRUE \/ f.signed = FALSE)
  BY DEF IsField
<1>2. PICK p \in Nat, h \in Nat : p = 2^f.length /\ h = 2^(f.length - 1) /\ p = 2 * h
  BY <1>1, Weights
<1>3. PICK x : x = ValueOf[ones]
  OBVIOUS
<1>4. x \in Int /\ x >= 0 /\ x < p /\ IF f.length - 1 \in ones THEN x >= h ELSE x < h
  BY <1>1, <1>2, <1>3, ValueIsNarrow
<1>5. Value(f, ones) = x - (IF f.signed /\ f.length - 1 \in ones THEN p ELSE 0)
  BY <1>2, <1>3 DEF Value
<1>6. Holds(f) = IF f.signed THEN (-h)..(h - 1) ELSE 0..(p - 1)
  BY <1>2 DEF Holds
<1>7. CASE f.signed = TRUE
  <2>1. Value(f, ones) \in Int /\ -h <= Value(f, ones) /\ Value(f, ones) <= h - 1
    BY <1>2, <1>4, <1>5, <1>7
  <2>. QED BY <1>2, <1>6, <1>7, <2>1
<1>8. CASE f.signed = FALSE
  <2>1. Value(f, ones) = x
    BY <1>4, <1>5, <1>8
  <2>2. x \in 0..(p - 1)
    BY <1>2, <1>4
  <2>. QED BY <1>6, <1>8, <2>1, <2>2
<1>. QED BY <1>1, <1>7, <1>8

\* The low n bits of v, summed: what is left of v.
LEMMA ValueOfOnes ==
  ASSUME NEW n \in Lengths, NEW v \in Int
  PROVE  /\ Ones(v, n) \in SUBSET (0..(n - 1))
         /\ ValueOf[Ones(v, n)] = v % 2^n
<1>. DEFINE ones == Ones(v, n)
            bit(k, w) == IF k \in ones THEN w ELSE 0
<1>1. ones \in SUBSET (0..(n - 1)) /\ ones \in SUBSET (0..15)
  BY DEF Ones, Lengths
<1>2. ValueOf[ones] =
        bit(0, 1) + bit(1, 2) + bit(2, 4) + bit(3, 8) + bit(4, 16) + bit(5, 32)
          + bit(6, 64) + bit(7, 128) + bit(8, 256) + bit(9, 512) + bit(10, 1024)
          + bit(11, 2048) + bit(12, 4096) + bit(13, 8192) + bit(14, 16384) + bit(15, 32768)
  BY <1>1, ValueOfBits
<1>3. \A w : \A k \in n..15 : bit(k, w) = 0
  BY <1>1 DEF Lengths
<1>4. ASSUME NEW k \in 0..(n - 1), NEW w \in Nat, w = 2^k, w > 0
      PROVE  bit(k, w) = w * ((v \div w) % 2)
  <2>1. (v \div w) % 2 = 0 \/ (v \div w) % 2 = 1
    BY <1>4
  <2>2. k \in ones <=> (v \div w) % 2 = 1
    BY <1>4 DEF Ones
  <2>. QED BY <1>4, <2>1, <2>2
<1>. DEFINE ith(w)      == (v \div w) % 2
            rest(w)     == v % w
            digit(k, w) == IF k < n THEN w * ith(w) ELSE 0
<1>5. ASSUME NEW k \in 0..15, NEW w \in Nat, w = 2^k, w > 0
      PROVE  bit(k, w) = digit(k, w)
  <2>1. CASE k < n
    BY <1>4, <1>5, <2>1 DEF Lengths
  <2>2. CASE ~(k < n)
    BY <1>3, <1>5, <2>2 DEF Lengths
  <2>. QED BY <2>1, <2>2
<1>6. /\ rest(1) = 0
      /\ rest(2) = rest(1) + 1 * ith(1)
      /\ rest(4) = rest(2) + 2 * ith(2)
      /\ rest(8) = rest(4) + 4 * ith(4)
      /\ rest(16) = rest(8) + 8 * ith(8)
      /\ rest(32) = rest(16) + 16 * ith(16)
      /\ rest(64) = rest(32) + 32 * ith(32)
      /\ rest(128) = rest(64) + 64 * ith(64)
      /\ rest(256) = rest(128) + 128 * ith(128)
      /\ rest(512) = rest(256) + 256 * ith(256)
      /\ rest(1024) = rest(512) + 512 * ith(512)
      /\ rest(2048) = rest(1024) + 1024 * ith(1024)
      /\ rest(4096) = rest(2048) + 2048 * ith(2048)
      /\ rest(8192) = rest(4096) + 4096 * ith(4096)
      /\ rest(16384) = rest(8192) + 8192 * ith(8192)
      /\ rest(32768) = rest(16384) + 16384 * ith(16384)
      /\ rest(65536) = rest(32768) + 32768 * ith(32768)
  OBVIOUS
<1>7. /\ ith(1) \in Int /\ ith(2) \in Int /\ ith(4) \in Int /\ ith(8) \in Int
      /\ ith(16) \in Int /\ ith(32) \in Int /\ ith(64) \in Int /\ ith(128) \in Int
      /\ ith(256) \in Int /\ ith(512) \in Int /\ ith(1024) \in Int /\ ith(2048) \in Int
      /\ ith(4096) \in Int /\ ith(8192) \in Int /\ ith(16384) \in Int /\ ith(32768) \in Int
  OBVIOUS
<1>. HIDE DEF bit, digit, ith, rest
<1>8. /\ bit(0, 1) = digit(0, 1) /\ bit(1, 2) = digit(1, 2)
      /\ bit(2, 4) = digit(2, 4) /\ bit(3, 8) = digit(3, 8)
      /\ bit(4, 16) = digit(4, 16) /\ bit(5, 32) = digit(5, 32)
      /\ bit(6, 64) = digit(6, 64) /\ bit(7, 128) = digit(7, 128)
      /\ bit(8, 256) = digit(8, 256) /\ bit(9, 512) = digit(9, 512)
      /\ bit(10, 1024) = digit(10, 1024) /\ bit(11, 2048) = digit(11, 2048)
      /\ bit(12, 4096) = digit(12, 4096) /\ bit(13, 8192) = digit(13, 8192)
      /\ bit(14, 16384) = digit(14, 16384) /\ bit(15, 32768) = digit(15, 32768)
  BY <1>5, Powers
<1>9. v % 2^n = rest(2^n)
  BY DEF rest
<1>. USE DEF digit
<1>10. CASE n = 1
  BY <1>1, <1>2, <1>6, <1>7, <1>8, <1>9, <1>10, Powers
<1>11. CASE n = 3
  BY <1>1, <1>2, <1>6, <1>7, <1>8, <1>9, <1>11, Powers
<1>12. CASE n = 4
  BY <1>1, <1>2, <1>6, <1>7, <1>8, <1>9, <1>12, Powers
<1>13. CASE n = 5
  BY <1>1, <1>2, <1>6, <1>7, <1>8, <1>9, <1>13, Powers
<1>14. CASE n = 8
  BY <1>1, <1>2, <1>6, <1>7, <1>8, <1>9, <1>14, Powers
<1>15. CASE n = 16
  BY <1>1, <1>2, <1>6, <1>7, <1>8, <1>9, <1>15, Powers
<1>. QED BY <1>1, <1>10, <1>11, <1>12, <1>13, <1>14, <1>15 DEF Lengths

\* A field that is filled with v holds v, cut to its width.
LEMMA ValueIsCut ==
  ASSUME NEW f, IsField(f), NEW v \in Int
  PROVE  Value(f, Ones(v, f.length)) = Cut(f, v)
<1>1. /\ f.length \in Lengths /\ (f.signed = TRUE \/ f.signed = FALSE)
      /\ (f.signed => f.length \in {8, 16})
  BY DEF IsField
<1>2. PICK p \in Nat, h \in Nat : p = 2^f.length /\ h = 2^(f.length - 1) /\ p = 2 * h /\ p >= 2
  BY <1>1, Weights
<1>3. PICK ones : ones = Ones(v, f.length)
  OBVIOUS
<1>4. ones \in SUBSET (0..(f.length - 1)) /\ ValueOf[ones] = v % p
  BY <1>1, <1>2, <1>3, ValueOfOnes
<1>5. PICK x \in Int : x = v % p
  BY <1>2
<1>6. x \in Int /\ x >= 0 /\ x < p /\ IF f.length - 1 \in ones THEN x >= h ELSE x < h
  BY <1>1, <1>2, <1>4, <1>5, ValueIsNarrow
<1>7. Value(f, ones) = x - (IF f.signed /\ f.length - 1 \in ones THEN p ELSE 0)
  BY <1>2, <1>4, <1>5 DEF Value
<1>8. Cut(f, v) = IF f.signed THEN ((v + h) % p) - h ELSE v % p
  BY <1>2 DEF Cut
<1>9. CASE f.signed = FALSE
  <2>1. Value(f, ones) = x
    BY <1>6, <1>7, <1>9
  <2>. QED BY <1>3, <1>5, <1>8, <1>9, <2>1
<1>10. CASE f.signed = TRUE
  <2>1. (p = 256 /\ h = 128) \/ (p = 65536 /\ h = 32768)
    <3>1. CASE f.length = 8
      BY <1>2, <3>1, Powers
    <3>2. CASE f.length = 16
      BY <1>2, <3>2, Powers
    <3>. QED BY <1>1, <1>10, <3>1, <3>2
  <2>2. (v + h) % p = IF x < h THEN x + h ELSE x + h - p
    <3>1. CASE p = 256 /\ h = 128
      BY <1>5, <3>1
    <3>2. CASE p = 65536 /\ h = 32768
      BY <1>5, <3>2, SMT
    <3>. QED BY <2>1, <3>1, <3>2
  <2>3. Value(f, ones) = IF x < h THEN x ELSE x - p
    BY <1>2, <1>6, <1>7, <1>10
  <2>. QED BY <1>2, <1>3, <1>6, <1>8, <1>10, <2>2, <2>3
<1>. QED BY <1>1, <1>9, <1>10

\* A value that the field can hold is not changed by it.
LEMMA HeldIsNotCut ==
  ASSUME NEW f, IsField(f), NEW v \in Holds(f)
  PROVE  Cut(f, v) = v
<1>1. /\ f.length \in Lengths /\ (f.signed = TRUE \/ f.signed = FALSE)
  BY DEF IsField
<1>2. PICK p \in Nat, h \in Nat : p = 2^f.length /\ h = 2^(f.length - 1) /\ p = 2 * h /\ p >= 2
  BY <1>1, Weights
<1>3. Cut(f, v) = IF f.signed THEN ((v + h) % p) - h ELSE v % p
  BY <1>2 DEF Cut
<1>4. Holds(f) = IF f.signed THEN (-h)..(h - 1) ELSE 0..(p - 1)
  BY <1>2 DEF Holds
<1>5. ASSUME NEW x \in Int, 0 <= x, x < p PROVE x % p = x
  BY <1>2, <1>5
<1>6. CASE f.signed = TRUE
  <2>. v \in (-h)..(h - 1)
    BY <1>4, <1>6
  <2>1. v \in Int /\ 0 <= v + h /\ v + h < p
    BY <1>2
  <2>2. (v + h) % p = v + h
    BY <1>2, <1>5, <2>1
  <2>. QED BY <1>2, <1>3, <1>6, <2>1, <2>2
<1>7. CASE f.signed = FALSE
  <2>. v \in 0..(p - 1)
    BY <1>4, <1>7
  <2>1. v \in Int /\ 0 <= v /\ v < p
    BY <1>2
  <2>. QED BY <1>3, <1>5, <1>7, <2>1
<1>. QED BY <1>1, <1>6, <1>7

\* Every member of a struct is a whole number.
LEMMA StructIsWhole ==
  ASSUME NEW m \in Messages, NEW msg \in Struct[m]
  PROVE  /\ msg \in [DOMAIN Layout[m] -> Int]
         /\ \A s \in DOMAIN Layout[m] : msg[s] \in Members[m][s]
BY MembersHoldFields DEF Struct, Fits

LEMMA Fitting ==
  ASSUME NEW m \in Messages, NEW msg \in [DOMAIN Layout[m] -> Int],
         \A s \in DOMAIN Layout[m] : msg[s] \in Members[m][s]
  PROVE  msg \in Struct[m]
BY MembersHoldFields DEF Struct, Fits

\* The bits of a packed frame, field by field: no signal reaches into another.
LEMMA PackedBits ==
  ASSUME NEW m \in Messages, NEW msg \in [DOMAIN Layout[m] -> Int], NEW s \in DOMAIN Layout[m]
  PROVE  LET f == Layout[m][s]
         IN  {k \in 0..(f.length - 1) : f.start + k \in Pack(m, msg)} = Ones(msg[s], f.length)
<1>. DEFINE f == Layout[m][s]
<1>1. SUFFICES ASSUME NEW k \in 0..(f.length - 1)
               PROVE  f.start + k \in Pack(m, msg) <=> k \in Ones(msg[s], f.length)
  BY DEF Ones
<1>2. IsField(f) /\ \A t \in DOMAIN Layout[m] : IsField(Layout[m][t])
  BY FieldsOfMessages
<1>3. ASSUME NEW t \in DOMAIN Layout[m], NEW j \in Ones(msg[t], Layout[m][t].length),
             f.start + k = Layout[m][t].start + j
      PROVE  t = s /\ j = k
  <2>1. PICK g : g = Layout[m][t]
    OBVIOUS
  <2>2. j \in 0..(g.length - 1)
    BY <2>1 DEF Ones
  <2>3. /\ f.start \in Int /\ g.start \in Int /\ f.length \in Int /\ g.length \in Int
    BY <1>2, <2>1 DEF IsField, Lengths
  <2>4. t # s => Apart(f, g)
    BY FieldsAreApart, <2>1
  <2>. QED BY <1>3, <2>1, <2>2, <2>3, <2>4 DEF Apart
<1>4. f.start + k \in Pack(m, msg)
        <=> \E t \in DOMAIN Layout[m] : \E j \in Ones(msg[t], Layout[m][t].length) :
              f.start + k = Layout[m][t].start + j
  BY DEF Pack
<1>. QED BY <1>3, <1>4

\* What is unpacked from a packed struct is the struct, each signal cut to its width
\* (zf8hp_tcu.c, *_pack and *_unpack).
THEOREM RoundTrip ==
  ASSUME NEW m \in Messages, NEW msg \in [DOMAIN Layout[m] -> Int]
  PROVE  Unpack(m, Pack(m, msg)) = [s \in DOMAIN Layout[m] |-> Cut(Layout[m][s], msg[s])]
<1>1. ASSUME NEW s \in DOMAIN Layout[m]
      PROVE  Unpack(m, Pack(m, msg))[s] = Cut(Layout[m][s], msg[s])
  <2>1. PICK f : f = Layout[m][s]
    OBVIOUS
  <2>2. {k \in 0..(f.length - 1) : f.start + k \in Pack(m, msg)} = Ones(msg[s], f.length)
    BY <2>1, PackedBits
  <2>3. Unpack(m, Pack(m, msg))[s] = Value(f, Ones(msg[s], f.length))
    BY <2>1, <2>2 DEF Unpack
  <2>. QED BY <2>1, <2>3, FieldsOfMessages, ValueIsCut
<1>. QED BY <1>1 DEF Unpack

\* Whatever the bits of a frame, it unpacks to members of the types of the struct.
LEMMA UnpackFits ==
  ASSUME NEW m \in Messages, NEW frame
  PROVE  /\ Unpack(m, frame) \in Struct[m]
         /\ \A s \in DOMAIN Layout[m] : Unpack(m, frame)[s] \in Holds(Layout[m][s])
<1>1. ASSUME NEW s \in DOMAIN Layout[m]
      PROVE  Unpack(m, frame)[s] \in Holds(Layout[m][s])
  <2>1. PICK f : f = Layout[m][s]
    OBVIOUS
  <2>2. PICK ones : ones = {k \in 0..(f.length - 1) : f.start + k \in frame}
    OBVIOUS
  <2>3. Unpack(m, frame)[s] = Value(f, ones)
    BY <2>1, <2>2 DEF Unpack
  <2>. QED BY <2>1, <2>2, <2>3, FieldsOfMessages, ValueIsHeld
<1>2. ASSUME NEW s \in DOMAIN Layout[m] PROVE Holds(Layout[m][s]) \subseteq Int
  BY FieldsOfMessages, Weights DEF Holds, IsField
<1>3. Unpack(m, frame) \in [DOMAIN Layout[m] -> Int]
  BY <1>1, <1>2 DEF Unpack
<1>. QED BY <1>1, <1>3, Fitting, MembersHoldFields

LEMMA PackIsFrame ==
  ASSUME NEW m \in Messages, NEW msg
  PROVE  Pack(m, msg) \in SUBSET (0..63)
<1>1. ASSUME NEW s \in DOMAIN Layout[m], NEW k \in Ones(msg[s], Layout[m][s].length)
      PROVE  Layout[m][s].start + k \in 0..63
  <2>1. IsField(Layout[m][s])
    BY FieldsOfMessages
  <2>. QED BY <2>1 DEF IsField, Lengths, Ones
<1>. QED BY <1>1 DEF Pack

LEMMA ZeroedFits ==
  ASSUME NEW m \in Messages
  PROVE  /\ Zeroed(m) \in Struct[m]
         /\ \A s \in DOMAIN Layout[m] : Zeroed(m)[s] = 0
<1>1. ASSUME NEW f, IsField(f) PROVE 0 \in Holds(f)
  <2>1. f.length \in Lengths /\ (f.signed = TRUE \/ f.signed = FALSE)
    BY <1>1 DEF IsField
  <2>2. PICK p \in Nat, h \in Nat : p = 2^f.length /\ h = 2^(f.length - 1) /\ p = 2 * h /\ p >= 2
    BY <2>1, Weights
  <2>3. Holds(f) = IF f.signed THEN (-h)..(h - 1) ELSE 0..(p - 1)
    BY <2>2 DEF Holds
  <2>4. 0 \in (-h)..(h - 1) /\ 0 \in 0..(p - 1)
    BY <2>2
  <2>. QED BY <2>1, <2>3, <2>4
<1>2. \A s \in DOMAIN Layout[m] : 0 \in Members[m][s]
  BY <1>1, FieldsOfMessages, MembersHoldFields
<1>. QED BY <1>2, Fitting DEF Zeroed

\* A counter is stamped as it is: it fits its field.
LEMMA CounterRoundTrip ==
  ASSUME NEW m \in VcuMessages, NEW msg \in Struct[m], msg[Counters[m]] \in 0..15
  PROVE  /\ Counters[m] \in DOMAIN Layout[m]
         /\ Unpack(m, Pack(m, msg))[Counters[m]] = msg[Counters[m]]
<1>1. m \in Messages /\ (m = "VCU_GearRequest" \/ m = "VCU_VehicleInfo")
  BY DEF VcuMessages, Messages, FrameId
<1>2. Counters[m] \in DOMAIN Layout[m] /\ Layout[m][Counters[m]] = Field(56, 4)
  BY <1>1, Tables DEF Counters, GearRequestLayout, VehicleInfoLayout
<1>3. Holds(Field(56, 4)) = 0..15
  BY Powers DEF Holds, Field
<1>4. Cut(Field(56, 4), msg[Counters[m]]) = msg[Counters[m]]
  BY <1>1, <1>2, <1>3, FieldsOfMessages, HeldIsNotCut
<1>. QED BY <1>1, <1>2, <1>4, RoundTrip, StructIsWhole

\* The structs of the VCU that the invariant keeps, packed, are in range.
LEMMA PackedInRange ==
  ASSUME NEW m \in VcuMessages, NEW msg \in Struct[m],
         m = "VCU_GearRequest" => msg.accel_pedal \in 0..200,
         m = "VCU_VehicleInfo" => msg.motor_temp = 0 /\ msg.battery_soc = 0,
         NEW s \in DOMAIN Layout[m]
  PROVE  IsInRange(Physical[m][s], Unpack(m, Pack(m, msg))[s])
<1>1. m \in Messages /\ (m = "VCU_GearRequest" \/ m = "VCU_VehicleInfo")
  BY DEF VcuMessages, Messages, FrameId
<1>2. CASE s \notin Narrow
  BY <1>1, <1>2, UnpackFits, FieldsInRange
<1>3. CASE s \in Narrow
  <2>1. Unpack(m, Pack(m, msg))[s] = Cut(Layout[m][s], msg[s])
    BY <1>1, RoundTrip, StructIsWhole
  <2>2. \A a : Holds(Field(a, 8)) = 0..255 /\ Holds(SignedField(a, 8)) = (-128)..127
    BY Powers DEF Holds, Field, SignedField
  <2>3. CASE m = "VCU_GearRequest"
    <3>1. s = "accel_pedal" /\ Layout[m][s] = Field(8, 8) /\ Physical[m][s] = Scaled(200, 50)
      BY <1>3, <2>3, Tables, <1>1 DEF Narrow, GearRequestLayout, GearRequestPhysical
    <3>2. msg[s] \in 0..200 /\ Cut(Layout[m][s], msg[s]) = msg[s]
      BY <1>1, <2>2, <2>3, <3>1, FieldsOfMessages, HeldIsNotCut
    <3>. QED BY <2>1, <3>1, <3>2 DEF IsInRange, Scaled, Ranged
  <2>4. CASE m = "VCU_VehicleInfo"
    <3>1. \/ s = "motor_temp" /\ Layout[m][s] = SignedField(32, 8) /\ Physical[m][s] = Celsius
          \/ s = "battery_soc" /\ Layout[m][s] = Field(40, 8) /\ Physical[m][s] = Scaled(200, 50)
      BY <1>3, <2>4, Tables, <1>1 DEF Narrow, VehicleInfoLayout, VehicleInfoPhysical
    <3>2. msg[s] = 0 /\ Cut(Layout[m][s], msg[s]) = 0
      BY <1>1, <2>2, <2>4, <3>1, FieldsOfMessages, HeldIsNotCut
    <3>3. 0 \in Celsius.raw /\ 0 \in Scaled(200, 50).raw
      BY DEF Scaled, Ranged, Celsius
    <3>. QED BY <2>1, <3>1, <3>2, <3>3 DEF IsInRange
  <2>. QED BY <1>1, <2>3, <2>4
<1>. QED BY <1>2, <1>3

LEMMA RangesOfFrameAgree ==
  ASSUME NEW m \in Messages, NEW frame, NEW s \in DOMAIN Layout[m]
  PROVE  LET p == Physical[m][s]
         IN  IsInRange(p, Unpack(m, frame)[s])
               <=> IsInPhysRange(p, Decode(p, Unpack(m, frame)[s]))
BY UnpackFits, MembersHoldFields, RangeTestsAgree

-------------------------------------------------------------------------------
(* The invariant                                                           *)

\* What the setters compute is within the range of the signal.
LEMMA Clamping ==
  /\ \A pct \in Int : Pedal(pct) \in 0..200
  /\ \A kmh \in Int : Speed(kmh) \in uint16_t
<1>1. ASSUME NEW pct \in Int PROVE Pedal(pct) \in 0..200
  BY DEF Pedal, Clamped
<1>2. ASSUME NEW kmh \in Int, NEW max \in Nat PROVE Clamped(kmh, 0, max) \in 0..max
  BY DEF Clamped
<1>3. PICK max \in Nat : max = 65535
  BY SMT
<1>4. uint16_t = 0..max
  BY <1>3, SMT DEF uint16_t
<1>5. \A kmh \in Int : Speed(kmh) = Clamped(kmh, 0, max)
  BY <1>3, SMT DEF Speed
<1>. QED BY <1>1, <1>2, <1>4, <1>5

LEMMA SettersAndEncoders == SettersEncode
<1>1. ASSUME NEW pct \in Int, IsInPhysRange(Scaled(200, 50), pct),
             NEW e \in Encodings(Scaled(200, 50), pct)
      PROVE  Pedal(pct) - e \in {0, 1}
  <2>1. pct \in 0..10000 /\ e = pct \div 50
    BY <1>1 DEF IsInPhysRange, Scaled, Ranged, Encodings
  <2>2. Pedal(pct) = (2 * pct + 50) \div 100
    BY <2>1 DEF Pedal, Clamped
  <2>. QED BY <2>1, <2>2
<1>2. ASSUME NEW kmh \in Int, IsInPhysRange(Scaled(65535, 1), kmh),
             NEW e \in Encodings(Scaled(65535, 1), kmh)
      PROVE  Speed(kmh) - e \in {0, 1}
  <2>1. PICK max \in Nat : max = 65535
    BY SMT
  <2>2. IsInPhysRange(Scaled(max, 1), kmh)
    BY <1>2, <2>1, SMT
  <2>3. kmh >= 0 /\ kmh <= max
    BY <2>2 DEF IsInPhysRange, Scaled, Ranged
  <2>4. ASSUME NEW n PROVE Scaled(n, 1).scale = 1 /\ Scaled(n, 1).offset = 0
    BY DEF Scaled, Ranged
  <2>5. e \in {kmh - 1, kmh}
    BY <1>2, <2>4, SMT DEF Encodings
  <2>6. Speed(kmh) = kmh
    BY <2>1, <2>3, SMT DEF Speed, Clamped
  <2>. QED BY <2>5, <2>6
<1>3. /\ Arguments["SetAccelPedal"] \subseteq Int /\ Arguments["SetVehicleSpeed"] \subseteq Int
      /\ GearRequestPhysical["accel_pedal"] = Scaled(200, 50)
      /\ GearRequestPhysical["vehicle_speed"] = Scaled(65535, 1)
  BY InputAssumption DEF GearRequestPhysical
<1>. QED BY <1>1, <1>2, <1>3 DEF SettersEncode

\* A record of members of m that the invariant lets a setter assign.
Settable(m, r) ==
  /\ Fits(m, r)
  /\ m = "VCU_GearRequest" /\ "accel_pedal" \in DOMAIN r => r["accel_pedal"] \in 0..200
  /\ m = "VCU_VehicleInfo" => {"motor_temp", "battery_soc"} \cap DOMAIN r = {}

\* Every setter assigns such a record.
LEMMA EverySetter ==
  ASSUME SetVcu \/ SetTelemetry
  PROVE  \E m \in Messages : \E r : Settable(m, r) /\ Set(m, r)
<1>. DEFINE Ok(m, r) == m \in Messages /\ Settable(m, r)
<1>1. /\ Members["VCU_GearRequest"] = GearRequestStruct
      /\ Members["VCU_VehicleInfo"] = VehicleInfoStruct
  BY DEF Members
<1>2. /\ 0..200 \subseteq uint8_t /\ 0..1 \subseteq uint8_t
  BY DEF uint8_t
<1>3. /\ "VCU_GearRequest" \in Messages /\ "VCU_VehicleInfo" \in Messages
      /\ "TCU_Status1" \in Messages /\ "TCU_Status2" \in Messages
      /\ "TCU_ShiftStatus" \in Messages /\ "TCU_PumpStatus" \in Messages
  BY DEF Messages, FrameId
<1>4. /\ \A v \in uint8_t : /\ Ok("VCU_GearRequest", [target_gear |-> v])
                            /\ Ok("VCU_GearRequest", [drive_mode |-> v])
      /\ \A v \in 0..200 : Ok("VCU_GearRequest", [accel_pedal |-> v])
      /\ \A v \in int16_t : Ok("VCU_GearRequest", [torque_request |-> v])
      /\ \A v \in uint16_t : Ok("VCU_GearRequest", [vehicle_speed |-> v])
      /\ \A v \in 0..1 : /\ Ok("VCU_GearRequest", [brake_pressed |-> v])
                         /\ Ok("VCU_GearRequest", [vcu_ready |-> v])
  BY <1>1, <1>2, <1>3 DEF Settable, Fits, GearRequestStruct
<1>5. /\ \A v \in int16_t : /\ Ok("VCU_VehicleInfo", [actual_torque |-> v])
                            /\ Ok("VCU_VehicleInfo", [motor_rpm |-> v])
      /\ \A v \in 0..1 : Ok("VCU_VehicleInfo", [torque_cut_ack |-> v])
  BY <1>1, <1>2, <1>3 DEF Settable, Fits, VehicleInfoStruct
<1>6. \A m \in {"TCU_Status1", "TCU_Status2", "TCU_ShiftStatus", "TCU_PumpStatus"} :
        \A r : Fits(m, r) => Ok(m, r)
  BY <1>3 DEF Settable
<1>7. ASSUME NEW m, NEW r, Ok(m, r), Set(m, r)
      PROVE  \E n \in Messages : \E q : Settable(n, q) /\ Set(n, q)
  BY <1>7
<1>. HIDE DEF Ok
<1>8. CASE SetVcu
  BY <1>4, <1>5, <1>7, <1>8, Clamping, InputAssumption
     DEF SetVcu, SetTargetGear, SetDriveMode, SetAccelPedal, SetTorqueRequest, SetVehicleSpeed,
         SetBrakePressed, SetVcuReady, SetActualTorque, SetMotorRpm, SetTorqueCutAck
<1>9. CASE SetTelemetry
  BY <1>6, <1>7, <1>9, InputAssumption
     DEF SetTelemetry, SetStatus1Telemetry, SetStatus1Sensors, SetStatus2Telemetry,
         SetShiftStatusTelemetry, SetPumpStatusTelemetry
<1>. QED BY <1>8, <1>9

Frames == [id : {FrameId[m] : m \in Messages}, bits : SUBSET (0..63)]

LEMMA Ids ==
  /\ VcuMessages \subseteq Messages
  /\ \A m, n \in Messages : FrameId[m] = FrameId[n] => m = n
BY DEF VcuMessages, Messages, FrameId

\* What holds of every frame needs no induction.
LEMMA RangesAlwaysAgree == active \in Messages => RangesAgree
<1>1. \A m, frame : DOMAIN Unpack(m, frame) = DOMAIN Layout[m]
  BY DEF Unpack
<1>. QED BY <1>1, RangesOfFrameAgree DEF RangesAgree

LEMMA RangesAlwaysAgreePrime == active' \in Messages => RangesAgree'
<1>1. \A m, frame : DOMAIN Unpack(m, frame) = DOMAIN Layout[m]
  BY DEF Unpack
<1>. QED BY <1>1, RangesOfFrameAgree DEF RangesAgree

LEMMA InitInv == Init => CanInv
<1>. SUFFICES ASSUME Init PROVE CanInv
  OBVIOUS
<1>1. TypeOK
  <2>1. /\ DOMAIN tx = Messages /\ DOMAIN latched = Messages
        /\ \A m \in Messages : tx[m] \in Struct[m] /\ latched[m] \in Struct[m]
    BY ZeroedFits DEF Init
  <2>2. /\ counter \in [VcuMessages -> 0..(CounterRange - 1)]
        /\ underway \in Seq(Frames) /\ Len(underway) <= MaxUnderway
    BY BoundAssumption DEF Init, CounterRange
  <2>3. 0 \in 0..(DecodeRange - 1) /\ 0 \in 0..MaxSettings /\ 0 \in -1..MaxSkipped
    BY BoundAssumption
  <2>4. /\ decodes \in [Messages \ VcuMessages -> 0..(DecodeRange - 1)]
        /\ frame_seen \in [{"TCU_ShiftStatus", "TCU_PumpStatus"} -> BOOLEAN]
        /\ decode_errors \in 0..(DecodeRange - 1) /\ settings \in 0..MaxSettings
        /\ skipped \in -1..MaxSkipped /\ heard \in BOOLEAN
    BY <2>3, Zenon DEF Init
  <2>. QED BY <2>1, <2>2, <2>4 DEF Init, TypeOK, Frames
<1>2. OfOneMessage /\ Consecutive /\ VcuFramesAreInRange
  BY DEF Init, OfOneMessage, Consecutive, VcuFramesAreInRange
<1>3. TxInRange
  <2>1. /\ "VCU_GearRequest" \in Messages /\ "VCU_VehicleInfo" \in Messages
        /\ "accel_pedal" \in DOMAIN Layout["VCU_GearRequest"]
        /\ {"motor_temp", "battery_soc"} \subseteq DOMAIN Layout["VCU_VehicleInfo"]
    BY DEF Messages, FrameId, Layout, GearRequestLayout, VehicleInfoLayout
  <2>2. /\ tx["VCU_GearRequest"] = Zeroed("VCU_GearRequest")
        /\ tx["VCU_VehicleInfo"] = Zeroed("VCU_VehicleInfo")
    BY <2>1 DEF Init
  <2>3. /\ tx["VCU_GearRequest"]["accel_pedal"] = 0
        /\ tx["VCU_VehicleInfo"]["motor_temp"] = 0 /\ tx["VCU_VehicleInfo"]["battery_soc"] = 0
    BY <2>1, <2>2, ZeroedFits
  <2>. QED BY <2>3 DEF TxInRange
<1>4. LatchedByItsOwnId /\ CounterMeasuresLoss
  BY DEF Init, LatchedByItsOwnId, CounterMeasuresLoss
<1>5. RangesAgree
  BY <1>1, RangesAlwaysAgree DEF TypeOK
<1>. QED BY <1>1, <1>2, <1>3, <1>4, <1>5, SettersAndEncoders DEF CanInv

\* A struct with some members assigned.
LEMMA AssignedFits ==
  ASSUME NEW m \in Messages, NEW msg \in Struct[m], NEW r, Fits(m, r)
  PROVE  [s \in DOMAIN msg |-> IF s \in DOMAIN r THEN r[s] ELSE msg[s]] \in Struct[m]
<1>1. DOMAIN msg = DOMAIN Layout[m] /\ \A s \in DOMAIN Layout[m] : msg[s] \in Members[m][s]
  BY StructIsWhole
<1>. DEFINE Whole(T) == T \subseteq Int
<1>2. \A s \in DOMAIN Layout[m] : Whole(Members[m][s])
  <2>1. Whole(uint8_t) /\ Whole(uint16_t) /\ Whole(int8_t) /\ Whole(int16_t)
    BY SMT DEF uint8_t, uint16_t, int8_t, int16_t
  <2>. HIDE DEF Whole
  <2>2. \A s \in DOMAIN GearRequestStruct : Whole(GearRequestStruct[s])
    BY <2>1 DEF GearRequestStruct
  <2>3. \A s \in DOMAIN VehicleInfoStruct : Whole(VehicleInfoStruct[s])
    BY <2>1 DEF VehicleInfoStruct
  <2>4. \A s \in DOMAIN Status1Struct : Whole(Status1Struct[s])
    BY <2>1 DEF Status1Struct
  <2>5. \A s \in DOMAIN Status2Struct : Whole(Status2Struct[s])
    BY <2>1 DEF Status2Struct
  <2>6. \A s \in DOMAIN ShiftStatusStruct : Whole(ShiftStatusStruct[s])
    BY <2>1 DEF ShiftStatusStruct
  <2>7. \A s \in DOMAIN PumpStatusStruct : Whole(PumpStatusStruct[s])
    BY <2>1 DEF PumpStatusStruct
  <2>. QED BY <2>2, <2>3, <2>4, <2>5, <2>6, <2>7, Tables, MembersHoldFields
<1>3. \A s \in DOMAIN r : r[s] \in Members[m][s]
  BY DEF Fits
<1>. QED BY <1>1, <1>2, <1>3, Fitting

LEMMA SetKeepsInv ==
  ASSUME CanInv, NEW m \in Messages, NEW r, Settable(m, r), Set(m, r)
  PROVE  CanInv'
<1>. DEFINE msg == [s \in DOMAIN tx[m] |-> IF s \in DOMAIN r THEN r[s] ELSE tx[m][s]]
<1>1. /\ UNCHANGED <<active, counter, underway, latched, decodes, frame_seen, decode_errors,
                     skipped, heard>>
      /\ settings' = settings + 1 /\ settings < MaxSettings
      /\ tx' = [tx EXCEPT ![m] = msg]
  BY DEF Set
<1>2. TypeOK /\ TxInRange /\ msg \in Struct[m]
  BY AssignedFits DEF CanInv, TypeOK, Settable
<1>. HIDE DEF msg
<1>3. TypeOK'
  BY <1>1, <1>2, BoundAssumption DEF TypeOK
<1>4. TxInRange'
  <2>1. "VCU_GearRequest" \in Messages /\ "VCU_VehicleInfo" \in Messages
    BY DEF Messages, FrameId
  <2>2. /\ "accel_pedal" \in DOMAIN tx["VCU_GearRequest"]
        /\ {"motor_temp", "battery_soc"} \subseteq DOMAIN tx["VCU_VehicleInfo"]
    <3>1. /\ tx["VCU_GearRequest"] \in Struct["VCU_GearRequest"]
          /\ tx["VCU_VehicleInfo"] \in Struct["VCU_VehicleInfo"]
      BY <1>2, <2>1 DEF TypeOK
    <3>2. /\ DOMAIN Layout["VCU_GearRequest"] = DOMAIN GearRequestLayout
          /\ DOMAIN Layout["VCU_VehicleInfo"] = DOMAIN VehicleInfoLayout
      BY DEF Layout
    <3>. QED BY <2>1, <3>1, <3>2, StructIsWhole DEF GearRequestLayout, VehicleInfoLayout
  <2>3. CASE m = "VCU_GearRequest"
    BY <1>1, <1>2, <2>1, <2>2, <2>3 DEF TxInRange, TypeOK, Settable, msg
  <2>4. CASE m = "VCU_VehicleInfo"
    BY <1>1, <1>2, <2>1, <2>2, <2>4 DEF TxInRange, TypeOK, Settable, msg
  <2>5. CASE m \notin {"VCU_GearRequest", "VCU_VehicleInfo"}
    BY <1>1, <1>2, <2>1, <2>5 DEF TxInRange, TypeOK
  <2>. QED BY <2>3, <2>4, <2>5
<1>5. OfOneMessage' /\ Consecutive' /\ VcuFramesAreInRange' /\ LatchedByItsOwnId'
      /\ CounterMeasuresLoss'
  BY <1>1 DEF CanInv, OfOneMessage, Consecutive, VcuFramesAreInRange, LatchedByItsOwnId,
              CounterMeasuresLoss
<1>6. RangesAgree'
  BY <1>3, RangesAlwaysAgreePrime DEF TypeOK
<1>. QED BY <1>3, <1>4, <1>5, <1>6, SettersAndEncoders DEF CanInv, SettersEncode

\* What PackTx stamps and appends.
LEMMA PackStep ==
  ASSUME CanInv, NEW m \in Messages, PackTx(m)
  PROVE  /\ m = active /\ tx'[m] \in Struct[m] /\ DOMAIN tx' = Messages
         /\ \A n \in Messages \ {m} : tx'[n] = tx[n]
         /\ \A s \in DOMAIN Layout[m] \ {"counter520", "counter521"} : tx'[m][s] = tx[m][s]
         /\ Pack(m, tx'[m]) \in SUBSET (0..63)
         /\ m \in VcuMessages => /\ tx'[m][Counters[m]] = counter[m]
                                 /\ counter' = [counter EXCEPT ![m] = (@ + 1) % 16]
         /\ m \notin VcuMessages => counter' = counter
<1>1. TypeOK /\ m = active
  BY DEF CanInv, PackTx
<1>2. CASE m \in VcuMessages
  <2>1. PICK c : c = Counters[m]
    OBVIOUS
  <2>2. c \in {"counter520", "counter521"} /\ c \in DOMAIN Layout[m]
        /\ 0..15 \subseteq Members[m][c]
    <3>1. m = "VCU_GearRequest" \/ m = "VCU_VehicleInfo"
      BY <1>2 DEF VcuMessages
    <3>2. 0..15 \subseteq uint8_t
      BY DEF uint8_t
    <3>. QED BY <2>1, <3>1, <3>2, Tables
             DEF Counters, GearRequestLayout, VehicleInfoLayout, GearRequestStruct,
                 VehicleInfoStruct
  <2>3. counter[m] \in 0..15
    BY <1>1, <1>2 DEF TypeOK, CounterRange
  <2>4. /\ tx' = [tx EXCEPT ![m] = [tx[m] EXCEPT ![c] = counter[m]]]
        /\ counter' = [counter EXCEPT ![m] = (@ + 1) % 16]
    BY <1>2, <2>1 DEF PackTx, Stamp, CounterRange
  <2>5. tx[m] \in Struct[m] /\ DOMAIN tx = Messages
    BY <1>1 DEF TypeOK
  <2>6. [tx[m] EXCEPT ![c] = counter[m]] \in Struct[m]
    <3>1. tx[m] \in [DOMAIN Layout[m] -> Int]
          /\ \A s \in DOMAIN Layout[m] : tx[m][s] \in Members[m][s]
      BY <2>5, StructIsWhole
    <3>2. counter[m] \in Int /\ counter[m] \in Members[m][c]
      BY <2>2, <2>3
    <3>. QED BY <2>2, <3>1, <3>2, Fitting
  <2>7. DOMAIN tx[m] = DOMAIN Layout[m]
    BY <2>5, StructIsWhole
  <2>. QED BY <1>1, <1>2, <2>1, <2>2, <2>4, <2>5, <2>6, <2>7, PackIsFrame
<1>3. CASE m \notin VcuMessages
  BY <1>1, <1>3, PackIsFrame DEF PackTx, Stamp, TypeOK
<1>. QED BY <1>2, <1>3

LEMMA PackKeepsInv ==
  ASSUME CanInv, NEW m \in Messages, PackTx(m)
  PROVE  CanInv'
<1>. DEFINE frame == [id |-> FrameId[m], bits |-> Pack(m, tx'[m])]
            n     == Len(underway)
<1>1. /\ m = active /\ underway' = Append(underway, frame) /\ n < MaxUnderway
      /\ UNCHANGED <<active, latched, decodes, frame_seen, decode_errors, settings, skipped, heard>>
  BY PackStep DEF PackTx
<1>2. TypeOK /\ TxInRange /\ Consecutive /\ OfOneMessage /\ VcuFramesAreInRange
  BY DEF CanInv
<1>3. /\ tx'[m] \in Struct[m] /\ DOMAIN tx' = Messages
      /\ \A k \in Messages \ {m} : tx'[k] = tx[k]
      /\ \A s \in DOMAIN Layout[m] \ {"counter520", "counter521"} : tx'[m][s] = tx[m][s]
  BY PackStep
<1>4. frame \in Frames
  BY PackStep DEF Frames
<1>5. counter' \in [VcuMessages -> 0..15]
  <2>1. counter \in [VcuMessages -> 0..15]
    BY <1>2 DEF TypeOK, CounterRange
  <2>2. CASE m \in VcuMessages
    BY <2>1, <2>2, PackStep
  <2>3. CASE m \notin VcuMessages
    BY <2>1, <2>3, PackStep
  <2>. QED BY <2>2, <2>3
<1>6. underway \in Seq(Frames) /\ n \in Nat
  BY <1>2 DEF TypeOK, Frames
<1>7. /\ DOMAIN underway' = 1..(n + 1) /\ DOMAIN underway = 1..n
      /\ Len(underway') = n + 1 /\ underway' \in Seq(Frames)
      /\ \A k \in 1..n : underway'[k] = underway[k]
      /\ underway'[n + 1] = frame
  BY <1>1, <1>4, <1>6
<1>8. frame.id = FrameId[m] /\ frame.bits = Pack(m, tx'[m])
  OBVIOUS
<1>. HIDE DEF frame, n
<1>9. TypeOK'
  <2>1. \A k \in Messages : tx'[k] \in Struct[k] /\ latched'[k] \in Struct[k]
    BY <1>1, <1>2, <1>3 DEF TypeOK
  <2>2. Len(underway') <= MaxUnderway
    BY <1>1, <1>6, <1>7, BoundAssumption
  <2>. QED BY <1>1, <1>2, <1>3, <1>5, <1>7, <2>1, <2>2 DEF TypeOK, CounterRange, Frames
<1>10. OfOneMessage'
  BY <1>1, <1>2, <1>7, <1>8, <1>6 DEF OfOneMessage
<1>11. TxInRange'
  <2>1. /\ "VCU_GearRequest" \in Messages /\ "VCU_VehicleInfo" \in Messages
        /\ "accel_pedal" \in DOMAIN Layout["VCU_GearRequest"]
        /\ {"motor_temp", "battery_soc"} \subseteq DOMAIN Layout["VCU_VehicleInfo"]
    BY DEF Messages, FrameId, Layout, GearRequestLayout, VehicleInfoLayout
  <2>2. /\ tx'["VCU_GearRequest"]["accel_pedal"] = tx["VCU_GearRequest"]["accel_pedal"]
        /\ tx'["VCU_VehicleInfo"]["motor_temp"] = tx["VCU_VehicleInfo"]["motor_temp"]
        /\ tx'["VCU_VehicleInfo"]["battery_soc"] = tx["VCU_VehicleInfo"]["battery_soc"]
    BY <1>3, <2>1
  <2>. QED BY <1>2, <2>2 DEF TxInRange
<1>12. ASSUME m \in VcuMessages
       PROVE  (Consecutive /\ VcuFramesAreInRange /\ CounterMeasuresLoss)'
  <2>1. /\ tx'[m][Counters[m]] = counter[m] /\ counter[m] \in 0..15
        /\ counter'[m] = (counter[m] + 1) % 16
    BY <1>2, <1>12, PackStep DEF TypeOK, CounterRange
  <2>2. Unpack(m, frame.bits)[Counters[m]] = counter[m]
    BY <1>3, <1>8, <1>12, <2>1, CounterRoundTrip
  <2>3. PICK old \in 0..15, new \in Int : /\ old = counter[m] /\ new = counter'[m]
                                         /\ new = (old + 1) % 16
    BY <2>1
  <2>4. PICK len \in Int : len = n
    BY <1>6
  <2>5. ASSUME NEW k \in Int
        PROVE  /\ (new - (len + 1) + k - 1) % 16 = (old - len + k - 1) % 16
               /\ (new - k - 1 - (len + 1)) % 16 = (old - k - 1 - len) % 16
               /\ (new - (len + 1) + (len + 1) - 1) % 16 = old
    <3>. new = (old + 1) % 16
      BY <2>3
    <3>. QED OBVIOUS
  <2>6. Consecutive'
    <3>1. ASSUME NEW k \in 1..n
          PROVE  Unpack(m, underway'[k].bits)[Counters[m]] = (counter'[m] - (n + 1) + k - 1) % 16
      <4>1. Unpack(m, underway'[k].bits)[Counters[m]] = (counter[m] - n + k - 1) % 16
        BY <1>1, <1>2, <1>7, <1>12 DEF Consecutive, CounterRange, n
      <4>2. k \in Int
        BY <1>6
      <4>. QED BY <2>3, <2>4, <2>5, <4>1, <4>2
    <3>2. Unpack(m, underway'[n + 1].bits)[Counters[m]]
            = (counter'[m] - (n + 1) + (n + 1) - 1) % 16
      BY <1>7, <2>2, <2>3, <2>4, <2>5
    <3>3. \A k \in 1..(n + 1) : k \in 1..n \/ k = n + 1
      BY <1>6
    <3>. QED BY <1>1, <1>7, <3>1, <3>2, <3>3 DEF Consecutive, CounterRange
  <2>7. VcuFramesAreInRange'
    <3>1. ASSUME NEW s \in DOMAIN Layout[m]
          PROVE  IsInRange(Physical[m][s], Unpack(m, frame.bits)[s])
      BY <1>3, <1>8, <1>11, <1>12, PackedInRange DEF TxInRange
    <3>2. \A b : DOMAIN Unpack(m, b) = DOMAIN Layout[m]
      BY DEF Unpack
    <3>3. \A k \in 1..n : \A s \in DOMAIN Layout[m] :
            IsInRange(Physical[m][s], Unpack(m, underway[k].bits)[s])
      BY <1>1, <1>2, <1>7, <1>12, <3>2 DEF VcuFramesAreInRange
    <3>4. \A k \in 1..(n + 1) : k \in 1..n \/ k = n + 1
      BY <1>6
    <3>. QED BY <1>1, <1>7, <3>1, <3>2, <3>3, <3>4 DEF VcuFramesAreInRange
  <2>8. CounterMeasuresLoss'
    <3>1. SUFFICES ASSUME heard
                   PROVE  (counter'[m] - latched[m][Counters[m]] - 1 - (n + 1)) % 16 = skipped % 16
      BY <1>1, <1>7 DEF CounterMeasuresLoss, CounterRange
    <3>2. (counter[m] - latched[m][Counters[m]] - 1 - n) % 16 = skipped % 16
      BY <1>1, <1>12, <3>1 DEF CanInv, CounterMeasuresLoss, CounterRange, n
    <3>3. latched[m][Counters[m]] \in Int
      BY <1>2, <1>12, Ids, CounterRoundTrip, StructIsWhole, <2>1, <1>3 DEF TypeOK
    <3>4. (counter'[m] - latched[m][Counters[m]] - 1 - (n + 1)) % 16
            = (counter[m] - latched[m][Counters[m]] - 1 - n) % 16
      BY <2>3, <2>4, <2>5, <3>3
    <3>. QED BY <3>2, <3>4
  <2>. QED BY <2>6, <2>7, <2>8
<1>13. ASSUME m \notin VcuMessages
       PROVE  (Consecutive /\ VcuFramesAreInRange /\ CounterMeasuresLoss)'
  BY <1>1, <1>13 DEF Consecutive, VcuFramesAreInRange, CounterMeasuresLoss
<1>14. (Consecutive /\ VcuFramesAreInRange /\ CounterMeasuresLoss)'
  BY <1>12, <1>13
<1>15. LatchedByItsOwnId'
  BY <1>1 DEF CanInv, LatchedByItsOwnId
<1>16. RangesAgree'
  BY <1>9, RangesAlwaysAgreePrime DEF TypeOK
<1>. QED BY <1>9, <1>10, <1>11, <1>14, <1>15, <1>16, SettersAndEncoders DEF CanInv, SettersEncode

\* A delivered frame is latched by its own message, and the others stay as they are.
LEMMA LatchStep ==
  ASSUME CanInv, underway # <<>>, DecodeRx(Head(underway))
  PROVE  /\ latched' = [latched EXCEPT ![active] = Unpack(active, underway[1].bits)]
         /\ decodes' \in [Messages \ VcuMessages -> 0..(DecodeRange - 1)]
         /\ frame_seen' \in [{"TCU_ShiftStatus", "TCU_PumpStatus"} -> BOOLEAN]
         /\ decode_errors' = decode_errors
<1>1. TypeOK /\ OfOneMessage
  BY DEF CanInv
<1>2. /\ underway \in Seq(Frames) /\ active \in Messages
      /\ decodes \in [Messages \ VcuMessages -> 0..(DecodeRange - 1)]
      /\ frame_seen \in [{"TCU_ShiftStatus", "TCU_PumpStatus"} -> BOOLEAN]
  BY <1>1 DEF TypeOK, Frames
<1>3. 1 \in DOMAIN underway /\ Head(underway) = underway[1]
  BY <1>2
<1>4. PICK m \in Messages :
        /\ FrameId[m] = underway[1].id
        /\ Latch(m, underway[1])
        /\ decodes' = [n \in DOMAIN decodes |->
                         IF n = m THEN (decodes[n] + 1) % DecodeRange ELSE decodes[n]]
        /\ frame_seen' = [n \in DOMAIN frame_seen |-> n = m \/ frame_seen[n]]
        /\ UNCHANGED decode_errors
  BY <1>3 DEF DecodeRx
<1>5. m = active
  BY <1>1, <1>2, <1>3, <1>4, Ids DEF OfOneMessage
<1>6. ASSUME NEW n \in Messages \ VcuMessages
      PROVE  (decodes[n] + 1) % DecodeRange \in 0..(DecodeRange - 1)
  BY <1>2, BoundAssumption
<1>7. decodes' \in [Messages \ VcuMessages -> 0..(DecodeRange - 1)]
  BY <1>2, <1>4, <1>6
<1>8. frame_seen' \in [{"TCU_ShiftStatus", "TCU_PumpStatus"} -> BOOLEAN]
  BY <1>2, <1>4
<1>. QED BY <1>4, <1>5, <1>7, <1>8 DEF Latch

\* The frames left on the bus when the oldest goes.
LEMMA TailStep ==
  ASSUME CanInv, underway # <<>>, underway' = Tail(underway), active' = active,
         counter' = counter
  PROVE  /\ Len(underway) \in 1..MaxUnderway /\ Len(underway') = Len(underway) - 1
         /\ underway' \in Seq(Frames) /\ Len(underway') <= MaxUnderway
         /\ OfOneMessage' /\ Consecutive' /\ VcuFramesAreInRange'
<1>1. /\ underway \in Seq(Frames) /\ Len(underway) <= MaxUnderway
      /\ OfOneMessage /\ Consecutive /\ VcuFramesAreInRange
      /\ counter \in [VcuMessages -> 0..15]
  BY DEF CanInv, TypeOK, Frames, CounterRange
<1>2. PICK n \in Nat : n = Len(underway)
  BY <1>1
<1>3. /\ n \in 1..MaxUnderway /\ Len(underway') = n - 1 /\ underway' \in Seq(Frames)
      /\ DOMAIN underway = 1..n /\ DOMAIN underway' = 1..(n - 1)
      /\ \A k \in 1..(n - 1) : underway'[k] = underway[k + 1] /\ k + 1 \in 1..n
  BY <1>1, <1>2, BoundAssumption
<1>4. OfOneMessage'
  BY <1>1, <1>3 DEF OfOneMessage
<1>5. VcuFramesAreInRange'
  BY <1>1, <1>3 DEF VcuFramesAreInRange
<1>6. Consecutive'
  <2>1. SUFFICES ASSUME active \in VcuMessages, NEW k \in 1..(n - 1)
                 PROVE  Unpack(active, underway[k + 1].bits)[Counters[active]]
                          = (counter[active] - (n - 1) + k - 1) % 16
    BY <1>3 DEF Consecutive, CounterRange
  <2>2. Unpack(active, underway[k + 1].bits)[Counters[active]]
          = (counter[active] - n + (k + 1) - 1) % 16
    BY <1>1, <1>2, <1>3, <2>1 DEF Consecutive, CounterRange
  <2>3. PICK c \in Int : c = counter[active]
    BY <1>1, <2>1
  <2>4. c - n + (k + 1) - 1 = c - (n - 1) + k - 1
    BY <1>2
  <2>. QED BY <2>2, <2>3, <2>4
<1>7. n - 1 <= MaxUnderway
  BY <1>3, BoundAssumption
<1>. QED BY <1>2, <1>3, <1>4, <1>5, <1>6, <1>7

\* What the receiver and the bus have in common in a delivery; n frames are left.
LEMMA DeliverKeepsInv ==
  ASSUME CanInv, Deliver \/ DeliverTwice
  PROVE  CanInv'
<1>1. /\ underway # <<>> /\ DecodeRx(Head(underway)) /\ heard' = TRUE
      /\ UNCHANGED <<active, tx, counter, settings>>
      /\ \/ underway' = Tail(underway) /\ skipped' = 0
         \/ underway' = underway /\ skipped' = -1
  BY DEF Deliver, DeliverTwice
<1>2. /\ TypeOK /\ OfOneMessage /\ Consecutive /\ VcuFramesAreInRange /\ TxInRange
      /\ LatchedByItsOwnId /\ CounterMeasuresLoss
  BY DEF CanInv
<1>3. PICK msg : msg = Unpack(active, underway[1].bits)
  OBVIOUS
<1>4. /\ latched' = [latched EXCEPT ![active] = msg] /\ msg \in Struct[active]
      /\ active \in Messages
  BY <1>1, <1>2, <1>3, LatchStep, UnpackFits DEF TypeOK
<1>5. OfOneMessage' /\ Consecutive' /\ VcuFramesAreInRange'
      /\ underway' \in Seq(Frames) /\ Len(underway') <= MaxUnderway
  <2>1. CASE underway' = Tail(underway)
    <3>1. active' = active /\ counter' = counter /\ underway # <<>>
      BY <1>1
    <3>. QED BY <2>1, <3>1, TailStep
  <2>2. CASE underway' = underway
    BY <1>1, <1>2, <2>2 DEF OfOneMessage, Consecutive, VcuFramesAreInRange, TypeOK, Frames
  <2>. QED BY <1>1, <2>1, <2>2
<1>6. TypeOK'
  <2>1. \A m \in Messages : latched'[m] \in Struct[m]
    BY <1>2, <1>4 DEF TypeOK
  <2>2. skipped' \in -1..MaxSkipped
    BY <1>1, BoundAssumption
  <2>. QED BY <1>1, <1>2, <1>4, <1>5, <2>1, <2>2, LatchStep DEF TypeOK, Frames
<1>7. TxInRange' /\ LatchedByItsOwnId'
  BY <1>1, <1>2, <1>4 DEF TxInRange, LatchedByItsOwnId, TypeOK
<1>8. CounterMeasuresLoss'
  <2>1. SUFFICES ASSUME active \in VcuMessages
                 PROVE  (counter[active] - msg[Counters[active]] - 1 - Len(underway')) % 16
                          = skipped' % 16
    BY <1>1, <1>2, <1>4 DEF CounterMeasuresLoss, CounterRange, TypeOK
  <2>2. PICK n \in Nat : n = Len(underway) /\ n >= 1 /\ 1 \in DOMAIN underway
    BY <1>1, <1>2 DEF TypeOK
  <2>3. PICK c \in Int : c = counter[active]
    BY <1>2, <2>1 DEF TypeOK, CounterRange
  <2>4. PICK d \in Int : d = msg[Counters[active]] /\ d = (c - n + 1 - 1) % 16
    BY <1>2, <1>3, <2>1, <2>2, <2>3 DEF Consecutive, CounterRange
  <2>5. (c - d - 1 - (n - 1)) % 16 = 0 /\ (c - d - 1 - n) % 16 = 15
    <3>1. d = (c - n) % 16
      BY <2>4
    <3>2. PICK q \in Int : c - n = 16 * q + d
      BY <3>1
    <3>3. c - d - 1 - (n - 1) = 16 * q /\ c - d - 1 - n = 16 * q - 1
      BY <3>2
    <3>4. (16 * q) % 16 = 0 /\ (16 * q - 1) % 16 = 15
      OBVIOUS
    <3>. QED BY <3>3, <3>4
  <2>6. CASE underway' = Tail(underway) /\ skipped' = 0
    <3>1. Len(underway') = n - 1
      BY <1>1, <2>2, <2>6, TailStep
    <3>. QED BY <2>3, <2>4, <2>5, <2>6, <3>1
  <2>7. CASE underway' = underway /\ skipped' = -1
    <3>1. PICK x \in Int : x = skipped'
      BY <2>7
    <3>2. x + 1 = 0
      BY <2>7, <3>1
    <3>3. x % 16 = 15
      BY <3>2
    <3>. QED BY <2>2, <2>3, <2>4, <2>5, <2>7, <3>1, <3>3
  <2>. QED BY <1>1, <2>6, <2>7
<1>9. RangesAgree'
  BY <1>6, RangesAlwaysAgreePrime DEF TypeOK
<1>. QED BY <1>5, <1>6, <1>7, <1>8, <1>9, SettersAndEncoders DEF CanInv, SettersEncode

LEMMA SkipKeepsInv ==
  ASSUME CanInv, Lose \/ CutShort
  PROVE  CanInv'
<1>1. /\ underway # <<>> /\ underway' = Tail(underway)
      /\ skipped < MaxSkipped /\ skipped' = skipped + 1
      /\ UNCHANGED <<active, tx, counter, settings, heard, latched, decodes, frame_seen>>
      /\ \/ decode_errors' = decode_errors
         \/ decode_errors' = (decode_errors + 1) % DecodeRange
  BY DEF Lose, CutShort, Skip, DecodeShort
<1>2. TypeOK /\ TxInRange /\ LatchedByItsOwnId /\ CounterMeasuresLoss
  BY DEF CanInv
<1>3. /\ OfOneMessage' /\ Consecutive' /\ VcuFramesAreInRange'
      /\ underway' \in Seq(Frames) /\ Len(underway') <= MaxUnderway
      /\ Len(underway') = Len(underway) - 1 /\ Len(underway) \in Int
  BY <1>1, TailStep
<1>4. skipped \in Int /\ skipped' \in -1..MaxSkipped /\ decode_errors' \in 0..(DecodeRange - 1)
  BY <1>1, <1>2, BoundAssumption DEF TypeOK
<1>5. TypeOK'
  BY <1>1, <1>2, <1>3, <1>4 DEF TypeOK, Frames
<1>6. TxInRange' /\ LatchedByItsOwnId'
  BY <1>1, <1>2 DEF TxInRange, LatchedByItsOwnId
<1>7. CounterMeasuresLoss'
  <2>1. SUFFICES ASSUME active \in VcuMessages, heard
                 PROVE  (counter[active] - latched[active][Counters[active]] - 1 - Len(underway')) % 16
                          = skipped' % 16
    BY <1>1 DEF CounterMeasuresLoss, CounterRange
  <2>2. PICK c \in Int : c = counter[active]
    BY <1>2, <2>1 DEF TypeOK, CounterRange
  <2>3. PICK d \in Int : d = latched[active][Counters[active]]
    <3>1. Counters[active] \in DOMAIN Layout[active]
      BY <2>1, Tables, Ids
         DEF VcuMessages, Counters, GearRequestLayout, VehicleInfoLayout
    <3>. QED BY <1>2, <3>1, StructIsWhole DEF TypeOK
  <2>4. PICK n \in Int, k \in Int : n = Len(underway) /\ k = skipped
    BY <1>3, <1>4
  <2>5. (c - d - 1 - n) % 16 = k % 16
    BY <1>2, <2>1, <2>2, <2>3, <2>4 DEF CounterMeasuresLoss, CounterRange
  <2>6. (c - d - 1 - (n - 1)) % 16 = (k + 1) % 16
    BY <2>5
  <2>. QED BY <1>1, <1>3, <2>2, <2>3, <2>4, <2>6
<1>8. RangesAgree'
  BY <1>5, RangesAlwaysAgreePrime DEF TypeOK
<1>. QED BY <1>3, <1>5, <1>6, <1>7, <1>8, SettersAndEncoders DEF CanInv, SettersEncode

LEMMA StutterKeepsInv == CanInv /\ UNCHANGED vars => CanInv'
BY DEF vars, CanInv, TypeOK, OfOneMessage, TxInRange, Consecutive, LatchedByItsOwnId, RangesAgree,
       VcuFramesAreInRange, SettersEncode, CounterMeasuresLoss

LEMMA StepInv == CanInv /\ [Next]_vars => CanInv'
<1>. SUFFICES ASSUME CanInv, [Next]_vars PROVE CanInv'
  OBVIOUS
<1>1. CASE SetVcu \/ SetTelemetry
  BY <1>1, EverySetter, SetKeepsInv
<1>2. ASSUME NEW m \in Messages, PackTx(m) PROVE CanInv'
  BY <1>2, PackKeepsInv
<1>3. CASE Deliver \/ DeliverTwice
  BY <1>3, DeliverKeepsInv
<1>4. CASE Lose \/ CutShort
  BY <1>4, SkipKeepsInv
<1>5. CASE UNCHANGED vars
  BY <1>5, StutterKeepsInv
<1>. QED BY <1>1, <1>2, <1>3, <1>4, <1>5 DEF Next

\* Frames are latched by their own message, what the VCU sends is in range, raw and
\* physical range tests agree on every value on the bus, and the counter measures what
\* was lost (Can_ZF8HP.cpp:21-213).
THEOREM CanInvariant == Spec => []CanInv
BY InitInv, StepInv, PTL DEF Spec

-------------------------------------------------------------------------------
(* The refinement                                                          *)

\* What the mirror sees of a struct that was received, of one that will be sent, and
\* of the frames on the bus.
BodyOf(m)           == DOMAIN Layout[m] \ {"counter520", "counter521"}
Received(m, msg)    == [s \in BodyOf(m) |-> msg[s]]
ToBeSent(m, msg)    == [s \in BodyOf(m) |-> Cut(Layout[m][s], msg[s])]
Copies(m, frames)   == [k \in DOMAIN frames |-> Received(m, Unpack(m, frames[k].bits))]

LEMMA Views ==
  /\ Offered = ToBeSent(active, tx[active]) /\ Seen = Received(active, latched[active])
  /\ [k \in DOMAIN underway |-> Content(underway[k])] = Copies(active, underway)
BY DEF Offered, Seen, Content, Body, BodyOf, Received, ToBeSent, Copies

LEMMA ViewsPrime ==
  /\ Offered' = ToBeSent(active', tx'[active'])
  /\ Seen' = Received(active', latched'[active'])
  /\ [k \in DOMAIN underway |-> Content(underway[k])]' = Copies(active', underway')
BY DEF Offered, Seen, Content, Body, BodyOf, Received, ToBeSent, Copies

LEMMA CopiesOfNone == \A m : Copies(m, <<>>) = <<>>
BY DEF Copies

LEMMA CopiesOfMore ==
  ASSUME NEW m, NEW frames \in Seq(Frames), NEW frame \in Frames
  PROVE  Copies(m, Append(frames, frame))
           = Append(Copies(m, frames), Received(m, Unpack(m, frame.bits)))
<1>. DEFINE copy(f) == Received(m, Unpack(m, f.bits))
            n       == Len(frames)
            more    == Append(frames, frame)
            old     == [k \in 1..n |-> copy(frames[k])]
<1>. HIDE DEF copy
<1>1. /\ n \in Nat /\ DOMAIN frames = 1..n /\ DOMAIN more = 1..(n + 1)
      /\ \A k \in 1..n : more[k] = frames[k]
      /\ more[n + 1] = frame
  OBVIOUS
<1>2. /\ Copies(m, frames) = old
      /\ Copies(m, more) = [k \in 1..(n + 1) |-> copy(more[k])]
  BY <1>1 DEF Copies, copy
<1>3. Append(old, copy(frame)) = [k \in 1..(n + 1) |-> IF k \in 1..n THEN old[k] ELSE copy(frame)]
  BY <1>1
<1>4. \A k \in 1..(n + 1) : k \in 1..n \/ k = n + 1
  BY <1>1
<1>. QED BY <1>1, <1>2, <1>3, <1>4 DEF copy

LEMMA CopiesOfFewer ==
  ASSUME NEW m, NEW frames \in Seq(Frames), frames # <<>>
  PROVE  /\ Copies(m, frames) # <<>>
         /\ Head(Copies(m, frames)) = Received(m, Unpack(m, frames[1].bits))
         /\ Copies(m, Tail(frames)) = Tail(Copies(m, frames))
<1>. DEFINE copy(f) == Received(m, Unpack(m, f.bits))
            n       == Len(frames)
            old     == [k \in 1..n |-> copy(frames[k])]
<1>. HIDE DEF copy
<1>1. /\ n \in Nat /\ n >= 1 /\ DOMAIN frames = 1..n /\ DOMAIN Tail(frames) = 1..(n - 1)
      /\ \A k \in 1..(n - 1) : Tail(frames)[k] = frames[k + 1] /\ k + 1 \in 1..n
  OBVIOUS
<1>2. /\ Copies(m, frames) = old
      /\ Copies(m, Tail(frames)) = [k \in 1..(n - 1) |-> copy(Tail(frames)[k])]
  BY <1>1 DEF Copies, copy
<1>3. /\ old # <<>> /\ Head(old) = old[1]
      /\ Tail(old) = [k \in 1..(n - 1) |-> old[k + 1]]
  BY <1>1
<1>. QED BY <1>1, <1>2, <1>3 DEF copy

\* A copy on the bus is what its sender offered when it was packed, and what it offers
\* is not changed by the packing.
LEMMA PackSends ==
  ASSUME CanInv, NEW m \in Messages, PackTx(m)
  PROVE  /\ Received(m, Unpack(m, Pack(m, tx'[m]))) = ToBeSent(m, tx[m])
         /\ ToBeSent(m, tx'[m]) = ToBeSent(m, tx[m])
<1>1. /\ tx'[m] \in [DOMAIN Layout[m] -> Int]
      /\ \A s \in BodyOf(m) : tx'[m][s] = tx[m][s]
  BY PackStep, StructIsWhole DEF BodyOf
<1>2. \A s \in BodyOf(m) : Unpack(m, Pack(m, tx'[m]))[s] = Cut(Layout[m][s], tx'[m][s])
  BY <1>1, RoundTrip DEF BodyOf
<1>. QED BY <1>1, <1>2 DEF Received, ToBeSent

LEMMA InitMirrors == Init => Mirror!Init
<1>. SUFFICES ASSUME Init PROVE Mirror!Init
  OBVIOUS
<1>1. active \in Messages /\ underway = <<>> /\ latched[active] = Zeroed(active)
  BY DEF Init
<1>2. DOMAIN Offered = BodyOf(active) /\ Seen = [s \in BodyOf(active) |-> 0]
  BY <1>1, Views, ZeroedFits DEF Received, ToBeSent, BodyOf
<1>3. [k \in DOMAIN underway |-> Content(underway[k])] = <<>>
  BY <1>1, Views, CopiesOfNone
<1>. QED BY <1>2, <1>3 DEF Mirror!Init

LEMMA StepMirrors == CanInv /\ [Next]_vars => [Mirror!Next]_(Mirror!vars)
<1>. SUFFICES ASSUME CanInv, [Next]_vars PROVE [Mirror!Next]_(Mirror!vars)
  OBVIOUS
<1>. DEFINE bus == [k \in DOMAIN underway |-> Content(underway[k])]
<1>1. /\ Offered = ToBeSent(active, tx[active]) /\ Seen = Received(active, latched[active])
      /\ bus = Copies(active, underway)
  BY Views
<1>2. /\ Offered' = ToBeSent(active', tx'[active'])
      /\ Seen' = Received(active', latched'[active'])
      /\ bus' = Copies(active', underway')
  BY ViewsPrime
<1>3. \A m, msg : DOMAIN ToBeSent(m, msg) = BodyOf(m)
  BY DEF ToBeSent
<1>4. underway \in Seq(Frames) /\ active \in Messages /\ DOMAIN latched = Messages
  BY DEF CanInv, TypeOK, Frames
<1>. HIDE DEF bus
<1>5. ASSUME NEW m \in Messages, NEW r, Set(m, r) PROVE Mirror!Offer
  BY <1>1, <1>2, <1>3, <1>5 DEF Set, Mirror!Offer, bus
<1>6. ASSUME NEW m \in Messages, PackTx(m) PROVE Mirror!Send
  <2>1. /\ m = active /\ active' = active /\ latched' = latched
        /\ underway' = Append(underway, [id |-> FrameId[m], bits |-> Pack(m, tx'[m])])
        /\ [id |-> FrameId[m], bits |-> Pack(m, tx'[m])] \in Frames
    BY <1>6, PackStep DEF PackTx, Frames
  <2>2. bus' = Append(bus, Offered)
    BY <1>1, <1>2, <1>4, <1>6, <2>1, CopiesOfMore, PackSends
  <2>3. Offered' = Offered /\ Seen' = Seen
    BY <1>1, <1>2, <1>6, <2>1, PackSends
  <2>. QED BY <2>2, <2>3 DEF Mirror!Send, bus
<1>7. ASSUME Deliver \/ DeliverTwice PROVE Mirror!See
  <2>1. /\ underway # <<>> /\ DecodeRx(Head(underway)) /\ active' = active /\ tx' = tx
        /\ underway' = Tail(underway) \/ underway' = underway
    BY <1>7 DEF Deliver, DeliverTwice
  <2>2. latched'[active] = Unpack(active, underway[1].bits)
    BY <1>4, <2>1, LatchStep
  <2>3. /\ bus # <<>> /\ Head(bus) = Received(active, Unpack(active, underway[1].bits))
        /\ Copies(active, Tail(underway)) = Tail(bus)
    BY <1>1, <1>4, <2>1, CopiesOfFewer
  <2>4. Seen' = Head(bus) /\ Offered' = Offered
    BY <1>1, <1>2, <2>1, <2>2, <2>3
  <2>5. bus' \in {bus, Tail(bus)}
    BY <1>1, <1>2, <2>1, <2>3
  <2>. QED BY <2>3, <2>4, <2>5 DEF Mirror!See, bus
<1>8. ASSUME Lose \/ CutShort PROVE Mirror!Lose
  <2>1. /\ underway # <<>> /\ underway' = Tail(underway)
        /\ active' = active /\ tx' = tx /\ latched' = latched
    BY <1>8 DEF Lose, CutShort, Skip, DecodeShort
  <2>2. bus # <<>> /\ bus' = Tail(bus) /\ Seen' = Seen /\ Offered' = Offered
    BY <1>1, <1>2, <1>4, <2>1, CopiesOfFewer
  <2>. QED BY <2>2 DEF Mirror!Lose, bus
<1>9. ASSUME UNCHANGED vars PROVE UNCHANGED Mirror!vars
  BY <1>1, <1>2, <1>9 DEF vars, Mirror!vars, bus
<1>10. CASE SetVcu \/ SetTelemetry
  BY <1>5, <1>10, EverySetter DEF Mirror!Next
<1>. QED BY <1>6, <1>7, <1>8, <1>9, <1>10 DEF Next, Mirror!Next

\* The receiver of a message holds one of the structs its sender packed, never a mixture
\* of two and never an older one after a newer one, whatever the bus does
\* (Can_ZF8HP.cpp:21-102, zf8hp_tcu.c:84-1381).
THEOREM MirrorsTheorem == Spec => Mirrors
BY InitMirrors, StepMirrors, CanInvariant, PTL DEF Spec, Mirrors, Mirror!Spec
===================================================================================
