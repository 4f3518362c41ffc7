------------------------------ MODULE SolenoidDriverProofs ------------------------------
(***************************************************************************)
(* For every calibration, every sequence of masks, every cadence and every *)
(* spacing of the Ticks less than a turn of the clock: what the chips hold *)
(* is what was commanded, transfer by transfer.                            *)
(*                                                                         *)
(* Three arguments.  The word: its fields lie side by side, so they come   *)
(* out as they went in, and its three bytes are its digits to base 256.    *)
(* The batch: transfer i is that of solenoid i - 1, each sets one word and *)
(* no other, so that those written and those to come are told apart by the *)
(* number left.  The clock: an age short of a turn is the difference of    *)
(* two readings, whatever they are.                                        *)
(***************************************************************************)
EXTENDS SolenoidDriver, FiniteSetTheorems, TLAPS

-------------------------------------------------------------------------------
(* Register and bytes                                                      *)

\* The powers of two of the shifts and masks.
LEMMA Powers ==
  /\ 2^0 = 1 /\ 2^1 = 2 /\ 2^2 = 4 /\ 2^7 = 128 /\ 2^8 = 256 /\ 2^14 = 16384
  /\ 2^16 = 65536 /\ 2^21 = 2097152 /\ 2^22 = 4194304 /\ 2^24 = 16777216
BY SMT

\* The values of the fields: seven bits, and the enable bit.
Code(v)   == v \in Nat /\ v < 128
Switch(e) == e \in {0, 1}

\* The fields of a configuration word lie side by side.
LEMMA Fields ==
  ASSUME NEW a, NEW b, NEW c, NEW e, Code(a), Code(b), Code(c), Switch(e),
         NEW word, word = a + b * 128 + c * 16384 + e * 2097152
  PROVE  /\ word \in Int /\ word >= 0 /\ word < 16777216
         /\ word % 128 = a /\ (word \div 128) % 128 = b /\ (word \div 2097152) % 2 = e
         /\ (word \div 4194304) % 4 = 0
BY SMT DEF Code, Switch

\* Fields of a word that do not overlap are read back as they were put.
LEMMA FieldsOfASum ==
  ASSUME NEW a, NEW b, NEW c, NEW e, Code(a), Code(b), Code(c), Switch(e),
         NEW word, word = a + b * 2^7 + c * 2^14 + e * 2^21
  PROVE  /\ word \in Register
         /\ Get(IHIT, word) = a /\ Get(IHOLD, word) = b
         /\ Get(ENABLE, word) = e /\ Get(TOPO, word) = 0
<1>0. word = a + b * 128 + c * 16384 + e * 2097152
  BY Powers, SMT DEF Code, Switch
<1>1. /\ word \in Int /\ word >= 0 /\ word < 2^24
      /\ word % 128 = a /\ (word \div 128) % 128 = b /\ (word \div 2^21) % 2 = e
      /\ (word \div 2^22) % 4 = 0
  BY <1>0, Fields, Powers, SMT
<1>6. word \div 1 = word
  BY <1>1, SMT
<1>7. word \in Register
  BY <1>1, Powers, SMT DEF Register
<1>8. Get(IHIT, word) = a
  BY <1>1, <1>6, Powers, SMT DEF Get, Bits, IHIT
<1>9. Get(IHOLD, word) = b
  BY <1>1, Powers, SMT DEF Get, Bits, IHOLD
<1>10. Get(ENABLE, word) = e
  BY <1>1, Powers, SMT DEF Get, Bits, ENABLE
<1>11. Get(TOPO, word) = 0
  BY <1>1, Powers, SMT DEF Get, Bits, TOPO
<1>. QED BY <1>7, <1>8, <1>9, <1>10, <1>11

\* A value that fits into its field is put there whole.
LEMMA PutFields ==
  ASSUME NEW v, NEW e, Code(v), Switch(e)
  PROVE  /\ Put(IHIT, v) = v /\ Put(IHOLD, v) = v * 2^7 /\ Put(THIT, v) = v * 2^14
         /\ Put(ENABLE, e) = e * 2^21 /\ Put(TOPO, LowSide) = 0
<1>1. Put(IHIT, v) = v
  BY Powers, SMT DEF Code, Switch, Put, IHIT
<1>2. Put(IHOLD, v) = v * 2^7 /\ Put(THIT, v) = v * 2^14
  BY Powers, SMT DEF Code, Switch, Put, IHOLD, THIT
<1>3. Put(ENABLE, e) = e * 2^21
  BY Powers, SMT DEF Code, Switch, Put, ENABLE
<1>4. Put(TOPO, LowSide) = 0
  BY Powers, SMT DEF Code, Switch, Put, TOPO, LowSide
<1>. QED BY <1>1, <1>2, <1>3, <1>4

\* The code of a current fits in its seven bits.
LEMMA CodeTypes ==
  ASSUME NEW ma \in Nat
  PROVE  Code(MaToCode(ma))
BY DEF Code, MaToCode, kIRangeMa, kIDacSteps

\* The code of a time fits in its seven bits.
LEMMA HitCodeType ==
  ASSUME NEW ms \in Nat
  PROVE  Code(MsToHitCode(ms))
BY DEF Code, MsToHitCode, kTHitFullMs, kTHitDacSteps

\* The converter rounds down, by less than a step and what the division drops.
LEMMA CodeIsClose ==
  ASSUME NEW ma \in Nat
  PROVE  ma - CodeToMa(MaToCode(ma)) \in 0..8 \/ ma > kIRangeMa
<1>. SUFFICES ASSUME ma <= 1000 PROVE ma - CodeToMa(MaToCode(ma)) \in 0..8
  BY DEF kIRangeMa
<1>1. CASE ma = 1000
  BY <1>1 DEF CodeToMa, MaToCode, kIRangeMa, kIDacSteps
<1>2. CASE ma < 1000
  <2>. DEFINE code == (ma * 127) \div 1000
  <2>1. MaToCode(ma) = code /\ CodeToMa(code) = (code * 1000) \div 127
    BY <1>2 DEF MaToCode, CodeToMa, kIRangeMa, kIDacSteps
  <2>2. code \in 0..127 /\ 1000 * code <= 127 * ma /\ 127 * ma < 1000 * code + 1000
    BY <1>2
  <2>. HIDE DEF code
  <2>3. ma - (code * 1000) \div 127 \in 0..8
    BY <2>2, <1>2
  <2>. QED BY <2>1, <2>3
<1>. QED BY <1>1, <1>2

\* A write frame carries its value whole.
LEMMA FrameCarriesWord ==
  ASSUME NEW addr \in 0..127, NEW value \in Register
  PROVE  /\ BuildWrite(addr, value)[1] = 2 * addr
         /\ \A k \in 1..4 : BuildWrite(addr, value)[k] \in 0..255
         /\ DecodeReadResponse(BuildWrite(addr, value)) = value
<1>. DEFINE x == (value \div 65536) % 256  y == (value \div 256) % 256  z == value % 256
<1>1. Bits(value, 16, 8) = x /\ Bits(value, 8, 8) = y
  BY Powers, SMT DEF Bits
<1>2. Bits(value, 0, 8) = z
  <2>1. value \div 1 = value
    BY SMT DEF Register
  <2>. QED BY <2>1, Powers, SMT DEF Bits
<1>3. BuildWrite(addr, value) = <<2 * addr, x, y, z>>
  BY <1>1, <1>2 DEF BuildWrite, CMD_WRITE_BIT
<1>4. x \in 0..255 /\ y \in 0..255 /\ z \in 0..255 /\ x * 65536 + y * 256 + z = value
  BY Powers, SMT DEF Register
<1>. HIDE DEF x, y, z
<1>5. /\ BuildWrite(addr, value)[1] = 2 * addr /\ BuildWrite(addr, value)[2] = x
      /\ BuildWrite(addr, value)[3] = y /\ BuildWrite(addr, value)[4] = z
  BY <1>3, SMT
<1>6. DecodeReadResponse(BuildWrite(addr, value)) = value
  BY <1>4, <1>5, Powers, SMT DEF DecodeReadResponse
<1>7. \A k \in 1..4 : BuildWrite(addr, value)[k] \in 0..255
  <2>. DEFINE B(k) == BuildWrite(addr, value)[k]
  <2>1. B(1) \in 0..255 /\ B(2) \in 0..255 /\ B(3) \in 0..255 /\ B(4) \in 0..255
    BY <1>4, <1>5, SMT
  <2>. HIDE DEF B
  <2>2. \A k \in 1..4 : B(k) \in 0..255
    BY <2>1, SMT
  <2>. QED BY <2>2 DEF B
<1>. QED BY <1>5, <1>6, <1>7

-------------------------------------------------------------------------------
(* Solenoids and their channels                                            *)

\* The table of solenoids, entry by entry.
LEMMA BindingFacts ==
  /\ Solenoid = 0..8
  /\ \A s \in 0..6 : kSolenoidBinding[s] = Bound(0, s, 30)
  /\ kSolenoidBinding[7] = Bound(1, 0, 100) /\ kSolenoidBinding[8] = Bound(1, 1, 200)
<1>1. DOMAIN kSolenoidBinding = 0..8
  BY DEF kSolenoidBinding
<1>2. \A s \in 0..6 : kSolenoidBinding[s] = Bound(0, s, 30)
  BY DEF kSolenoidBinding
<1>3. kSolenoidBinding[7] = Bound(1, 0, 100)
  BY DEF kSolenoidBinding
<1>4. kSolenoidBinding[8] = Bound(1, 1, 200)
  BY DEF kSolenoidBinding
<1>. QED BY <1>1, <1>2, <1>3, <1>4 DEF Solenoid

\* Where a solenoid is: the first seven on the first chip, the two of the park lock on
\* the second.
LEMMA BindingType ==
  ASSUME NEW s \in Solenoid
  PROVE  /\ kSolenoidBinding[s].chip_index = (IF s <= 6 THEN 0 ELSE 1)
         /\ kSolenoidBinding[s].channel = (IF s <= 6 THEN s ELSE s - 7)
         /\ kSolenoidBinding[s].hit_ms \in Nat
         /\ kSolenoidBinding[s].topology = LowSide
<1>1. CASE s \in 0..6
  BY <1>1, BindingFacts DEF Bound
<1>2. CASE s = 7
  BY <1>2, BindingFacts DEF Bound
<1>3. CASE s = 8
  BY <1>3, BindingFacts DEF Bound
<1>. QED BY <1>1, <1>2, <1>3, BindingFacts

\* Whatever the calibrated currents, the word a batch writes for a solenoid switches it on
\* at its currents less at most one step of the converter, or off with no current set, as
\* the mask says (solenoids.cpp:19-34, max22200_regs.h:119-137).
THEOREM WordDoes ==
  ASSUME NEW s \in Solenoid, NEW mask, NEW word, word = EncodeChannelCfg(Command(s, mask))
  PROVE  /\ word \in Register
         /\ IsOn(word) <=> s \in mask
         /\ s \in mask => Drives(word, s)
         /\ s \notin mask => IsOff(word)
<1>. DEFINE hit  == IF s \in mask THEN hit_ma[s] ELSE 0
            hold == IF s \in mask THEN hold_ma[s] ELSE 0
            ms   == kSolenoidBinding[s].hit_ms
            e    == IF s \in mask THEN 1 ELSE 0
<1>1. word = Put(IHIT, MaToCode(hit)) + Put(IHOLD, MaToCode(hold))
               + Put(THIT, MsToHitCode(ms)) + Put(TOPO, LowSide) + Put(ENABLE, e)
  <2>. DEFINE cmd == Command(s, mask)
  <2>1. /\ cmd.i_hit_ma = hit /\ cmd.i_hold_ma = hold /\ cmd.t_hit_ms = ms
        /\ cmd.topology = LowSide
    BY BindingType DEF Command
  <2>2. (IF cmd.enable THEN 1 ELSE 0) = e
    BY DEF Command
  <2>3. word = Put(IHIT, MaToCode(cmd.i_hit_ma)) + Put(IHOLD, MaToCode(cmd.i_hold_ma))
                 + Put(THIT, MsToHitCode(cmd.t_hit_ms)) + Put(TOPO, cmd.topology)
                 + Put(ENABLE, IF cmd.enable THEN 1 ELSE 0)
    BY DEF EncodeChannelCfg
  <2>. HIDE DEF cmd, hit, hold, ms, e
  <2>. QED BY <2>1, <2>2, <2>3, Zenon
<1>2. hit \in Nat /\ hold \in Nat /\ ms \in Nat /\ Switch(e)
  <2>1. 2^16 - 1 \in Int
    BY Powers, SMT
  <2>2. hit_ma[s] \in Nat /\ hold_ma[s] \in Nat
    <3>1. hit_ma \in [0..8 -> 0..(2^16 - 1)] /\ hold_ma \in [0..8 -> 0..(2^16 - 1)]
      BY InputAssumption, Zenon
    <3>2. hit_ma[s] \in 0..(2^16 - 1) /\ hold_ma[s] \in 0..(2^16 - 1)
      BY <3>1, BindingFacts, Zenon
    <3>. QED BY <2>1, <3>2
  <2>. QED BY <2>2, BindingType DEF Switch
<1>. DEFINE a == MaToCode(hit)  b == MaToCode(hold)  c == MsToHitCode(ms)
<1>3. Code(a) /\ Code(b) /\ Code(c)
  <2>. HIDE DEF hit, hold, ms
  <2>. QED BY <1>2, CodeTypes, HitCodeType
<1>4. word = a + b * 2^7 + c * 2^14 + e * 2^21
  <2>. HIDE DEF a, b, c, e
  <2>1. /\ Put(IHIT, a) = a /\ Put(IHOLD, b) = b * 2^7 /\ Put(THIT, c) = c * 2^14
        /\ Put(TOPO, LowSide) = 0 /\ Put(ENABLE, e) = e * 2^21
    BY <1>2, <1>3, PutFields, Zenon
  <2>2. word = Put(IHIT, a) + Put(IHOLD, b) + Put(THIT, c) + Put(TOPO, LowSide) + Put(ENABLE, e)
    BY <1>1 DEF a, b, c
  <2>3. word = a + b * 2^7 + c * 2^14 + 0 + e * 2^21
    BY <2>1, <2>2, Zenon
  <2>. QED BY <2>3, <1>2, <1>3, Powers, SMT DEF Code, Switch
<1>5. /\ word \in Register
      /\ Get(IHIT, word) = a /\ Get(IHOLD, word) = b
      /\ Get(ENABLE, word) = e /\ Get(TOPO, word) = LowSide
  <2>. HIDE DEF a, b, c, e
  <2>. QED BY <1>2, <1>3, <1>4, FieldsOfASum DEF LowSide
<1>6. IsOn(word) <=> s \in mask
  BY <1>5 DEF IsOn
<1>7. ASSUME s \in mask PROVE Drives(word, s)
  <2>1. hit = hit_ma[s] /\ hold = hold_ma[s]
    BY <1>7
  <2>2. hit - CodeToMa(a) \in 0..8 \/ hit > kIRangeMa
    <3>. HIDE DEF hit
    <3>. QED BY <1>2, CodeIsClose
  <2>3. hold - CodeToMa(b) \in 0..8 \/ hold > kIRangeMa
    <3>. HIDE DEF hold
    <3>. QED BY <1>2, CodeIsClose
  <2>. HIDE DEF a, b, hit, hold
  <2>. QED BY <1>5, <1>6, <1>7, <2>1, <2>2, <2>3 DEF Drives
<1>8. ASSUME s \notin mask PROVE IsOff(word)
  <2>1. a = 0 /\ b = 0
    BY <1>8 DEF MaToCode, kIRangeMa, kIDacSteps
  <2>. HIDE DEF a, b
  <2>. QED BY <1>5, <1>6, <1>8, <2>1 DEF IsOff
<1>. QED BY <1>5, <1>6, <1>7, <1>8

\* The word the chips wake up with switches nothing on.
LEMMA ZeroIsOff == IsOff(0) /\ ~IsOn(0)
<1>1. Get(IHIT, 0) = 0 /\ Get(IHOLD, 0) = 0 /\ Get(ENABLE, 0) = 0
  BY Powers, SMT DEF Get, Bits, IHIT, IHOLD, ENABLE
<1>. QED BY <1>1 DEF IsOff, IsOn

-------------------------------------------------------------------------------
(* The order of a batch                                                    *)

\* The solenoids of a chip are consecutive.
LEMMA SolenoidsOfChips ==
  /\ SolenoidsOf[0] = [i \in 1..7 |-> i - 1]
  /\ SolenoidsOf[1] = [i \in 1..2 |-> i + 6]
<1>. DEFINE own(chip) == {s \in Solenoid : kSolenoidBinding[s].chip_index = chip}
            Ith(S, i) == CHOOSE s \in S : Cardinality({t \in S : t < s}) = i - 1
            Listed(S) == [i \in 1..Cardinality(S) |-> Ith(S, i)]
<1>1. own(0) = 0..6 /\ own(1) = 7..8
  BY BindingType, BindingFacts
<1>2. \A chip \in 0..1 : SolenoidsOf[chip] = Listed(own(chip))
  BY DEF SolenoidsOf, Chips
<1>3. ASSUME NEW a \in Int, NEW b \in Int, a <= b
      PROVE  Listed(a..b) = [i \in 1..(b - a + 1) |-> a + i - 1]
  <2>1. Cardinality(a..b) = b - a + 1
    BY <1>3, FS_Interval
  <2>2. ASSUME NEW s \in a..b PROVE Cardinality({t \in a..b : t < s}) = s - a
    <3>1. {t \in a..b : t < s} = a..(s - 1)
      OBVIOUS
    <3>2. s - 1 \in Int
      OBVIOUS
    <3>3. Cardinality(a..(s - 1)) = IF a > s - 1 THEN 0 ELSE (s - 1) - a + 1
      BY <3>2, FS_Interval, Zenon
    <3>4. (IF a > s - 1 THEN 0 ELSE (s - 1) - a + 1) = s - a
      OBVIOUS
    <3>. QED BY <3>1, <3>3, <3>4, Zenon
  <2>3. ASSUME NEW i \in 1..(b - a + 1) PROVE Ith(a..b, i) = a + i - 1
    <3>1. \A s \in a..b : Cardinality({t \in a..b : t < s}) = i - 1 <=> s = a + i - 1
      BY <2>2
    <3>2. a + i - 1 \in a..b
      OBVIOUS
    <3>. QED BY <3>1, <3>2
  <2>. HIDE DEF Ith
  <2>. QED BY <2>1, <2>3
<1>. HIDE DEF own, Listed
<1>4. Listed(0..6) = [i \in 1..(6 - 0 + 1) |-> 0 + i - 1]
  <2>1. 0 \in Int /\ 6 \in Int /\ 0 <= 6
    OBVIOUS
  <2>. QED BY <1>3, <2>1, Zenon
<1>5. Listed(7..8) = [i \in 1..(8 - 7 + 1) |-> 7 + i - 1]
  <2>1. 7 \in Int /\ 8 \in Int /\ 7 <= 8
    OBVIOUS
  <2>. QED BY <1>3, <2>1, Zenon
<1>6. SolenoidsOf[0] = [i \in 1..(6 - 0 + 1) |-> 0 + i - 1]
  BY <1>1, <1>2, <1>4
<1>7. SolenoidsOf[1] = [i \in 1..(8 - 7 + 1) |-> 7 + i - 1]
  BY <1>1, <1>2, <1>5
<1>. QED BY <1>6, <1>7

\* Every transfer is one of four bytes to one of the chips.
LEMMA FrameOfType ==
  ASSUME NEW s \in Solenoid, NEW mask
  PROVE  FrameOf(s, mask) \in Transfer
<1>. DEFINE c == kSolenoidBinding[s].chip_index
            k == kSolenoidBinding[s].channel
            word == EncodeChannelCfg(Command(s, mask))
            bytes == BuildWrite(Cfg_Ch0 + k, word)
<1>1. FrameOf(s, mask) = [chip |-> c, bytes |-> bytes]
  BY DEF FrameOf, BuildConfigWrite, Command
<1>2. word \in Register
  BY WordDoes, Zenon
<1>3. c \in Chips /\ Cfg_Ch0 + k \in 0..127
  BY BindingType, BindingFacts DEF Chips, Cfg_Ch0
<1>. HIDE DEF word, k
<1>4. \A i \in 1..4 : bytes[i] \in 0..255
  BY <1>2, <1>3, FrameCarriesWord, Zenon
<1>5. bytes = [i \in 1..4 |-> bytes[i]]
  BY DEF BuildWrite
<1>. HIDE DEF bytes, c
<1>6. bytes \in [1..4 -> 0..255]
  BY <1>4, <1>5
<1>. QED BY <1>1, <1>3, <1>6 DEF Transfer

\* A batch has one transfer for each solenoid, in their order.
LEMMA BatchOrder ==
  ASSUME NEW mask
  PROVE  /\ Batch(mask) \in Seq(Transfer)
         /\ Len(Batch(mask)) = 9
         /\ \A i \in 1..9 : Batch(mask)[i] = FrameOf(i - 1, mask)
<1>. DEFINE F(s) == FrameOf(s, mask)
            first == [i \in 1..7 |-> F(i - 1)]
            second == [i \in 1..2 |-> F(i + 6)]
<1>1. BuildFramesForChipMask(0, mask) = first /\ BuildFramesForChipMask(1, mask) = second
  BY SolenoidsOfChips DEF BuildFramesForChipMask
<1>2. Batch(mask) = first \o second
  BY <1>1 DEF Batch
<1>3. \A s \in 0..8 : F(s) \in Transfer
  BY FrameOfType, BindingFacts
<1>4. first \in Seq(Transfer) /\ Len(first) = 7 /\ second \in Seq(Transfer) /\ Len(second) = 2
  <2>. HIDE DEF F
  <2>. QED BY <1>3
<1>. QED BY <1>2, <1>4

\* There are nine solenoids.
LEMMA NineSolenoids == Cardinality(Solenoid) = 9
<1>1. 0 \in Int /\ 8 \in Int /\ ~(0 > 8) /\ 8 - 0 + 1 = 9
  OBVIOUS
<1>. QED BY <1>1, BindingFacts, FS_Interval, Zenon

-------------------------------------------------------------------------------
(* One transfer                                                            *)

\* Writing the frame of a solenoid sets its word, and no other.
LEMMA WriteSets ==
  ASSUME cfg \in [Chips -> [Channels -> Register]],
         NEW s \in Solenoid, NEW mask,
         WriteRegister(FrameOf(s, mask).chip, FrameOf(s, mask).bytes)
  PROVE  /\ cfg' \in [Chips -> [Channels -> Register]]
         /\ HoldsFor(s, mask)'
         /\ \A t \in Solenoid \ {s} : Word(t)' = Word(t)
         /\ \A chip \in Chips, ch \in Channels :
              cfg'[chip][ch] # cfg[chip][ch] =>
                kSolenoidBinding[s].chip_index = chip /\ kSolenoidBinding[s].channel = ch
<1>. DEFINE c == kSolenoidBinding[s].chip_index
            k == kSolenoidBinding[s].channel
            word == EncodeChannelCfg(Command(s, mask))
            bytes == BuildWrite(Cfg_Ch0 + k, word)
<1>1. FrameOf(s, mask).chip = c /\ FrameOf(s, mask).bytes = bytes
  BY DEF FrameOf, BuildConfigWrite, Command
<1>2. word \in Register
  BY WordDoes, Zenon
<1>3. c \in Chips /\ k \in Channels /\ Cfg_Ch0 + k \in 0..127
  BY BindingType, BindingFacts DEF Chips, Channels, Cfg_Ch0
<1>4. bytes[1] = 2 * (Cfg_Ch0 + k) /\ DecodeReadResponse(bytes) = word
  BY <1>2, <1>3, FrameCarriesWord, Zenon
<1>5. cfg' = [cfg EXCEPT ![c] = [ch \in Channels |->
                IF bytes[1] = CMD_WRITE_BIT + 2 * (Cfg_Ch0 + ch)
                THEN DecodeReadResponse(bytes) ELSE cfg[c][ch]]]
  BY <1>1 DEF WriteRegister
<1>. HIDE DEF c, k, word, bytes
<1>6. \A ch \in Channels : bytes[1] = CMD_WRITE_BIT + 2 * (Cfg_Ch0 + ch) <=> ch = k
  BY <1>3, <1>4 DEF Channels, Cfg_Ch0, CMD_WRITE_BIT
<1>7. cfg' = [cfg EXCEPT ![c] = [ch \in Channels |-> IF ch = k THEN word ELSE cfg[c][ch]]]
  BY <1>4, <1>5, <1>6
<1>8. cfg' \in [Chips -> [Channels -> Register]]
  BY <1>2, <1>3, <1>7
<1>9. cfg'[c][k] = word
  BY <1>3, <1>7
<1>10. \A chip \in Chips, ch \in Channels : cfg'[chip][ch] # cfg[chip][ch] => c = chip /\ k = ch
  BY <1>3, <1>7
<1>11. HoldsFor(s, mask)'
  BY <1>9 DEF HoldsFor, Word, c, k, word
<1>12. ASSUME NEW t \in Solenoid \ {s} PROVE Word(t)' = Word(t)
  <2>1. ~(kSolenoidBinding[t].chip_index = c /\ kSolenoidBinding[t].channel = k)
    BY BindingType, BindingFacts DEF c, k
  <2>2. kSolenoidBinding[t].chip_index \in Chips /\ kSolenoidBinding[t].channel \in Channels
    BY BindingType, BindingFacts DEF Chips, Channels
  <2>. QED BY <1>10, <2>1, <2>2 DEF Word
<1>. QED BY <1>8, <1>10, <1>11, <1>12 DEF c, k

-------------------------------------------------------------------------------
(* Time                                                                    *)

\* The remainder is the only number of its class in its range.
LEMMA ModUnique ==
  ASSUME NEW n \in Nat \ {0}, NEW r \in 0..(n - 1)
  PROVE  r % n = r /\ (r - n) % n = r /\ (r + n) % n = r
OBVIOUS

\* The remainder is in its range.
LEMMA ModRange ==
  ASSUME NEW n \in Nat \ {0}, NEW a \in Int
  PROVE  a % n \in 0..(n - 1)
OBVIOUS

\* The difference of two readings of the clock is the remainder, or a turn less.
LEMMA Difference ==
  ASSUME NEW n \in Nat \ {0}, NEW now \in 0..(n - 1), NEW last \in 0..(n - 1)
  PROVE  now - last = (now - last) % n \/ now - last = ((now - last) % n) - n
<1>1. CASE now >= last
  <2>1. now - last \in 0..(n - 1)
    BY <1>1
  <2>. QED BY <2>1, ModUnique
<1>2. CASE now < last
  <2>1. now - last + n \in 0..(n - 1)
    BY <1>2
  <2>2. ((now - last + n) - n) % n = now - last + n
    BY <2>1, ModUnique
  <2>3. (now - last + n) - n = now - last
    OBVIOUS
  <2>. QED BY <2>2, <2>3
<1>. QED BY <1>1, <1>2

\* A difference that does not reach a whole turn grows with the clock.
LEMMA DifferenceGrows ==
  ASSUME NEW n \in Nat \ {0}, NEW now \in 0..(n - 1), NEW last \in 0..(n - 1),
         NEW dt \in Nat, ((now - last) % n) + dt < n
  PROVE  (((now + dt) % n) - last) % n = ((now - last) % n) + dt
<1>. DEFINE d == (now - last) % n
<1>1. d \in 0..(n - 1)
  BY ModRange
<1>2. now - last = d \/ now - last = d - n
  BY Difference
<1>3. d + dt \in 0..(n - 1)
  BY <1>1
<1>4. dt < n
  BY <1>1
<1>5. (now + dt) % n = now + dt \/ (now + dt) % n = now + dt - n
  <2>1. CASE now + dt < n
    <3>1. now + dt \in 0..(n - 1)
      BY <2>1
    <3>. QED BY <3>1, ModUnique
  <2>2. CASE now + dt >= n
    <3>1. now + dt - n \in 0..(n - 1)
      BY <2>2, <1>4
    <3>2. (now + dt - n + n) % n = now + dt - n
      BY <3>1, ModUnique
    <3>3. now + dt - n + n = now + dt
      OBVIOUS
    <3>. QED BY <3>2, <3>3
  <2>. QED BY <2>1, <2>2
<1>. DEFINE e == (now + dt) % n
<1>6. e \in 0..(n - 1)
  BY ModRange
<1>. HIDE DEF d, e
<1>7. e - last = d + dt \/ e - last = d + dt - n
  BY <1>1, <1>2, <1>3, <1>5, <1>6 DEF e
<1>. DEFINE r == d + dt
<1>8. r \in 0..(n - 1) /\ (e - last = r \/ e - last = r - n)
  BY <1>1, <1>3, <1>6, <1>7
<1>. HIDE DEF r
<1>9. (e - last) % n = r
  BY <1>8, ModUnique
<1>. QED BY <1>9 DEF d, e, r

-------------------------------------------------------------------------------
(* The invariant                                                           *)

\* What the parts of the constants' assumptions amount to.
LEMMA Constants ==
  /\ TimeRange \in Nat \ {0} /\ MaxAge \in Nat
  /\ kSolenoidLoopMs \in 1..MaxAge /\ kFaultPollMs \in 1..MaxAge
  /\ kSolenoidLoopMs < TimeRange /\ kFaultPollMs < TimeRange
  /\ Never \in 0..(TimeRange - 1)
  /\ \A dt \in Deltas : dt \in Nat /\ dt + kSolenoidLoopMs <= TimeRange
                                 /\ dt + kFaultPollMs <= TimeRange
BY TimeAssumption DEF MaxAge, Never

\* The numbers of TypeOK one by one: provers cope with them better than with sets.
LEMMA TypeFacts ==
  ASSUME TypeOK
  PROVE  /\ now_ms \in 0..(TimeRange - 1)
         /\ last_solenoid_loop_ms \in 0..(TimeRange - 1)
         /\ last_fault_poll_ms \in 0..(TimeRange - 1)
         /\ cfg \in [Chips -> [Channels -> Register]]
         /\ frames \in Seq(Transfer)
         /\ since_batch \in 0..MaxAge /\ since_poll \in 0..MaxAge
<1>1. /\ now_ms \in 0..(TimeRange - 1)
      /\ last_solenoid_loop_ms \in 0..(TimeRange - 1)
      /\ last_fault_poll_ms \in 0..(TimeRange - 1)
      /\ since_batch \in 0..MaxAge /\ since_poll \in 0..MaxAge
  BY DEF TypeOK
<1>2. cfg \in [Chips -> [Channels -> Register]]
  BY DEF TypeOK
<1>3. frames \in Seq(Transfer)
  BY DEF TypeOK
<1>. QED BY <1>1, <1>2, <1>3

\* What the chips drive follows from the words they hold.
LEMMA OrderGivesState ==
  TypeOK /\ BatchInOrder => ChipsHoldTheBatch /\ NothingInBetween
<1>. SUFFICES ASSUME TypeOK, BatchInOrder PROVE ChipsHoldTheBatch /\ NothingInBetween
  OBVIOUS
<1>1. ASSUME NEW s \in Solenoid, NEW mask, HoldsFor(s, mask)
      PROVE  /\ IsOn(Word(s)) <=> s \in mask
             /\ s \in mask => Drives(Word(s), s)
             /\ s \notin mask => IsOff(Word(s))
  BY <1>1, WordDoes DEF HoldsFor
<1>2. ASSUME NEW s \in Solenoid, LeftAlone(s)
      PROVE  /\ IsOn(Word(s)) => s \in written_mask
             /\ s \in written_mask => Drives(Word(s), s)
             /\ s \notin written_mask => IsOff(Word(s))
  <2>1. CASE HoldsFor(s, written_mask)
    BY <1>1, <2>1
  <2>2. CASE written_mask = {} /\ Word(s) = 0
    BY <2>2, ZeroIsOff
  <2>. QED BY <1>2, <2>1, <2>2 DEF LeftAlone
<1>3. ChipsHoldTheBatch
  BY <1>2 DEF BatchInOrder, ChipsHoldTheBatch
<1>4. NothingInBetween
  BY <1>1, <1>2 DEF BatchInOrder, NothingInBetween
<1>. QED BY <1>3, <1>4

\* The invariant holds at the start.
LEMMA InitInv == Init => DriverInv
<1>. SUFFICES ASSUME Init PROVE DriverInv
  OBVIOUS
<1>1. TypeOK
  <2>1. 0 \in Register
    BY Powers, SMT DEF Register
  <2>2. cfg \in [Chips -> [Channels -> Register]]
    BY <2>1 DEF Init
  <2>3. {now_ms, last_solenoid_loop_ms, last_fault_poll_ms} \subseteq 0..(TimeRange - 1)
    BY Constants DEF Init
  <2>4. {since_batch, since_poll} \subseteq 0..MaxAge
    BY Constants DEF Init
  <2>5. /\ pc \in {"boot", "sleep", "solenoids", "write", "faults", "second"}
        /\ engagement_mask \in Masks \cup {{}} /\ written_mask \in Masks \cup {{}}
        /\ frames \in Seq(Transfer)
        /\ chip0 \subseteq 0..23 /\ fault_bits \subseteq Kinds
        /\ raised \subseteq Chips \X Channels \X Kinds
    BY DEF Init
  <2>. QED BY <2>2, <2>3, <2>4, <2>5 DEF TypeOK
<1>2. \A chip \in Chips, ch \in Channels : cfg[chip][ch] = 0
  BY DEF Init
<1>3. OthersStayUnset
  BY <1>2 DEF OthersStayUnset
<1>4. \A s \in Solenoid : Word(s) = 0
  BY <1>2, BindingType, BindingFacts DEF Word, Chips, Channels
<1>5. BatchInOrder
  BY <1>4 DEF Init, BatchInOrder, LeftAlone
<1>6. AgesAreTrue /\ NoLoopStarves
  BY DEF Init, AgesAreTrue, IsAge, NoLoopStarves
<1>. QED BY <1>1, <1>3, <1>5, <1>6, OrderGivesState DEF DriverInv

\* A loop that is not due has run less than its cadence ago.
LEMMA NotDue ==
  ASSUME TypeOK, NEW since \in 0..MaxAge, NEW last \in 0..(TimeRange - 1), NEW k \in 1..MaxAge,
         IsAge(since, last), ~due(last, k)
  PROVE  since < k
<1>1. last # Never /\ ~((now_ms - last) % TimeRange >= k)
  BY DEF due
<1>2. (now_ms - last) % TimeRange \in 0..(TimeRange - 1)
  <2>1. now_ms - last \in Int
    BY TypeFacts, Constants
  <2>. QED BY <2>1, ModRange, Constants, Zenon
<1>. QED BY <1>1, <1>2, Constants DEF IsAge, Least

\* The age of a loop that is not overdue stays readable off the clock across a Tick.
LEMMA AgeGrows ==
  ASSUME TypeOK, NEW dt \in Nat, NEW k \in 1..MaxAge, dt + k <= TimeRange,
         NEW since \in 0..MaxAge, NEW last \in 0..(TimeRange - 1),
         IsAge(since, last), since < k, now_ms' = (now_ms + dt) % TimeRange
  PROVE  last = Never \/ Later(since, dt) = Least((now_ms' - last) % TimeRange, MaxAge)
<1>. SUFFICES ASSUME last # Never
              PROVE  Later(since, dt) = Least((now_ms' - last) % TimeRange, MaxAge)
  OBVIOUS
<1>. DEFINE d == (now_ms - last) % TimeRange
<1>1. d \in 0..(TimeRange - 1)
  <2>1. now_ms - last \in Int
    BY TypeFacts, Constants
  <2>. QED BY <2>1, ModRange, Constants, Zenon
<1>2. since = d
  BY <1>1, Constants DEF IsAge, Least
<1>3. d + dt < TimeRange
  BY <1>1, <1>2, Constants
<1>4. (now_ms' - last) % TimeRange = d + dt
  <2>. HIDE DEF d
  <2>1. (((now_ms + dt) % TimeRange) - last) % TimeRange = ((now_ms - last) % TimeRange) + dt
    BY <1>3, DifferenceGrows, Constants, TypeFacts DEF d
  <2>. QED BY <2>1 DEF d
<1>. QED BY <1>2, <1>4 DEF Later

-------------------------------------------------------------------------------
(* The steps                                                               *)

\* What the parts that do not look at the chips need of a step that leaves the chips,
\* the transfers and the masks alone.
LEMMA ChipsAlone ==
  ASSUME BatchInOrder, OthersStayUnset, UNCHANGED <<cfg, frames, written_mask>>,
         pc # "write", pc' # "write"
  PROVE  BatchInOrder' /\ OthersStayUnset'
<1>1. \A s \in Solenoid : LeftAlone(s) => LeftAlone(s)'
  BY DEF LeftAlone, HoldsFor, Word
<1>2. BatchInOrder'
  BY <1>1 DEF BatchInOrder
<1>. QED BY <1>2 DEF OthersStayUnset

\* A Tick: the clock goes on, across its wrap.
LEMMA BeginTickStep ==
  ASSUME DriverInv, NEW dt \in Deltas, NEW mask \in Masks, BeginTick(dt, mask)
  PROVE  TypeOK' /\ BatchInOrder' /\ OthersStayUnset' /\ AgesAreTrue' /\ NoLoopStarves'
<1>. TypeOK /\ AgesAreTrue /\ NoLoopStarves
  BY DEF DriverInv
<1>1. now_ms' \in 0..(TimeRange - 1)
  <2>1. now_ms + dt \in Int
    BY TypeFacts, Constants
  <2>2. (now_ms + dt) % TimeRange \in 0..(TimeRange - 1)
    BY <2>1, ModRange, Constants, Zenon
  <2>. QED BY <2>2 DEF BeginTick
<1>2. since_batch' \in 0..MaxAge /\ since_poll' \in 0..MaxAge
  <2>1. ASSUME NEW a \in 0..MaxAge PROVE Later(a, dt) \in 0..MaxAge
    BY Constants DEF Later, Least
  <2>2. since_batch' = Later(since_batch, dt) /\ since_poll' = Later(since_poll, dt)
    BY DEF BeginTick
  <2>. QED BY <2>1, <2>2, TypeFacts
<1>3. TypeOK'
  BY <1>1, <1>2 DEF BeginTick, TypeOK, chipVars
<1>4. BatchInOrder' /\ OthersStayUnset'
  BY ChipsAlone DEF BeginTick, chipVars, DriverInv
<1>5. AgesAreTrue'
  <2>1. CASE pc = "boot"
    <3>1. last_solenoid_loop_ms' = Never /\ last_fault_poll_ms' = Never /\ pc' = "solenoids"
      BY <2>1 DEF BeginTick, AgesAreTrue
    <3>2. Never' = Never
      BY DEF Never
    <3>. QED BY <3>1, <3>2 DEF AgesAreTrue, IsAge
  <2>2. CASE pc = "sleep"
    <3>1. since_batch < kSolenoidLoopMs /\ since_poll < kFaultPollMs
      BY <2>2 DEF NoLoopStarves
    <3>2. IsAge(since_batch, last_solenoid_loop_ms)'
      <4>1. last_solenoid_loop_ms = Never
              \/ Later(since_batch, dt)
                   = Least((now_ms' - last_solenoid_loop_ms) % TimeRange, MaxAge)
        BY <3>1, AgeGrows, TypeFacts, Constants DEF BeginTick, AgesAreTrue
      <4>. QED BY <4>1 DEF BeginTick, IsAge
    <3>3. IsAge(since_poll, last_fault_poll_ms)'
      <4>1. last_fault_poll_ms = Never
              \/ Later(since_poll, dt) = Least((now_ms' - last_fault_poll_ms) % TimeRange, MaxAge)
        BY <3>1, AgeGrows, TypeFacts, Constants DEF BeginTick, AgesAreTrue
      <4>. QED BY <4>1 DEF BeginTick, IsAge
    <3>. QED BY <3>2, <3>3 DEF AgesAreTrue, BeginTick
  <2>. QED BY <2>1, <2>2 DEF BeginTick
<1>6. NoLoopStarves'
  BY DEF BeginTick, NoLoopStarves
<1>. QED BY <1>3, <1>4, <1>5, <1>6

\* A batch that is due is laid out.
LEMMA BeginBatchStep ==
  ASSUME DriverInv, BeginBatch
  PROVE  TypeOK' /\ BatchInOrder' /\ OthersStayUnset' /\ AgesAreTrue' /\ NoLoopStarves'
<1>. TypeOK /\ AgesAreTrue /\ BatchInOrder /\ OthersStayUnset
  BY DEF DriverInv
<1>1. /\ frames' \in Seq(Transfer) /\ Len(frames') = 9
      /\ \A i \in 1..9 : frames'[i] = FrameOf(i - 1, engagement_mask)
  BY BatchOrder DEF BeginBatch
<1>3. TypeOK'
  BY <1>1 DEF BeginBatch, TypeOK, chipVars, historyVars
<1>4. BatchInOrder'
  <2>1. Written' = 0
    BY <1>1, NineSolenoids DEF Written
  <2>2. DOMAIN frames' = 1..9
    BY <1>1
  <2>3. \A s \in Solenoid : LeftAlone(s) /\ (LeftAlone(s) => LeftAlone(s)')
    BY DEF BeginBatch, chipVars, historyVars, BatchInOrder, LeftAlone, HoldsFor, Word
  <2>4. \A s \in Solenoid : ~(s < 0)
    BY BindingFacts
  <2>. QED BY <1>1, <2>1, <2>2, <2>3, <2>4 DEF BeginBatch, BatchInOrder
<1>5. OthersStayUnset'
  BY DEF BeginBatch, chipVars, OthersStayUnset
<1>6. AgesAreTrue'
  BY DEF BeginBatch, historyVars, AgesAreTrue, IsAge
<1>7. NoLoopStarves'
  BY DEF BeginBatch, NoLoopStarves
<1>. QED BY <1>3, <1>4, <1>5, <1>6, <1>7

\* A batch that is not due was written less than its cadence ago.
LEMMA NoBatchStep ==
  ASSUME DriverInv, NoBatch
  PROVE  TypeOK' /\ BatchInOrder' /\ OthersStayUnset' /\ AgesAreTrue' /\ NoLoopStarves'
<1>. TypeOK /\ AgesAreTrue
  BY DEF DriverInv
<1>1. TypeOK'
  BY DEF NoBatch, TypeOK, chipVars, historyVars
<1>2. BatchInOrder' /\ OthersStayUnset'
  BY ChipsAlone DEF NoBatch, chipVars, historyVars, DriverInv
<1>3. since_batch < kSolenoidLoopMs
  BY NotDue, TypeFacts, Constants DEF NoBatch, AgesAreTrue
<1>4. AgesAreTrue'
  BY <1>3 DEF NoBatch, historyVars, AgesAreTrue, IsAge
<1>5. NoLoopStarves'
  BY DEF NoBatch, NoLoopStarves
<1>. QED BY <1>1, <1>2, <1>4, <1>5

\* One transfer: the next solenoid has the word of this mask.
LEMMA WriteFrameStep ==
  ASSUME DriverInv, WriteFrame
  PROVE  TypeOK' /\ BatchInOrder' /\ OthersStayUnset' /\ AgesAreTrue' /\ NoLoopStarves'
<1>. TypeOK /\ AgesAreTrue /\ BatchInOrder /\ OthersStayUnset
  BY DEF DriverInv
<1>1. PICK n \in Nat \ {0} : /\ frames \in Seq(Transfer) /\ Len(frames) = n
                             /\ DOMAIN frames = 1..n
                             /\ frames' = Tail(frames) /\ pc = "write"
  BY TypeFacts DEF WriteFrame
<1>2. PICK k \in 0..8 : k = Written /\ k = 9 - n
  <2>1. Written = 9 - n /\ Written >= 0
    BY <1>1, NineSolenoids DEF Written, BatchInOrder
  <2>2. 9 - n \in 0..8
    BY <2>1
  <2>. QED BY <2>1, <2>2
<1>. PICK mask : mask = engagement_mask
  OBVIOUS
<1>. k \in Solenoid
  BY BindingFacts
<1>3. Head(frames) = FrameOf(k, mask)
  <2>1. \A i \in DOMAIN frames : frames[i] = FrameOf(k + i - 1, mask)
    BY <1>1, <1>2 DEF BatchInOrder
  <2>2. Head(frames) = frames[1] /\ 1 \in DOMAIN frames /\ k + 1 - 1 = k
    BY <1>1
  <2>. QED BY <2>1, <2>2
<1>4. /\ cfg' \in [Chips -> [Channels -> Register]]
      /\ HoldsFor(k, mask)'
      /\ \A t \in Solenoid \ {k} : Word(t)' = Word(t)
      /\ \A chip \in Chips, ch \in Channels :
           cfg'[chip][ch] # cfg[chip][ch] =>
             kSolenoidBinding[k].chip_index = chip /\ kSolenoidBinding[k].channel = ch
  <2>1. WriteRegister(FrameOf(k, mask).chip, FrameOf(k, mask).bytes)
    BY <1>3 DEF WriteFrame
  <2>. QED BY <2>1, TypeFacts, WriteSets
<1>5. frames' \in Seq(Transfer) /\ Len(frames') = n - 1 /\ DOMAIN frames' = 1..(n - 1)
      /\ \A i \in 1..(n - 1) : frames'[i] = frames[i + 1]
  BY <1>1
<1>6. TypeOK'
  BY <1>4, <1>5 DEF WriteFrame, TypeOK, historyVars
<1>7. BatchInOrder'
  <2>1. Written' = k + 1
    BY <1>2, <1>5, NineSolenoids DEF Written
  <2>2. pc' = "write" /\ engagement_mask' = mask /\ written_mask' = written_mask
    BY <1>1 DEF WriteFrame, historyVars
  <2>3. ASSUME NEW i \in DOMAIN frames' PROVE frames'[i] = FrameOf(k + 1 + i - 1, mask)
    <3>1. frames'[i] = frames[i + 1] /\ i + 1 \in DOMAIN frames /\ i \in Int
      BY <1>1, <1>5
    <3>2. frames[i + 1] = FrameOf(k + (i + 1) - 1, mask)
      BY <1>1, <1>2, <3>1 DEF BatchInOrder
    <3>3. k + (i + 1) - 1 = k + 1 + i - 1
      BY <3>1
    <3>. QED BY <3>1, <3>2, <3>3
  <2>4. ASSUME NEW t \in Solenoid
        PROVE  IF t < k + 1 THEN HoldsFor(t, mask)' ELSE LeftAlone(t)'
    <3>1. CASE t = k
      <4>1. t < k + 1
        BY <3>1
      <4>. QED BY <1>4, <3>1, <4>1
    <3>2. CASE t # k
      <4>1. Word(t)' = Word(t)
        BY <1>4, <3>2
      <4>2. HoldsFor(t, mask) => HoldsFor(t, mask)'
        BY <4>1 DEF HoldsFor
      <4>3. LeftAlone(t) => LeftAlone(t)'
        BY <4>1, <2>2 DEF LeftAlone, HoldsFor
      <4>4. t < k + 1 <=> t < k
        BY <3>2, BindingFacts
      <4>5. IF t < k THEN HoldsFor(t, mask) ELSE LeftAlone(t)
        BY <1>1, <1>2 DEF BatchInOrder
      <4>. QED BY <4>2, <4>3, <4>4, <4>5
    <3>. QED BY <3>1, <3>2
  <2>5. \A t \in Solenoid :
          IF t < Written' THEN HoldsFor(t, engagement_mask)' ELSE LeftAlone(t)'
    <3>1. \A t \in Solenoid : HoldsFor(t, mask)' => HoldsFor(t, engagement_mask)'
      BY <2>2 DEF HoldsFor
    <3>. QED BY <2>1, <2>4, <3>1
  <2>6. \A i \in DOMAIN frames' : frames'[i] = FrameOf(Written' + i - 1, engagement_mask')
    BY <2>1, <2>2, <2>3
  <2>7. Written' >= 0
    BY <2>1
  <2>. QED BY <2>2, <2>5, <2>6, <2>7 DEF BatchInOrder
<1>8. OthersStayUnset'
  BY <1>4 DEF OthersStayUnset
<1>9. AgesAreTrue'
  BY <1>1 DEF WriteFrame, historyVars, AgesAreTrue, IsAge
<1>10. NoLoopStarves'
  BY <1>1 DEF WriteFrame, NoLoopStarves
<1>. QED BY <1>6, <1>7, <1>8, <1>9, <1>10

\* Nothing is left to write, so every solenoid has the word of this mask.
LEMMA EndBatchStep ==
  ASSUME DriverInv, EndBatch
  PROVE  TypeOK' /\ BatchInOrder' /\ OthersStayUnset' /\ AgesAreTrue' /\ NoLoopStarves'
<1>. TypeOK /\ AgesAreTrue /\ BatchInOrder /\ OthersStayUnset
  BY DEF DriverInv
<1>1. TypeOK'
  BY TypeFacts, Constants DEF EndBatch, TypeOK, chipVars
<1>2. \A s \in Solenoid : HoldsFor(s, engagement_mask)
  <2>1. Written = 9
    BY NineSolenoids DEF EndBatch, Written
  <2>2. \A s \in Solenoid : s < 9
    BY BindingFacts
  <2>. QED BY <2>1, <2>2 DEF EndBatch, BatchInOrder
<1>3. \A s \in Solenoid : LeftAlone(s)'
  BY <1>2 DEF EndBatch, chipVars, LeftAlone, HoldsFor, Word
<1>4. BatchInOrder'
  BY <1>3 DEF EndBatch, BatchInOrder
<1>5. OthersStayUnset'
  BY DEF EndBatch, chipVars, OthersStayUnset
<1>6. 0 = Least((now_ms - now_ms) % TimeRange, MaxAge)
  <2>1. now_ms - now_ms = 0 /\ 0 \in 0..(TimeRange - 1)
    BY TypeFacts, Constants
  <2>2. 0 % TimeRange = 0
    BY <2>1, ModUnique, Constants
  <2>. QED BY <2>1, <2>2, Constants DEF Least
<1>7. AgesAreTrue'
  <2>1. /\ since_batch' = 0 /\ last_solenoid_loop_ms' = now_ms /\ now_ms' = now_ms
        /\ pc' = "faults" /\ since_poll' = since_poll
        /\ last_fault_poll_ms' = last_fault_poll_ms
    BY DEF EndBatch
  <2>2. IsAge(since_batch, last_solenoid_loop_ms)'
    BY <1>6, <2>1 DEF IsAge
  <2>3. IsAge(since_poll, last_fault_poll_ms)'
    BY <2>1 DEF AgesAreTrue, IsAge
  <2>4. 0 < kSolenoidLoopMs
    BY Constants
  <2>. QED BY <2>1, <2>2, <2>3, <2>4 DEF AgesAreTrue
<1>8. NoLoopStarves'
  BY DEF EndBatch, NoLoopStarves
<1>. QED BY <1>1, <1>4, <1>5, <1>7, <1>8

\* Every fault has its bit in the register.
LEMMA FaultBits ==
  ASSUME raised \subseteq Chips \X Channels \X Kinds, NEW chip
  PROVE  FaultRegister(chip) \subseteq 0..23
<1>1. ASSUME NEW ch \in Channels, NEW kind \in Kinds PROVE FaultBit(ch, kind) \in 0..23
  <2>1. FaultPosition[kind] \in 0..2
    BY DEF Kinds, FaultPosition
  <2>. QED BY <2>1 DEF FaultBit, Channels
<1>2. \A f \in raised : f[2] \in Channels /\ f[3] \in Kinds
  OBVIOUS
<1>. QED BY <1>1, <1>2 DEF FaultRegister

\* Reading the first chip touches neither words nor times.
LEMMA ReadFirstChipStep ==
  ASSUME DriverInv, ReadFirstChip
  PROVE  TypeOK' /\ BatchInOrder' /\ OthersStayUnset' /\ AgesAreTrue' /\ NoLoopStarves'
<1>. TypeOK /\ AgesAreTrue
  BY DEF DriverInv
<1>1. TypeOK'
  <2>1. raised \subseteq Chips \X Channels \X Kinds
    BY DEF TypeOK
  <2>2. chip0' \subseteq 0..23 /\ raised' \subseteq Chips \X Channels \X Kinds
    BY <2>1, FaultBits DEF ReadFirstChip
  <2>. QED BY <2>2 DEF ReadFirstChip, TypeOK, historyVars
<1>2. BatchInOrder' /\ OthersStayUnset'
  BY ChipsAlone DEF ReadFirstChip, historyVars, DriverInv
<1>3. AgesAreTrue'
  BY DEF ReadFirstChip, historyVars, AgesAreTrue, IsAge
<1>4. NoLoopStarves'
  BY DEF ReadFirstChip, NoLoopStarves
<1>. QED BY <1>1, <1>2, <1>3, <1>4

\* The poll ends with both loops in time.
LEMMA ReadSecondChipStep ==
  ASSUME DriverInv, ReadSecondChip
  PROVE  TypeOK' /\ BatchInOrder' /\ OthersStayUnset' /\ AgesAreTrue' /\ NoLoopStarves'
<1>. TypeOK /\ AgesAreTrue
  BY DEF DriverInv
<1>1. TypeOK'
  <2>1. fault_bits' \subseteq Kinds
    BY DEF ReadSecondChip, BitsOfBoth, FaultsToTcuStatus2Bits, ChannelFault, Kinds
  <2>2. {now_ms, last_solenoid_loop_ms, last_fault_poll_ms}' \subseteq 0..(TimeRange - 1)
    BY TypeFacts DEF ReadSecondChip
  <2>3. {since_batch, since_poll}' \subseteq 0..MaxAge
    BY TypeFacts, Constants DEF ReadSecondChip
  <2>4. raised' \subseteq Chips \X Channels \X Kinds
    BY DEF ReadSecondChip, TypeOK
  <2>. QED BY <2>1, <2>2, <2>3, <2>4 DEF ReadSecondChip, TypeOK
<1>2. BatchInOrder' /\ OthersStayUnset'
  BY ChipsAlone DEF ReadSecondChip, DriverInv
<1>3. since_batch < kSolenoidLoopMs
  BY DEF ReadSecondChip, AgesAreTrue
<1>4. 0 = Least((now_ms - now_ms) % TimeRange, MaxAge)
  <2>1. now_ms - now_ms = 0 /\ 0 \in 0..(TimeRange - 1)
    BY TypeFacts, Constants
  <2>2. 0 % TimeRange = 0
    BY <2>1, ModUnique, Constants
  <2>. QED BY <2>1, <2>2, Constants DEF Least
<1>5. AgesAreTrue'
  <2>1. /\ since_poll' = 0 /\ last_fault_poll_ms' = now_ms /\ now_ms' = now_ms
        /\ pc' = "sleep" /\ since_batch' = since_batch
        /\ last_solenoid_loop_ms' = last_solenoid_loop_ms
    BY DEF ReadSecondChip
  <2>2. IsAge(since_poll, last_fault_poll_ms)'
    BY <1>4, <2>1 DEF IsAge
  <2>3. IsAge(since_batch, last_solenoid_loop_ms)'
    BY <2>1 DEF AgesAreTrue, IsAge
  <2>. QED BY <1>3, <2>1, <2>2, <2>3 DEF AgesAreTrue
<1>6. NoLoopStarves'
  <2>1. 0 < kFaultPollMs
    BY Constants
  <2>. QED BY <1>3, <2>1 DEF ReadSecondChip, NoLoopStarves
<1>. QED BY <1>1, <1>2, <1>5, <1>6

\* A poll that is not due was made less than its cadence ago.
LEMMA NoPollStep ==
  ASSUME DriverInv, NoPoll
  PROVE  TypeOK' /\ BatchInOrder' /\ OthersStayUnset' /\ AgesAreTrue' /\ NoLoopStarves'
<1>. TypeOK /\ AgesAreTrue
  BY DEF DriverInv
<1>1. TypeOK'
  BY DEF NoPoll, TypeOK, chipVars, historyVars
<1>2. BatchInOrder' /\ OthersStayUnset'
  BY ChipsAlone DEF NoPoll, chipVars, historyVars, DriverInv
<1>3. since_poll < kFaultPollMs
  BY NotDue, TypeFacts, Constants DEF NoPoll, AgesAreTrue
<1>4. since_batch < kSolenoidLoopMs
  BY DEF NoPoll, AgesAreTrue
<1>5. AgesAreTrue'
  BY <1>4 DEF NoPoll, historyVars, AgesAreTrue, IsAge
<1>6. NoLoopStarves'
  BY <1>3, <1>4 DEF NoPoll, historyVars, NoLoopStarves
<1>. QED BY <1>1, <1>2, <1>5, <1>6

\* A fault appears between any two steps.
LEMMA RaiseStep ==
  ASSUME DriverInv, NEW faults \in Faults, Raise(faults)
  PROVE  TypeOK' /\ BatchInOrder' /\ OthersStayUnset' /\ AgesAreTrue' /\ NoLoopStarves'
<1>. TypeOK /\ AgesAreTrue /\ BatchInOrder /\ OthersStayUnset /\ NoLoopStarves
  BY DEF DriverInv
<1>1. TypeOK'
  <2>1. faults \subseteq Chips \X Channels \X Kinds
    <3>1. UNION Faults \subseteq Chips \X Channels \X Kinds
      BY InputAssumption, Zenon
    <3>2. faults \subseteq UNION Faults
      OBVIOUS
    <3>. QED BY <3>1, <3>2
  <2>2. raised' \subseteq Chips \X Channels \X Kinds
    BY <2>1 DEF Raise, TypeOK
  <2>. QED BY <2>2 DEF Raise, TypeOK, tickVars, historyVars
<1>2. UNCHANGED <<tickVars, cfg, historyVars>>
  BY DEF Raise
<1>3. BatchInOrder'
  <2>1. Written' = Written
    BY <1>2 DEF Written, tickVars
  <2>2. \A s \in Solenoid : /\ LeftAlone(s) => LeftAlone(s)'
                            /\ HoldsFor(s, engagement_mask) => HoldsFor(s, engagement_mask)'
    BY <1>2 DEF LeftAlone, HoldsFor, Word, tickVars, historyVars
  <2>. QED BY <1>2, <2>1, <2>2 DEF BatchInOrder, tickVars
<1>4. OthersStayUnset'
  BY <1>2 DEF OthersStayUnset
<1>5. AgesAreTrue' /\ NoLoopStarves'
  BY <1>2 DEF AgesAreTrue, IsAge, NoLoopStarves, tickVars, historyVars
<1>. QED BY <1>1, <1>3, <1>4, <1>5

\* Nothing happens.
LEMMA StutterStep ==
  ASSUME DriverInv, UNCHANGED vars
  PROVE  TypeOK' /\ BatchInOrder' /\ OthersStayUnset' /\ AgesAreTrue' /\ NoLoopStarves'
<1>. TypeOK /\ AgesAreTrue /\ BatchInOrder /\ OthersStayUnset /\ NoLoopStarves
  BY DEF DriverInv
<1>1. UNCHANGED <<tickVars, cfg, raised, historyVars>>
  BY DEF vars, chipVars
<1>2. TypeOK'
  BY <1>1 DEF TypeOK, tickVars, historyVars
<1>3. BatchInOrder'
  <2>1. Written' = Written
    BY <1>1 DEF Written, tickVars
  <2>2. \A s \in Solenoid : /\ LeftAlone(s) => LeftAlone(s)'
                            /\ HoldsFor(s, engagement_mask) => HoldsFor(s, engagement_mask)'
    BY <1>1 DEF LeftAlone, HoldsFor, Word, tickVars, historyVars
  <2>. QED BY <1>1, <2>1, <2>2 DEF BatchInOrder, tickVars
<1>4. OthersStayUnset'
  BY <1>1 DEF OthersStayUnset
<1>5. AgesAreTrue' /\ NoLoopStarves'
  BY <1>1 DEF AgesAreTrue, IsAge, NoLoopStarves, tickVars, historyVars
<1>. QED BY <1>2, <1>3, <1>4, <1>5

\* Every step preserves what the invariant is built from.
LEMMA StepInv ==
  ASSUME DriverInv, [Next]_vars
  PROVE  TypeOK' /\ BatchInOrder' /\ OthersStayUnset' /\ AgesAreTrue' /\ NoLoopStarves'
<1>1. CASE \E dt \in Deltas, mask \in Masks : BeginTick(dt, mask)
  BY <1>1, BeginTickStep
<1>2. CASE BeginBatch
  BY <1>2, BeginBatchStep
<1>3. CASE NoBatch
  BY <1>3, NoBatchStep
<1>4. CASE WriteFrame
  BY <1>4, WriteFrameStep
<1>5. CASE EndBatch
  BY <1>5, EndBatchStep
<1>6. CASE ReadFirstChip
  BY <1>6, ReadFirstChipStep
<1>7. CASE ReadSecondChip
  BY <1>7, ReadSecondChipStep
<1>8. CASE NoPoll
  BY <1>8, NoPollStep
<1>9. CASE \E faults \in Faults : Raise(faults)
  BY <1>9, RaiseStep
<1>10. CASE UNCHANGED vars
  BY <1>10, StutterStep
<1>. QED
  BY <1>1, <1>2, <1>3, <1>4, <1>5, <1>6, <1>7, <1>8, <1>9, <1>10 DEF Next, InTick

-------------------------------------------------------------------------------
(* Theorems                                                                *)

\* Whatever is commanded, whatever the calibration and whenever Tick is called, less than
\* a turn of the clock apart: after a batch the chips hold exactly what was commanded, while
\* one is written each solenoid has its old word or its new one, channels without a solenoid
\* stay as they were, and after a Tick no loop is overdue (tcu_bind.cpp:108-121, 181-214).
THEOREM DriverInvariant == Spec => []DriverInv
<1>1. Init => DriverInv
  BY InitInv
<1>2. DriverInv /\ [Next]_vars => DriverInv'
  <2>1. DriverInv /\ [Next]_vars =>
          TypeOK' /\ BatchInOrder' /\ OthersStayUnset' /\ AgesAreTrue' /\ NoLoopStarves'
    BY StepInv
  <2>2. (TypeOK /\ BatchInOrder => ChipsHoldTheBatch /\ NothingInBetween)'
    BY OrderGivesState, PTL
  <2>. QED BY <2>1, <2>2 DEF DriverInv
<1>. QED BY <1>1, <1>2, PTL DEF Spec

\* Only BeginBatch fills frames, and only when the age of the last batch allows it.
LEMMA CadenceStep ==
  ASSUME DriverInv, [Next]_vars, frames = <<>>, frames' # <<>>
  PROVE  since_batch >= kSolenoidLoopMs \/ last_solenoid_loop_ms = Never
<1>1. CASE BeginBatch
  <2>1. TypeOK /\ IsAge(since_batch, last_solenoid_loop_ms)
    BY DEF DriverInv, AgesAreTrue
  <2>2. due(last_solenoid_loop_ms, kSolenoidLoopMs)
    BY <1>1 DEF BeginBatch
  <2>. SUFFICES ASSUME last_solenoid_loop_ms # Never PROVE since_batch >= kSolenoidLoopMs
    OBVIOUS
  <2>. DEFINE d == (now_ms - last_solenoid_loop_ms) % TimeRange
  <2>3. d >= kSolenoidLoopMs /\ since_batch = Least(d, MaxAge)
    BY <2>1, <2>2 DEF due, IsAge
  <2>4. d \in 0..(TimeRange - 1)
    <3>1. now_ms - last_solenoid_loop_ms \in Int
      BY <2>1, TypeFacts, Constants
    <3>. QED BY <3>1, ModRange, Constants, Zenon
  <2>. HIDE DEF d
  <2>. QED BY <2>3, <2>4, Constants DEF Least
<1>2. CASE ~BeginBatch
  <2>1. frames' = frames
    BY <1>2 DEF Next, InTick, BeginTick, NoBatch, WriteFrame, EndBatch, ReadFirstChip,
                ReadSecondChip, NoPoll, Raise, vars, tickVars
  <2>. QED BY <2>1
<1>. QED BY <1>1, <1>2

\* A batch comes before its time only after one written at the millisecond that stands
\* for "never" (tcu_bind.cpp:108-121).
THEOREM CadenceTheorem == Spec => BatchesKeepTheirCadence
<1>1. DriverInv /\ [Next]_vars =>
        [frames = <<>> /\ frames' # <<>> =>
           since_batch >= kSolenoidLoopMs \/ last_solenoid_loop_ms = Never]_vars
  BY CadenceStep
<1>. QED BY <1>1, DriverInvariant, PTL DEF Spec, BatchesKeepTheirCadence
================================================================================
