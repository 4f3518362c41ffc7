---------------------------------- MODULE IX4Lever ----------------------------------
(***************************************************************************)
(* The decoder of the BMW iX4/i4 gear lever (frame 0x3F9), which runs in   *)
(* the VCU, with a lever that sends and a bus that loses and damages.      *)
(*                                                                         *)
(* A byte is the set of its one bits, so that the CRC is the one of the    *)
(* code: a damaged frame is told by its remainder, not by a flag.  The     *)
(* lever counts as the captured ones do, 0 to 14, where the decoder counts *)
(* modulo 16.                                                              *)
(*                                                                         *)
(* A definition commented "Variant" is a plausible mistake in the one that *)
(* follows it, used by the sensitivity runs only.                          *)
(***************************************************************************)
EXTENDS Naturals, FiniteSets

CONSTANTS Positions,    \* gear bytes the lever sends
          Encoders,     \* lever positions the frame reports beside the gear
          Masks,        \* bits of a byte that a disturbance may turn over
          FailRange     \* the failure counters are uint16_t: 65536

VARIABLES position, encoder, sent,      \* the lever: gear byte, encoder, counter
          gear, rawGearByte, leverEncoder, counterLow, prevCounter,
          prevCounterValid, crcFails, ctrFails,
          missed                        \* frames sent since the last one accepted

lever   == <<position, encoder, sent>>
decoder == <<gear, rawGearByte, leverEncoder, counterLow, prevCounter,
             prevCounterValid, crcFails, ctrFails>>
vars    == <<lever, decoder, missed>>

Bits == 0..7
Byte == SUBSET Bits

\* The byte with the value n.
ByteOf(n) == {b \in Bits : (n \div 2^b) % 2 = 1}

Sport == ByteOf(52)     \* 0x34, never seen and reserved

\* The switch of DecodeCAN: 0x33, 0x31, 0x32 and 0x35.
GearOf == [b \in {ByteOf(51), ByteOf(49), ByteOf(50), ByteOf(53)} |->
             CASE b = ByteOf(51) -> "PARK"    [] b = ByteOf(49) -> "NEUTRAL"
               [] b = ByteOf(50) -> "REVERSE" [] b = ByteOf(53) -> "DRIVE"]

Period == 15            \* of the lever's counter
CounterRange == 16      \* of the decoder's: & 0x0F

ASSUME LeverAssumption ==
  /\ Positions \subseteq DOMAIN GearOf \cup {Sport}
  /\ Encoders # {} /\ Encoders \subseteq Byte
  /\ Masks \subseteq Byte \ {{}}
  /\ FailRange \in Nat \ {0, 1}

-------------------------------------------------------------------------------
(* The CRC                                                                 *)

\* Functions, not operators: TLC then evaluates each argument once.
Xor == [a \in Byte |-> [b \in Byte |-> (a \ b) \cup (b \ a)]]

CRC_POLY   == ByteOf(29)    \* 0x1D
CRC_XOROUT == ByteOf(4)     \* 0x04

ShiftOut ==
  [r \in Byte |-> LET shifted == {b + 1 : b \in r \ {7}}
                 IN  IF 7 \in r THEN Xor[shifted][CRC_POLY] ELSE shifted]

\* BuildCrcTable: the dividend is shifted out bit by bit.
crcTable ==
  [dividend \in Byte |->
     LET r[bit \in 0..8] == IF bit = 0 THEN dividend ELSE ShiftOut[r[bit - 1]]
     IN  r[8]]

\* Variant: the remainder is not carried over to the next byte.
CrcOfTheLastByte(b) == Xor[crcTable[b[7]]][CRC_XOROUT]

\* Over bytes 1 to 7: byte 0 carries the result.
ComputeCrc8(b) ==
  LET rem[i \in 0..7] == IF i = 0 THEN {} ELSE crcTable[Xor[b[i]][rem[i - 1]]]
  IN  Xor[rem[7]][CRC_XOROUT]

ValidateFrame(b) == ComputeCrc8(b) = b[0]

-------------------------------------------------------------------------------
(* The decoder                                                             *)

Init ==
  /\ position \in Positions /\ encoder \in Encoders /\ sent = 0
  /\ gear = "PARK"
  /\ rawGearByte = {} /\ leverEncoder = {}
  /\ counterLow = 0 /\ prevCounter = 0 /\ prevCounterValid = FALSE
  /\ crcFails = 0 /\ ctrFails = 0
  /\ missed = 0

Bump(n) == (n + 1) % FailRange

DropDamaged ==
  /\ crcFails' = Bump(crcFails)
  /\ UNCHANGED <<gear, rawGearByte, leverEncoder, counterLow, prevCounter,
                 prevCounterValid, ctrFails>>

\* The high nibble of byte 1 is 0xF in every frame ever seen.
IsMalformed(b) == ~(4..7 \subseteq b[1])

DropMalformed ==
  /\ ctrFails' = Bump(ctrFails)
  /\ UNCHANGED <<gear, rawGearByte, leverEncoder, counterLow, prevCounter,
                 prevCounterValid, crcFails>>

LowNibble(byte) == CHOOSE n \in 0..15 : ByteOf(n) = byte \cap 0..3

\* One frame may be missing before this one.
IsExpected(ctr) == ctr \in {(prevCounter + k) % CounterRange : k \in 1..2}

\* Variant: after a jump the decoder waits for the counter it had expected.
HoldTheChain(ctr) ==
  IF prevCounterValid /\ ~IsExpected(ctr)
  THEN ctrFails' = Bump(ctrFails) /\ UNCHANGED <<prevCounter, prevCounterValid>>
  ELSE prevCounter' = ctr /\ prevCounterValid' = TRUE /\ UNCHANGED ctrFails

\* Variant: two missing frames are forgiven.
ForgiveTwo(ctr) ==
  /\ ctrFails' = IF prevCounterValid /\ ~IsExpected(ctr)
                    /\ ctr # (prevCounter + 3) % CounterRange
                 THEN Bump(ctrFails) ELSE ctrFails
  /\ prevCounter' = ctr
  /\ prevCounterValid' = TRUE

\* A jump is counted, and the chain goes on from where it landed.
CheckCounter(ctr) ==
  /\ ctrFails' = IF prevCounterValid /\ ~IsExpected(ctr) THEN Bump(ctrFails) ELSE ctrFails
  /\ prevCounter' = ctr
  /\ prevCounterValid' = TRUE

\* Sport and unknown values hold the gear.
GearShown(b) == IF b \in DOMAIN GearOf THEN GearOf[b] ELSE gear

\* Variant: the counter must have grown, with no thought of its wrap.
AcceptGrowing(b) ==
  /\ counterLow' = LowNibble(b[1])
  /\ IF prevCounterValid /\ counterLow' <= prevCounter
     THEN /\ ctrFails' = Bump(ctrFails)
          /\ UNCHANGED <<gear, rawGearByte, leverEncoder, prevCounter, prevCounterValid>>
     ELSE /\ CheckCounter(counterLow')
          /\ rawGearByte' = b[6] /\ leverEncoder' = b[4]
          /\ gear' = GearShown(b[6])
  /\ UNCHANGED crcFails

Accept(b) ==
  /\ counterLow' = LowNibble(b[1])
  /\ CheckCounter(counterLow')
  /\ rawGearByte' = b[6] /\ leverEncoder' = b[4]
  /\ gear' = GearShown(b[6])
  /\ UNCHANGED crcFails

\* A frame of another id is none of its business.
DecodeCAN(isLever, b) ==
  IF ~isLever THEN UNCHANGED decoder
  ELSE IF ~ValidateFrame(b) THEN DropDamaged
  ELSE IF IsMalformed(b) THEN DropMalformed
  ELSE Accept(b)

-------------------------------------------------------------------------------
(* The lever and the bus, as the captures and the fixtures show them       *)

\* Bytes 2, 3, 5 and 7 are the same in every capture.
Body(high, ctr, p, e) ==
  <<ByteOf(16 * high + ctr), {}, ByteOf(115), e, ByteOf(48), p, {}>>

WithCrc(body) == [i \in 0..7 |-> IF i = 0 THEN ComputeCrc8(body) ELSE body[i]]

\* Tabulated, so that TLC builds each frame once.
Frame ==
  [high \in 0..15 |-> [ctr \in 0..(Period - 1) |-> [p \in Positions |-> [e \in Encoders |->
     WithCrc(Body(high, ctr, p, e))]]]]

\* Bound as a set, which TLC evaluates once.
Intact == {Frame[15][sent][position][encoder]}

\* The same with another high nibble, as the unit test has it.
Malformed == {Frame[10][sent][position][encoder]}

Send == sent' = (sent + 1) % Period /\ UNCHANGED <<position, encoder>>

Miss == missed' = IF missed < Period THEN missed + 1 ELSE missed

Move(p, e) ==
  /\ position' = p /\ encoder' = e
  /\ UNCHANGED <<sent, decoder, missed>>

Arrive ==
  /\ \E b \in Intact : DecodeCAN(TRUE, b)
  /\ Send
  /\ missed' = 0

Lose == Send /\ Miss /\ UNCHANGED decoder

Disturb(i, mask) ==
  /\ \E b \in Intact : \E damaged \in {[b EXCEPT ![i] = Xor[@][mask]]} :
       DecodeCAN(TRUE, damaged)
  /\ Send /\ Miss

SendMalformed == (\E b \in Malformed : DecodeCAN(TRUE, b)) /\ Send /\ Miss

\* A frame of another node with the very bytes of the lever.
Overhear == (\E b \in Intact : DecodeCAN(FALSE, b)) /\ UNCHANGED <<lever, missed>>

Next ==
  \/ \E p \in Positions, e \in Encoders : Move(p, e)
  \/ Arrive \/ Lose \/ SendMalformed \/ Overhear
  \/ \E i \in Bits, mask \in Masks : Disturb(i, mask)

Spec == Init /\ [][Next]_vars

\* The lever sends on, and the bus does not spoil every frame.
FairSpec == Spec /\ WF_vars(Arrive)

-------------------------------------------------------------------------------
(* Properties                                                              *)

TypeOK ==
  /\ position \in Positions /\ encoder \in Encoders /\ sent \in 0..(Period - 1)
  /\ gear \in {"PARK", "NEUTRAL", "REVERSE", "DRIVE"}
  /\ rawGearByte \in Byte /\ leverEncoder \in Byte
  /\ {counterLow, prevCounter} \subseteq 0..(Period - 1)
  /\ prevCounterValid \in BOOLEAN
  /\ {crcFails, ctrFails} \subseteq 0..(FailRange - 1)
  /\ missed \in 0..Period

\* The chain of counters hangs on the last frame accepted, whatever came between:
\* a jump does not leave it behind (iX4_Lever.cpp:101-112).
ChainFollowsTheLever ==
  prevCounterValid /\ missed < Period =>
    (prevCounter + 1 + missed) % Period = sent

\* The telemetry and the gear are of one frame (iX4_Lever.cpp:114-125).
GearIsOfTheRawByte == rawGearByte \in DOMAIN GearOf => gear = GearOf[rawGearByte]

LeverInv == TypeOK /\ ChainFollowsTheLever /\ GearIsOfTheRawByte

\* Nothing but a sound frame moves the gear, and then to where the lever is: not a
\* damaged frame, a malformed one or one of another node, nor a byte that stands
\* for no gear (iX4_Lever.cpp:82-99, 118-125; SG of the P/R/N/D request in
\* HARA_REPORT.txt).
GearMovesWithTheLever ==
  [][<<gear, rawGearByte, leverEncoder>>' # <<gear, rawGearByte, leverEncoder>> =>
       /\ rawGearByte' = position /\ leverEncoder' = encoder
       /\ gear' # gear => position \in DOMAIN GearOf /\ gear' = GearOf[position]]_vars

\* The counter of failures misses no gap of two frames or more, up to the period of
\* the lever, and without a gap it does not count (iX4_Lever.cpp:102-110).
GapsAreCounted ==
  [][Arrive /\ prevCounterValid =>
       /\ ctrFails' # ctrFails => missed # 0
       /\ missed \in 2..(Period - 1) => ctrFails' # ctrFails]_vars

\* A lever left in a gear is followed in the end (iX4_Lever.cpp:80-126).
EventuallyFollows ==
  \A p \in DOMAIN GearOf : <>[](position = p) => <>[](gear = GearOf[p])
====================================================================================
