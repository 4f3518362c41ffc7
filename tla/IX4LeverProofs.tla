------------------------------ MODULE IX4LeverProofs ------------------------------
(***************************************************************************)
(* For every set of lever positions, of disturbances within one byte and   *)
(* every width of the failure counters: the CRC catches what the bus does, *)
(* the decoder's chain of counters hangs on the last frame accepted, and   *)
(* the gear only moves to where the lever is.                              *)
(*                                                                         *)
(* The argument about the CRC: shifting a bit out is one to one, since     *)
(* CRC_POLY has bit 0 and a shifted byte has not; so is the table, and so  *)
(* is every byte taken into the remainder; hence no later byte mends what  *)
(* one byte spoiled.                                                       *)
(***************************************************************************)
EXTENDS IX4Lever, TLAPS

-------------------------------------------------------------------------------
(* Bytes and their bits                                                    *)

\* A bit of a byte, by division with the power of two written out.
LEMMA ByteBits ==
  ASSUME NEW n \in Nat
  PROVE  /\ 0 \in ByteOf(n) <=> n % 2 = 1
         /\ 1 \in ByteOf(n) <=> (n \div 2) % 2 = 1
         /\ 2 \in ByteOf(n) <=> (n \div 4) % 2 = 1
         /\ 3 \in ByteOf(n) <=> (n \div 8) % 2 = 1
         /\ 4 \in ByteOf(n) <=> (n \div 16) % 2 = 1
         /\ 5 \in ByteOf(n) <=> (n \div 32) % 2 = 1
         /\ 6 \in ByteOf(n) <=> (n \div 64) % 2 = 1
         /\ 7 \in ByteOf(n) <=> (n \div 128) % 2 = 1
<1>1. /\ 2^0 = 1 /\ 2^1 = 2 /\ 2^2 = 4 /\ 2^3 = 8
      /\ 2^4 = 16 /\ 2^5 = 32 /\ 2^6 = 64 /\ 2^7 = 128
  OBVIOUS
<1>. QED BY <1>1 DEF ByteOf, Bits

\* ByteOf yields a byte.
LEMMA ByteOfType == ASSUME NEW n PROVE ByteOf(n) \in Byte
BY DEF ByteOf, Byte, Bits

\* The exclusive or of two bytes is a byte and can be undone.
LEMMA XorType == ASSUME NEW a \in Byte, NEW b \in Byte PROVE Xor[a][b] \in Byte
BY DEF Xor, Byte, Bits

\* A byte can be cancelled on either side, and only the empty one changes nothing.
LEMMA XorCancels ==
  ASSUME NEW a \in Byte, NEW b \in Byte, NEW c \in Byte
  PROVE  /\ Xor[a][b] = Xor[a][c] => b = c
         /\ Xor[b][a] = Xor[c][a] => b = c
         /\ b # {} => Xor[a][b] # a
<1>1. Xor[a][b] = (a \ b) \cup (b \ a) /\ Xor[a][c] = (a \ c) \cup (c \ a)
  BY DEF Xor
<1>2. Xor[b][a] = (b \ a) \cup (a \ b) /\ Xor[c][a] = (c \ a) \cup (a \ c)
  BY DEF Xor
<1>. QED BY <1>1, <1>2 DEF Byte

\* 0x1D has bits 0, 2, 3 and 4.
LEMMA PolyBits == CRC_POLY = {0, 2, 3, 4} /\ CRC_XOROUT \in Byte
<1>1. ByteOf(29) \subseteq 0..7
  BY DEF ByteOf, Bits
<1>2. CRC_POLY = {0, 2, 3, 4}
  BY <1>1, ByteBits DEF CRC_POLY
<1>. QED BY <1>2, ByteOfType DEF CRC_XOROUT

-------------------------------------------------------------------------------
(* The table                                                               *)

\* The bit shifted out is found in bit 0, every other one a place higher, turned over
\* where CRC_POLY has a bit.
LEMMA ShiftOutValue ==
  ASSUME NEW r \in Byte
  PROVE  /\ ShiftOut[r] \in Byte
         /\ 0 \in ShiftOut[r] <=> 7 \in r
         /\ \A b \in 0..6 : b \in r <=> IF b + 1 \in CRC_POLY /\ 7 \in r
                                        THEN b + 1 \notin ShiftOut[r]
                                        ELSE b + 1 \in ShiftOut[r]
<1>. DEFINE shifted == {b + 1 : b \in r \ {7}}
<1>1. shifted \in Byte /\ 0 \notin shifted /\ \A b \in 0..6 : b \in r <=> b + 1 \in shifted
  BY DEF Byte, Bits
<1>2. ShiftOut[r] = IF 7 \in r THEN Xor[shifted][CRC_POLY] ELSE shifted
  BY DEF ShiftOut
<1>. HIDE DEF shifted
<1>3. CASE 7 \in r
  <2>1. ShiftOut[r] = (shifted \ CRC_POLY) \cup (CRC_POLY \ shifted)
    <3>1. CRC_POLY \in Byte
      BY PolyBits DEF Byte, Bits
    <3>. QED BY <3>1, <1>1, <1>2, <1>3 DEF Xor
  <2>. QED BY <2>1, <1>1, <1>3, PolyBits DEF Byte, Bits
<1>4. CASE 7 \notin r
  BY <1>1, <1>2, <1>4
<1>. QED BY <1>3, <1>4

\* So nothing is lost by it.
LEMMA ShiftOutInjective ==
  ASSUME NEW r \in Byte, NEW s \in Byte, ShiftOut[r] = ShiftOut[s]
  PROVE  r = s
<1>1. 7 \in r <=> 7 \in s
  BY ShiftOutValue
<1>2. \A b \in 0..6 : b \in r <=> b \in s
  <2>. TAKE b \in 0..6
  <2>. QED BY <1>1, ShiftOutValue
<1>3. \A b \in 0..7 : b \in r <=> b \in s
  BY <1>1, <1>2
<1>. QED BY <1>3 DEF Byte, Bits

\* A table entry is the dividend shifted out eight times.
LEMMA CrcTableValue ==
  ASSUME NEW d \in Byte
  PROVE  crcTable[d] = ShiftOut[ShiftOut[ShiftOut[ShiftOut[
                         ShiftOut[ShiftOut[ShiftOut[ShiftOut[d]]]]]]]]
<1>. DEFINE S(x) == ShiftOut[x]
            v(bit) == IF bit = 0 THEN d ELSE IF bit = 1 THEN S(d)
                      ELSE IF bit = 2 THEN S(S(d)) ELSE IF bit = 3 THEN S(S(S(d)))
                      ELSE IF bit = 4 THEN S(S(S(S(d)))) ELSE IF bit = 5 THEN S(S(S(S(S(d)))))
                      ELSE IF bit = 6 THEN S(S(S(S(S(S(d))))))
                      ELSE IF bit = 7 THEN S(S(S(S(S(S(S(d)))))))
                      ELSE S(S(S(S(S(S(S(S(d))))))))
            f == [bit \in 0..8 |-> v(bit)]
            r == CHOOSE g : g = [bit \in 0..8 |-> IF bit = 0 THEN d ELSE ShiftOut[g[bit - 1]]]
<1>1. crcTable[d] = r[8]
  BY DEF crcTable
<1>2. f = [bit \in 0..8 |-> IF bit = 0 THEN d ELSE S(f[bit - 1])]
  <2>. HIDE DEF S
  <2>1. v(0) = d /\ \A bit \in 1..8 : v(bit) = S(v(bit - 1))
    OBVIOUS
  <2>. HIDE DEF v
  <2>2. \A bit \in 0..8 : v(bit) = IF bit = 0 THEN d ELSE S(f[bit - 1])
    BY <2>1
  <2>. QED BY <2>2
<1>3. r = [bit \in 0..8 |-> IF bit = 0 THEN d ELSE S(r[bit - 1])]
  <2>. HIDE DEF f
  <2>. QED BY <1>2
<1>4. r[8] = S(S(S(S(S(S(S(S(d))))))))
  <2>. HIDE DEF r, S
  <2>1. r[0] = d /\ \A bit \in 1..8 : r[bit] = S(r[bit - 1])
    BY <1>3
  <2>. DEFINE R(bit) == r[bit]
  <2>2. R(0) = d /\ \A bit \in 1..8 : R(bit) = S(R(bit - 1))
    BY <2>1
  <2>3. R(8) = S(S(S(S(S(S(S(S(d))))))))
    <3>. HIDE DEF R
    <3>. QED BY <2>2
  <2>. QED BY <2>3
<1>. HIDE DEF r
<1>. QED BY <1>1, <1>4

\* Different dividends leave different entries.
LEMMA CrcTableInjective ==
  ASSUME NEW d \in Byte
  PROVE  /\ crcTable[d] \in Byte
         /\ \A e \in Byte : crcTable[d] = crcTable[e] => d = e
<1>. DEFINE s(x) == ShiftOut[x]
<1>1. \A x \in Byte : s(x) \in Byte
  BY ShiftOutValue
<1>2. \A x, y \in Byte : s(x) = s(y) => x = y
  BY ShiftOutInjective
<1>3. \A x \in Byte : crcTable[x] = s(s(s(s(s(s(s(s(x))))))))
  BY CrcTableValue
<1>. HIDE DEF s
<1>4. \A x \in Byte : s(s(s(s(x)))) \in Byte
  BY <1>1
<1>5. \A x, y \in Byte : s(s(s(s(x)))) = s(s(s(s(y)))) => x = y
  BY <1>1, <1>2
<1>. QED BY <1>3, <1>4, <1>5

-------------------------------------------------------------------------------
(* The remainder after each byte                                           *)

\* The function of ComputeCrc8, with a name.
Rem(b) == CHOOSE g : g = [i \in 0..7 |-> IF i = 0 THEN {} ELSE crcTable[Xor[b[i]][g[i - 1]]]]

Bytes == [0..7 -> Byte]

\* Rem obeys its recursion: the function that does is written out byte by byte.
LEMMA RemEquation ==
  ASSUME NEW b
  PROVE  /\ ComputeCrc8(b) = Xor[Rem(b)[7]][CRC_XOROUT]
         /\ Rem(b)[0] = {}
         /\ \A i \in 1..7 : Rem(b)[i] = crcTable[Xor[b[i]][Rem(b)[i - 1]]]
<1>. DEFINE T(i, x) == crcTable[Xor[b[i]][x]]
            v1 == T(1, {}) v2 == T(2, v1) v3 == T(3, v2) v4 == T(4, v3)
            v5 == T(5, v4) v6 == T(6, v5) v7 == T(7, v6)
            v(i) == IF i = 0 THEN {} ELSE IF i = 1 THEN v1 ELSE IF i = 2 THEN v2
                    ELSE IF i = 3 THEN v3 ELSE IF i = 4 THEN v4 ELSE IF i = 5 THEN v5
                    ELSE IF i = 6 THEN v6 ELSE v7
            f == [i \in 0..7 |-> v(i)]
            r == Rem(b)
<1>1. ComputeCrc8(b) = Xor[r[7]][CRC_XOROUT]
  BY DEF ComputeCrc8, Rem
<1>2. f = [i \in 0..7 |-> IF i = 0 THEN {} ELSE T(i, f[i - 1])]
  <2>. HIDE DEF T
  <2>1. v(0) = {} /\ \A i \in 1..7 : v(i) = T(i, v(i - 1))
    OBVIOUS
  <2>. HIDE DEF v
  <2>2. \A i \in 0..7 : v(i) = IF i = 0 THEN {} ELSE T(i, f[i - 1])
    BY <2>1
  <2>. QED BY <2>2
<1>3. r = [i \in 0..7 |-> IF i = 0 THEN {} ELSE T(i, r[i - 1])]
  <2>. HIDE DEF f
  <2>. QED BY <1>2 DEF Rem
<1>4. r[0] = {} /\ \A i \in 1..7 : r[i] = T(i, r[i - 1])
  <2>. HIDE DEF r, T
  <2>. QED BY <1>3
<1>. QED BY <1>1, <1>4

\* Induction over the bytes of a frame, with a set for the predicate.
LEMMA UpToSeven ==
  ASSUME NEW S, 0 \in S, \A i \in 1..7 : i - 1 \in S => i \in S
  PROVE  \A i \in 0..7 : i \in S
<1>1. 1 \in S
  OBVIOUS
<1>2. 2 \in S
  BY <1>1
<1>3. 3 \in S
  BY <1>2
<1>4. 4 \in S
  BY <1>3
<1>5. 5 \in S
  BY <1>4
<1>6. 6 \in S
  BY <1>5
<1>7. 7 \in S
  BY <1>6
<1>. QED BY <1>1, <1>2, <1>3, <1>4, <1>5, <1>6, <1>7

\* Every remainder is a byte.
LEMMA RemType == ASSUME NEW b \in Bytes PROVE \A i \in 0..7 : Rem(b)[i] \in Byte
<1>. DEFINE S == {i \in 0..7 : Rem(b)[i] \in Byte}
<1>1. 0 \in S
  BY RemEquation DEF Byte
<1>2. ASSUME NEW i \in 1..7, i - 1 \in S PROVE i \in S
  <2>1. b[i] \in Byte
    BY DEF Bytes
  <2>. QED BY <2>1, <1>2, RemEquation, XorType, CrcTableInjective
<1>. HIDE DEF S
<1>3. \A i \in 0..7 : i \in S
  BY <1>1, <1>2, UpToSeven
<1>. QED BY <1>3 DEF S

\* The CRC reads bytes 1 to 7 only.
LEMMA CrcOfEqualBytes ==
  ASSUME NEW b, NEW c, \A i \in 1..7 : b[i] = c[i]
  PROVE  ComputeCrc8(b) = ComputeCrc8(c)
<1>. DEFINE S == {i \in 0..7 : Rem(b)[i] = Rem(c)[i]}
<1>1. 0 \in S
  <2>1. Rem(b)[0] = {} /\ Rem(c)[0] = {}
    BY RemEquation, Zenon
  <2>. QED BY <2>1
<1>2. ASSUME NEW i \in 1..7, i - 1 \in S PROVE i \in S
  BY <1>2, RemEquation
<1>. HIDE DEF S
<1>3. \A i \in 0..7 : i \in S
  BY <1>1, <1>2, UpToSeven
<1>. QED BY <1>3, RemEquation DEF S

\* A byte that differs leaves another remainder, and no later byte mends it.
LEMMA CrcOfOneOtherByte ==
  ASSUME NEW b \in Bytes, NEW c \in Bytes, NEW k \in 1..7,
         b[k] # c[k], \A i \in 1..7 : i # k => b[i] = c[i]
  PROVE  ComputeCrc8(b) # ComputeCrc8(c)
<1>. DEFINE S == {i \in 0..7 : Rem(b)[i] = Rem(c)[i] <=> i < k}
<1>1. 0 \in S
  BY RemEquation
<1>2. ASSUME NEW i \in 1..7, i - 1 \in S PROVE i \in S
  <2>1. /\ b[i] \in Byte /\ c[i] \in Byte
        /\ Rem(b)[i - 1] \in Byte /\ Rem(c)[i - 1] \in Byte
    BY RemType DEF Bytes
  <2>2. /\ Rem(b)[i] = crcTable[Xor[b[i]][Rem(b)[i - 1]]]
        /\ Rem(c)[i] = crcTable[Xor[c[i]][Rem(c)[i - 1]]]
    BY RemEquation
  <2>3. Rem(b)[i] = Rem(c)[i] <=> Xor[b[i]][Rem(b)[i - 1]] = Xor[c[i]][Rem(c)[i - 1]]
    BY <2>1, <2>2, XorType, CrcTableInjective
  <2>4. CASE i < k
    BY <1>2, <2>2, <2>4
  <2>5. CASE i = k
    <3>1. Rem(b)[i - 1] = Rem(c)[i - 1] /\ b[i] # c[i]
      BY <1>2, <2>5
    <3>. QED BY <2>1, <2>3, <2>5, <3>1, XorCancels
  <2>6. CASE i > k
    <3>1. Rem(b)[i - 1] # Rem(c)[i - 1] /\ b[i] = c[i]
      BY <1>2, <2>6
    <3>. QED BY <2>1, <2>3, <2>6, <3>1, XorCancels
  <2>. QED BY <2>4, <2>5, <2>6
<1>. HIDE DEF S
<1>3. 7 \in S
  BY <1>1, <1>2, UpToSeven
<1>4. Rem(b)[7] # Rem(c)[7]
  BY <1>3 DEF S
<1>. QED BY <1>4, RemEquation, RemType, XorCancels, PolyBits

\* The CRC catches every disturbance within one byte, of the CRC itself or of what it
\* covers: the decoder drops the frame (iX4_Lever.cpp:35-72, 91-93).
THEOREM OneByteIsCaught ==
  ASSUME NEW b \in Bytes, ValidateFrame(b), NEW k \in 0..7, NEW x \in Byte, x # b[k]
  PROVE  ~ValidateFrame([b EXCEPT ![k] = x])
<1>. DEFINE c == [b EXCEPT ![k] = x]
<1>1. c \in Bytes /\ c[k] = x /\ \A i \in 0..7 : i # k => c[i] = b[i]
  BY DEF Bytes
<1>2. CASE k = 0
  <2>. HIDE DEF c
  <2>1. \A i \in 1..7 : c[i] = b[i]
    BY <1>1, <1>2
  <2>2. ComputeCrc8(c) = ComputeCrc8(b)
    BY <2>1, CrcOfEqualBytes
  <2>3. ~ValidateFrame(c)
    BY <2>2, <1>1, <1>2 DEF ValidateFrame
  <2>. QED BY <2>3 DEF c
<1>3. CASE k # 0
  <2>. HIDE DEF c
  <2>1. ComputeCrc8(b) # ComputeCrc8(c)
    BY <1>1, <1>3, CrcOfOneOtherByte
  <2>2. c[0] = b[0]
    BY <1>1, <1>3
  <2>3. ~ValidateFrame(c)
    BY <2>1, <2>2 DEF ValidateFrame
  <2>. QED BY <2>3 DEF c
<1>. QED BY <1>2, <1>3

-------------------------------------------------------------------------------
(* The frames of the lever                                                 *)

\* The types of what a frame is made of.
LEMMA PositionsAreBytes == Positions \subseteq Byte
BY LeverAssumption, ByteOfType DEF GearOf, Sport

\* The gears the switch knows.
LEMMA GearOfType == \A b \in DOMAIN GearOf : GearOf[b] \in {"PARK", "NEUTRAL", "REVERSE", "DRIVE"}
BY DEF GearOf

\* What the sender signs, the receiver accepts.
LEMMA WithCrcIsValid ==
  ASSUME NEW body, \A i \in 1..7 : body[i] \in Byte
  PROVE  /\ WithCrc(body) \in Bytes
         /\ ValidateFrame(WithCrc(body))
         /\ \A i \in 1..7 : WithCrc(body)[i] = body[i]
<1>. DEFINE f == WithCrc(body)
<1>1. f = [i \in 0..7 |-> IF i = 0 THEN ComputeCrc8(body) ELSE body[i]]
  BY DEF WithCrc
<1>2. f[0] = ComputeCrc8(body) /\ \A i \in 1..7 : f[i] = body[i]
  BY <1>1
<1>. HIDE DEF f
<1>3. ComputeCrc8(f) = f[0]
  BY <1>2, CrcOfEqualBytes
<1>4. ComputeCrc8(body) \in Byte
  <2>. DEFINE g == [i \in 0..7 |-> IF i = 0 THEN {} ELSE body[i]]
  <2>1. g \in Bytes
    BY DEF Bytes, Byte
  <2>2. \A i \in 1..7 : g[i] = body[i]
    OBVIOUS
  <2>. HIDE DEF g
  <2>3. ComputeCrc8(body) = ComputeCrc8(g)
    BY <2>2, CrcOfEqualBytes
  <2>4. Rem(g)[7] \in Byte
    BY <2>1, RemType
  <2>. QED BY <2>3, <2>4, RemEquation, PolyBits, XorType
<1>5. f \in Bytes
  BY <1>1, <1>4 DEF Bytes
<1>. QED BY <1>2, <1>3, <1>5 DEF f, ValidateFrame

\* Byte 1 of a frame: the high nibble is told apart, the low one read back.
LEMMA LowNibbleOfFrame ==
  ASSUME NEW ctr \in 0..(Period - 1)
  PROVE  /\ 4..7 \subseteq ByteOf(16 * 15 + ctr)
         /\ ~(4..7 \subseteq ByteOf(16 * 10 + ctr))
         /\ LowNibble(ByteOf(16 * 15 + ctr)) = ctr
<1>1. 4..7 \subseteq ByteOf(16 * 15 + ctr)
  BY ByteBits DEF Period
<1>2. 4 \notin ByteOf(16 * 10 + ctr)
  BY ByteBits DEF Period
<1>3. ByteOf(16 * 15 + ctr) \cap 0..3 = ByteOf(ctr)
  <2>1. \A b \in 0..7 : b \in ByteOf(16 * 15 + ctr) /\ b \in 0..3 <=> b \in ByteOf(ctr)
    BY ByteBits DEF Period
  <2>2. ByteOf(ctr) \subseteq 0..7
    BY ByteOfType DEF Byte, Bits
  <2>. QED BY <2>1, <2>2
<1>4. \A n \in 0..15 : ByteOf(n) = ByteOf(ctr) => n = ctr
  BY ByteBits DEF Period
<1>. QED BY <1>1, <1>2, <1>3, <1>4 DEF LowNibble, Period

\* The fields of a frame of the lever.
LEMMA FrameOfTheLever ==
  ASSUME NEW high \in {10, 15}, NEW ctr \in 0..(Period - 1),
         NEW p \in Positions, NEW e \in Encoders,
         NEW f, f = Frame[high][ctr][p][e]
  PROVE  /\ f \in Bytes /\ ValidateFrame(f)
         /\ f[1] = ByteOf(16 * high + ctr) /\ f[4] = e /\ f[6] = p
<1>1. f = WithCrc(Body(high, ctr, p, e))
  BY DEF Frame
<1>. DEFINE body == Body(high, ctr, p, e)
<1>2. \A i \in 1..7 : body[i] \in Byte
  <2>1. p \in Byte /\ e \in Byte
    BY PositionsAreBytes, LeverAssumption
  <2>2. ByteOf(16 * high + ctr) \in Byte /\ ByteOf(115) \in Byte /\ ByteOf(48) \in Byte /\ {} \in Byte
    BY ByteOfType DEF Byte
  <2>3. /\ body[1] \in Byte /\ body[2] \in Byte /\ body[3] \in Byte /\ body[4] \in Byte
        /\ body[5] \in Byte /\ body[6] \in Byte /\ body[7] \in Byte
    BY <2>1, <2>2 DEF Body
  <2>. HIDE DEF body
  <2>. QED BY <2>3
<1>3. body[1] = ByteOf(16 * high + ctr) /\ body[4] = e /\ body[6] = p
  BY DEF Body
<1>. HIDE DEF body
<1>4. /\ WithCrc(body) \in Bytes /\ ValidateFrame(WithCrc(body))
      /\ \A i \in 1..7 : WithCrc(body)[i] = body[i]
  BY <1>2, WithCrcIsValid
<1>5. f = WithCrc(body)
  BY <1>1 DEF body
<1>. QED BY <1>3, <1>4, <1>5

-------------------------------------------------------------------------------
(* What each action does to the decoder                                    *)

\* The types the steps below need.
LEMMA TypeFacts ==
  ASSUME TypeOK
  PROVE  /\ sent \in 0..14 /\ prevCounter \in 0..14 /\ missed \in 0..15
         /\ position \in Positions /\ encoder \in Encoders
         /\ crcFails \in 0..(FailRange - 1) /\ ctrFails \in 0..(FailRange - 1)
BY DEF TypeOK, Period

\* A failure counter wraps, and one failure is never invisible in it.
LEMMA BumpType ==
  ASSUME NEW n \in 0..(FailRange - 1)
  PROVE  Bump(n) \in 0..(FailRange - 1) /\ Bump(n) # n
BY LeverAssumption DEF Bump

\* An intact frame is taken over whole.
LEMMA ArriveAccepts ==
  ASSUME TypeOK, Arrive
  PROVE  /\ CheckCounter(sent)
         /\ counterLow' = sent /\ rawGearByte' = position /\ leverEncoder' = encoder
         /\ gear' = GearShown(position) /\ crcFails' = crcFails
         /\ sent' = (sent + 1) % 15 /\ position' = position /\ encoder' = encoder
         /\ missed' = 0
<1>. DEFINE f == Frame[15][sent][position][encoder]
<1>1. DecodeCAN(TRUE, f) /\ Send /\ missed' = 0
  BY DEF Arrive, Intact
<1>2. /\ ValidateFrame(f)
      /\ f[1] = ByteOf(16 * 15 + sent) /\ f[4] = encoder /\ f[6] = position
  BY FrameOfTheLever, TypeFacts DEF Period
<1>. HIDE DEF f
<1>3. ~IsMalformed(f) /\ LowNibble(f[1]) = sent
  BY <1>2, LowNibbleOfFrame, TypeFacts DEF IsMalformed, Period
<1>4. Accept(f)
  BY <1>1, <1>2, <1>3 DEF DecodeCAN
<1>5. CheckCounter(sent) /\ counterLow' = sent
  BY <1>3, <1>4 DEF Accept
<1>. QED BY <1>1, <1>2, <1>4, <1>5 DEF Accept, Send, Period

\* A frame damaged within one byte is counted and otherwise changes nothing.
LEMMA DisturbIsDropped ==
  ASSUME TypeOK, NEW i \in Bits, NEW mask \in Masks, Disturb(i, mask)
  PROVE  DropDamaged /\ Send /\ Miss
<1>. DEFINE f == Frame[15][sent][position][encoder]
<1>1. DecodeCAN(TRUE, [f EXCEPT ![i] = Xor[f[i]][mask]]) /\ Send /\ Miss
  BY DEF Disturb, Intact
<1>2. f \in Bytes /\ ValidateFrame(f)
  BY FrameOfTheLever, TypeFacts DEF Period
<1>. HIDE DEF f
<1>3. mask \in Byte /\ mask # {}
  BY LeverAssumption
<1>4. f[i] \in Byte
  BY <1>2 DEF Bytes, Bits
<1>5. Xor[f[i]][mask] \in Byte /\ Xor[f[i]][mask] # f[i]
  BY <1>3, <1>4, XorType, XorCancels DEF Byte
<1>6. ~ValidateFrame([f EXCEPT ![i] = Xor[f[i]][mask]])
  BY <1>2, <1>5, OneByteIsCaught DEF Bits
<1>. QED BY <1>1, <1>6 DEF DecodeCAN

\* So is a sound frame with another high nibble.
LEMMA MalformedIsDropped ==
  ASSUME TypeOK, SendMalformed
  PROVE  DropMalformed /\ Send /\ Miss
<1>. DEFINE f == Frame[10][sent][position][encoder]
<1>1. DecodeCAN(TRUE, f) /\ Send /\ Miss
  BY DEF SendMalformed, Malformed
<1>2. ValidateFrame(f) /\ f[1] = ByteOf(16 * 10 + sent)
  BY FrameOfTheLever, TypeFacts DEF Period
<1>. HIDE DEF f
<1>3. IsMalformed(f)
  BY <1>2, LowNibbleOfFrame, TypeFacts DEF IsMalformed, Period
<1>. QED BY <1>1, <1>2, <1>3 DEF DecodeCAN

-------------------------------------------------------------------------------
(* The invariant                                                           *)

\* One more frame missed, one more frame sent.
LEMMA ChainArithmetic ==
  ASSUME NEW p \in 0..14, NEW m \in 0..14
  PROVE  (p + 1 + (m + 1)) % 15 = (((p + 1 + m) % 15) + 1) % 15
OBVIOUS

\* The decoder starts with no chain, in PARK, and with a byte that is no gear.
LEMMA InitInv == ASSUME Init PROVE LeverInv
<1>1. TypeOK
  <2>1. 0 \in 0..(FailRange - 1)
    BY LeverAssumption
  <2>2. {counterLow, prevCounter} \subseteq 0..14 /\ missed \in 0..15 /\ sent \in 0..14
    BY DEF Init
  <2>3. {crcFails, ctrFails} \subseteq 0..(FailRange - 1)
    BY <2>1 DEF Init
  <2>4. rawGearByte \in Byte /\ leverEncoder \in Byte
    BY DEF Init, Byte
  <2>5. gear \in {"PARK", "NEUTRAL", "REVERSE", "DRIVE"} /\ prevCounterValid \in BOOLEAN
    BY DEF Init
  <2>6. position \in Positions /\ encoder \in Encoders
    BY DEF Init
  <2>. QED BY <2>2, <2>3, <2>4, <2>5, <2>6 DEF TypeOK, Period
<1>2. ChainFollowsTheLever
  BY DEF Init, ChainFollowsTheLever
<1>3. GearIsOfTheRawByte
  <2>1. 0 \in ByteOf(51) /\ 0 \in ByteOf(49) /\ 1 \in ByteOf(50) /\ 0 \in ByteOf(53)
    BY ByteBits
  <2>2. {} \notin DOMAIN GearOf
    BY <2>1 DEF GearOf
  <2>. QED BY <2>2 DEF Init, GearIsOfTheRawByte
<1>. QED BY <1>1, <1>2, <1>3 DEF LeverInv

\* The lever counts on and the frame is not accepted.
LEMMA MissKeepsInv ==
  ASSUME LeverInv, Send, Miss,
         UNCHANGED <<gear, rawGearByte, leverEncoder, counterLow, prevCounter, prevCounterValid>>,
         crcFails' \in 0..(FailRange - 1), ctrFails' \in 0..(FailRange - 1)
  PROVE  LeverInv'
<1>1. TypeOK'
  BY DEF LeverInv, TypeOK, Send, Miss, Period
<1>2. ChainFollowsTheLever'
  <2>. SUFFICES ASSUME prevCounterValid, missed' < 15
                PROVE  (prevCounter + 1 + missed') % 15 = (sent + 1) % 15
    BY DEF ChainFollowsTheLever, Send, Period
  <2>1. missed \in 0..14 /\ missed' = missed + 1 /\ prevCounter \in 0..14
    BY TypeFacts DEF LeverInv, Miss, Period
  <2>2. (prevCounter + 1 + missed) % 15 = sent
    BY <2>1 DEF LeverInv, ChainFollowsTheLever, Period
  <2>. QED BY <2>1, <2>2, ChainArithmetic
<1>3. GearIsOfTheRawByte'
  BY DEF LeverInv, GearIsOfTheRawByte
<1>. QED BY <1>1, <1>2, <1>3 DEF LeverInv

\* Every step keeps the invariant.
LEMMA StepInv == ASSUME LeverInv, [Next]_vars PROVE LeverInv'
<1>. TypeOK
  BY DEF LeverInv
<1>1. ASSUME NEW p \in Positions, NEW e \in Encoders, Move(p, e) PROVE LeverInv'
  <2>1. TypeOK'
    BY <1>1 DEF Move, decoder, TypeOK
  <2>2. ChainFollowsTheLever'
    BY <1>1 DEF Move, decoder, ChainFollowsTheLever, LeverInv
  <2>3. GearIsOfTheRawByte'
    BY <1>1 DEF Move, decoder, GearIsOfTheRawByte, LeverInv
  <2>. QED BY <2>1, <2>2, <2>3 DEF LeverInv
<1>2. ASSUME Arrive PROVE LeverInv'
  <2>1. TypeOK'
    <3>1. position \in Byte /\ encoder \in Byte
      BY TypeFacts, PositionsAreBytes, LeverAssumption
    <3>2. gear' \in {"PARK", "NEUTRAL", "REVERSE", "DRIVE"}
      BY <1>2, ArriveAccepts, GearOfType DEF GearShown, TypeOK
    <3>3. ctrFails' \in 0..(FailRange - 1)
      BY <1>2, ArriveAccepts, BumpType, TypeFacts DEF CheckCounter
    <3>4. /\ counterLow' = sent /\ prevCounter' = sent /\ prevCounterValid' = TRUE
          /\ rawGearByte' = position /\ leverEncoder' = encoder /\ crcFails' = crcFails
          /\ sent' = (sent + 1) % 15 /\ position' = position /\ encoder' = encoder
          /\ missed' = 0
      BY <1>2, ArriveAccepts DEF CheckCounter
    <3>. QED BY <3>1, <3>2, <3>3, <3>4, TypeFacts DEF TypeOK, Period
  <2>2. ChainFollowsTheLever'
    BY <1>2, ArriveAccepts, TypeFacts DEF ChainFollowsTheLever, CheckCounter, Period
  <2>3. GearIsOfTheRawByte'
    BY <1>2, ArriveAccepts DEF GearIsOfTheRawByte, GearShown
  <2>. QED BY <2>1, <2>2, <2>3 DEF LeverInv
<1>3. ASSUME Lose PROVE LeverInv'
  BY <1>3, MissKeepsInv, TypeFacts DEF Lose, decoder
<1>4. ASSUME SendMalformed PROVE LeverInv'
  BY <1>4, MalformedIsDropped, MissKeepsInv, BumpType, TypeFacts DEF DropMalformed
<1>5. ASSUME Overhear PROVE LeverInv'
  <2>1. UNCHANGED vars
    BY <1>5 DEF Overhear, DecodeCAN, Intact, vars
  <2>. QED BY <2>1 DEF vars, lever, decoder, LeverInv, TypeOK, ChainFollowsTheLever, GearIsOfTheRawByte
<1>6. ASSUME NEW i \in Bits, NEW mask \in Masks, Disturb(i, mask) PROVE LeverInv'
  BY <1>6, DisturbIsDropped, MissKeepsInv, BumpType, TypeFacts DEF DropDamaged
<1>7. CASE UNCHANGED vars
  BY <1>7 DEF vars, lever, decoder, LeverInv, TypeOK, ChainFollowsTheLever, GearIsOfTheRawByte
<1>. QED BY <1>1, <1>2, <1>3, <1>4, <1>5, <1>6, <1>7 DEF Next

\* In every reachable state of a lever and a bus with any set of positions and any
\* one-byte disturbances, the chain of counters hangs on the last frame accepted and
\* gear and telemetry are of one frame (iX4_Lever.cpp:78-126).
THEOREM LeverInvariant == Spec => []LeverInv
<1>1. Init => LeverInv
  BY InitInv
<1>2. LeverInv /\ [Next]_vars => LeverInv'
  BY StepInv
<1>. QED BY <1>1, <1>2, PTL DEF Spec

-------------------------------------------------------------------------------
(* What a step may not do                                                  *)

\* Whatever is lost, damaged, malformed or of another node, the decoder shows a new
\* gear only when a sound frame has brought it, and then the one the lever is in
\* (iX4_Lever.cpp:80-126).
THEOREM GearTheorem == Spec => GearMovesWithTheLever
<1>. DEFINE Shown == <<gear, rawGearByte, leverEncoder>>
            Obeys == Shown' # Shown =>
                       /\ rawGearByte' = position /\ leverEncoder' = encoder
                       /\ gear' # gear => position \in DOMAIN GearOf /\ gear' = GearOf[position]
<1>1. LeverInv /\ [Next]_vars => [Obeys]_vars
  <2>. SUFFICES ASSUME LeverInv, [Next]_vars PROVE Obeys
    OBVIOUS
  <2>. TypeOK
    BY DEF LeverInv
  <2>1. ASSUME NEW p \in Positions, NEW e \in Encoders, Move(p, e) PROVE Obeys
    BY <2>1 DEF Move, decoder
  <2>2. ASSUME Arrive PROVE Obeys
    BY <2>2, ArriveAccepts DEF GearShown
  <2>3. ASSUME Lose PROVE Obeys
    BY <2>3 DEF Lose, decoder
  <2>4. ASSUME SendMalformed PROVE Obeys
    BY <2>4, MalformedIsDropped DEF DropMalformed
  <2>5. ASSUME Overhear PROVE Obeys
    BY <2>5 DEF Overhear, DecodeCAN, Intact, decoder
  <2>6. ASSUME NEW i \in Bits, NEW mask \in Masks, Disturb(i, mask) PROVE Obeys
    BY <2>6, DisturbIsDropped DEF DropDamaged
  <2>7. CASE UNCHANGED vars
    BY <2>7 DEF vars, decoder
  <2>. QED BY <2>1, <2>2, <2>3, <2>4, <2>5, <2>6, <2>7 DEF Next
<1>. QED BY <1>1, LeverInvariant, PTL DEF Spec, GearMovesWithTheLever

\* The decoder counts modulo 16 and the lever modulo 15, and still no gap of 2 to 14
\* frames goes uncounted, and none is counted that was not (iX4_Lever.cpp:101-112).
THEOREM GapsTheorem == Spec => GapsAreCounted
<1>. DEFINE Counts == Arrive /\ prevCounterValid =>
                        /\ ctrFails' # ctrFails => missed # 0
                        /\ missed \in 2..(Period - 1) => ctrFails' # ctrFails
<1>1. LeverInv => [Counts]_vars
  <2>. SUFFICES ASSUME LeverInv, Arrive, prevCounterValid
                PROVE  /\ ctrFails' # ctrFails => missed # 0
                       /\ missed \in 2..(Period - 1) => ctrFails' # ctrFails
    OBVIOUS
  <2>1. TypeOK /\ ctrFails' = IF ~IsExpected(sent) THEN Bump(ctrFails) ELSE ctrFails
    BY ArriveAccepts DEF LeverInv, CheckCounter
  <2>2. missed < 15 => (prevCounter + 1 + missed) % 15 = sent
    BY DEF LeverInv, ChainFollowsTheLever, Period
  <2>3. IsExpected(sent) <=> sent = (prevCounter + 1) % 16 \/ sent = (prevCounter + 2) % 16
    BY DEF IsExpected, CounterRange
  <2>4. missed = 0 => IsExpected(sent)
    BY <2>1, <2>2, <2>3, TypeFacts
  <2>5. missed \in 2..14 => ~IsExpected(sent)
    BY <2>1, <2>2, <2>3, TypeFacts
  <2>. QED BY <2>1, <2>4, <2>5, TypeFacts, BumpType DEF Period
<1>. QED BY <1>1, LeverInvariant, PTL DEF GapsAreCounted
====
