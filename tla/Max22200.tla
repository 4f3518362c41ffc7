--------------------------------- MODULE Max22200 ---------------------------------
(***************************************************************************)
(* Registers and SPI frames of the MAX22200 solenoid driver, as            *)
(* firmware/solenoid_driver/max22200_regs.h lays them out.  A              *)
(* configuration register is a number of 24 bits, FaultStatus the set of   *)
(* its one bits, a frame a sequence of four bytes.                         *)
(***************************************************************************)
EXTENDS Integers, Sequences

Register == 0..(2^24 - 1)

\* The n bits of word from position p on.
Bits(word, p, n) == (word \div 2^p) % 2^n

\* Register address of the first channel; the others follow.
Cfg_Ch0 == 1

\* Fields of a channel's configuration word.
IHIT   == [shift |-> 0,  width |-> 7]
IHOLD  == [shift |-> 7,  width |-> 7]
THIT   == [shift |-> 14, width |-> 7]
ENABLE == [shift |-> 21, width |-> 1]
TOPO   == [shift |-> 22, width |-> 2]

Put(f, v)    == (v % 2^f.width) * 2^f.shift
Get(f, word) == Bits(word, f.shift, f.width)

LowSide == 0     \* Topology

kIRangeMa  == 1000
kIDacSteps == 128

MaToCode(ma) ==
  IF ma >= kIRangeMa THEN kIDacSteps - 1 ELSE (ma * (kIDacSteps - 1)) \div kIRangeMa

CodeToMa(code) == (code * kIRangeMa) \div (kIDacSteps - 1)

kTHitFullMs   == 200
kTHitDacSteps == 128

MsToHitCode(ms) ==
  IF ms >= kTHitFullMs THEN kTHitDacSteps - 1
  ELSE (ms * (kTHitDacSteps - 1)) \div kTHitFullMs

\* Position of each kind of fault among the three bits of a channel.
FaultPosition == [open_load |-> 0, short_to_supply |-> 1, over_current |-> 2]

\* Three bits for each channel.
FaultBit(ch, kind) == 3 * ch + FaultPosition[kind]

ChannelFault(ch, reg) == {kind \in DOMAIN FaultPosition : FaultBit(ch, kind) \in reg}

CMD_WRITE_BIT == 0

BuildWrite(addr, value24) ==
  <<CMD_WRITE_BIT + 2 * addr,
    Bits(value24, 16, 8), Bits(value24, 8, 8), Bits(value24, 0, 8)>>

DecodeReadResponse(bytes) == bytes[2] * 2^16 + bytes[3] * 2^8 + bytes[4]
===================================================================================
