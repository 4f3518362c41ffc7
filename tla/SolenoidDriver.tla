------------------------------ MODULE SolenoidDriver ------------------------------
(***************************************************************************)
(* How a command reaches the solenoids: the loops of TcuBind::Tick that    *)
(* write the two MAX22200 and poll their faults, on wrapping 32-bit time   *)
(* with UINT32_MAX for "never", one SPI transfer at a time, down to the    *)
(* configuration words the chips hold.  What ShiftLogic and ParkLock       *)
(* command is an input here; TcuBind has it in full and takes batch and    *)
(* poll as one step each.                                                  *)
(*                                                                         *)
(* The chips are external: a write sets a register, a read of FaultStatus  *)
(* returns and clears it, and a fault may be raised at any moment.         *)
(*                                                                         *)
(* A definition commented "Variant" is a plausible mistake in the one that *)
(* follows it, used by the sensitivity runs only.                          *)
(***************************************************************************)
EXTENDS Max22200, FiniteSets

CONSTANTS TimeRange,          \* now_ms is a uint32_t: 2^32
          kSolenoidLoopMs, kFaultPollMs,
          Deltas,             \* times that may pass between two Ticks
          hit_ma, hold_ma,    \* SolenoidCalibration, by solenoid
          Masks,              \* engagement masks, sets of positions 0..7
          Faults              \* what may be raised: sets of <<chip, channel, kind>>

VARIABLES now_ms,
          last_solenoid_loop_ms, last_fault_poll_ms,
          pc,                 \* where Tick stands
          engagement_mask,    \* what this Tick commands
          frames,             \* SPI transfers of this batch still to come
          chip0,              \* what PollMaxFaults has read of the first chip
          fault_bits,         \* the solenoid bits of fault_bits_
          cfg,                \* the chips: configuration word by chip and channel
          raised,             \* the chips: faults in the FaultStatus registers
          written_mask,       \* the mask of the last batch that was completed
          since_batch, since_poll    \* true times since, saturating

tickVars == <<now_ms, last_solenoid_loop_ms, last_fault_poll_ms, pc,
              engagement_mask, frames, chip0, fault_bits>>

chipVars == <<cfg, raised>>

historyVars == <<written_mask, since_batch, since_poll>>

vars == <<tickVars, chipVars, historyVars>>

Chips    == 0..1
Channels == 0..7
Kinds    == DOMAIN FaultPosition

\* No Tick comes a whole turn of the clock late: 49 days less one cadence.
ASSUME TimeAssumption ==
  /\ TimeRange \in Nat /\ {kSolenoidLoopMs, kFaultPollMs} \subseteq 1..(TimeRange - 1)
  /\ Deltas \subseteq Nat
  /\ \A dt \in Deltas : dt + kSolenoidLoopMs <= TimeRange /\ dt + kFaultPollMs <= TimeRange

ASSUME InputAssumption ==
  /\ {hit_ma, hold_ma} \subseteq [0..8 -> 0..(2^16 - 1)]      \* uint16_t
  /\ Masks \subseteq SUBSET (0..7)
  /\ UNION Faults \subseteq Chips \X Channels \X Kinds

\* UINT32_MAX
Never == TimeRange - 1

MaxAge == kSolenoidLoopMs + kFaultPollMs

-------------------------------------------------------------------------------
(* Solenoids                                                               *)

Bound(chip, channel, hit_ms) ==
  [chip_index |-> chip, channel |-> channel, hit_ms |-> hit_ms, topology |-> LowSide]

\* By SolenoidId: the clutches A to E, Tcc, LinePressure, ParkHold, ParkRelease.
kSolenoidBinding ==
  [s \in 0..8 |-> CASE s <= 6 -> Bound(0, s, 30)
                   [] s = 7  -> Bound(1, 0, 100)
                   [] s = 8  -> Bound(1, 1, 200)]

Solenoid == DOMAIN kSolenoidBinding

\* Variant: the currents are written, the enable bit is not.
EncodeWithoutEnable(cmd) ==
  Put(IHIT, MaToCode(cmd.i_hit_ma)) + Put(IHOLD, MaToCode(cmd.i_hold_ma))
    + Put(THIT, MsToHitCode(cmd.t_hit_ms)) + Put(TOPO, cmd.topology)

EncodeChannelCfg(cmd) ==
  Put(IHIT, MaToCode(cmd.i_hit_ma)) + Put(IHOLD, MaToCode(cmd.i_hold_ma))
    + Put(THIT, MsToHitCode(cmd.t_hit_ms)) + Put(TOPO, cmd.topology)
    + Put(ENABLE, IF cmd.enable THEN 1 ELSE 0)

BuildConfigWrite(cmd) == BuildWrite(Cfg_Ch0 + cmd.channel, EncodeChannelCfg(cmd))

Command(s, mask) ==
  [channel   |-> kSolenoidBinding[s].channel,
   enable    |-> s \in mask,
   i_hit_ma  |-> IF s \in mask THEN hit_ma[s] ELSE 0,
   i_hold_ma |-> IF s \in mask THEN hold_ma[s] ELSE 0,
   t_hit_ms  |-> kSolenoidBinding[s].hit_ms,
   topology  |-> kSolenoidBinding[s].topology]

Transfer == [chip : Chips, bytes : [1..4 -> 0..255]]

FrameOf(s, mask) ==
  [chip |-> kSolenoidBinding[s].chip_index, bytes |-> BuildConfigWrite(Command(s, mask))]

\* The solenoids on each chip, in their order.
SolenoidsOf ==
  [chip \in Chips |->
     LET own == {s \in Solenoid : kSolenoidBinding[s].chip_index = chip}
     IN  [i \in 1..Cardinality(own) |->
            CHOOSE s \in own : Cardinality({t \in own : t < s}) = i - 1]]

\* The transfers for one chip.
BuildFramesForChipMask(chip, mask) ==
  [i \in DOMAIN SolenoidsOf[chip] |-> FrameOf(SolenoidsOf[chip][i], mask)]

Batch(mask) == BuildFramesForChipMask(0, mask) \o BuildFramesForChipMask(1, mask)

\* DecodeFaults and FaultsToTcuStatus2Bits: which kinds some channel reports.
FaultsToTcuStatus2Bits(reg0, reg1) ==
  UNION {ChannelFault(ch, reg0) \cup ChannelFault(ch, reg1) : ch \in Channels}

-------------------------------------------------------------------------------
(* The chips                                                               *)

\* Which register a frame addresses, by channel; anything else is not a write
\* to a configuration register.
WriteRegister(chip, bytes) ==
  cfg' = [cfg EXCEPT ![chip] =
            [ch \in Channels |->
               IF bytes[1] = CMD_WRITE_BIT + 2 * (Cfg_Ch0 + ch)
               THEN DecodeReadResponse(bytes) ELSE @[ch]]]

\* FaultStatus of a chip.
FaultRegister(chip) ==
  {FaultBit(f[2], f[3]) : f \in {g \in raised : g[1] = chip}}

\* A fault is detected; it stays in the register until it is read.
Raise(faults) ==
  /\ ~(faults \subseteq raised)
  /\ raised' = raised \cup faults
  /\ UNCHANGED <<tickVars, cfg, historyVars>>

-------------------------------------------------------------------------------
(* Tick                                                                    *)

Init ==
  /\ now_ms \in 0..(TimeRange - 1)
  /\ last_solenoid_loop_ms = Never /\ last_fault_poll_ms = Never
  /\ pc = "boot"                 \* Tick has not been called yet
  /\ engagement_mask = {}
  /\ frames = <<>>
  /\ chip0 = {}
  /\ fault_bits = {}
  /\ cfg = [chip \in Chips |-> [ch \in Channels |-> 0]]
  /\ raised = {}
  /\ written_mask = {}
  /\ since_batch = MaxAge /\ since_poll = MaxAge

\* Variant: times are compared and not their difference.
DueByComparison(last_ms, cadence) ==
  last_ms = Never \/ now_ms >= (last_ms + cadence) % TimeRange

due(last_ms, cadence) ==
  last_ms = Never \/ (now_ms - last_ms) % TimeRange >= cadence

Least(a, b) == IF a < b THEN a ELSE b

Later(a, dt) == Least(a + dt, MaxAge)

\* Tick is called, dt after the last call; the state machines command mask.
BeginTick(dt, mask) ==
  /\ pc \in {"boot", "sleep"}
  /\ now_ms' = (now_ms + dt) % TimeRange
  /\ engagement_mask' = mask
  /\ since_batch' = Later(since_batch, dt)
  /\ since_poll' = Later(since_poll, dt)
  /\ pc' = "solenoids"
  /\ UNCHANGED <<last_solenoid_loop_ms, last_fault_poll_ms, frames, chip0,
                 fault_bits, chipVars, written_mask>>

BeginBatch ==
  /\ pc = "solenoids" /\ due(last_solenoid_loop_ms, kSolenoidLoopMs)
  /\ frames' = Batch(engagement_mask)
  /\ pc' = "write"
  /\ UNCHANGED <<now_ms, last_solenoid_loop_ms, last_fault_poll_ms,
                 engagement_mask, chip0, fault_bits, chipVars, historyVars>>

NoBatch ==
  /\ pc = "solenoids" /\ ~due(last_solenoid_loop_ms, kSolenoidLoopMs)
  /\ pc' = "faults"
  /\ UNCHANGED <<now_ms, last_solenoid_loop_ms, last_fault_poll_ms,
                 engagement_mask, frames, chip0, fault_bits, chipVars, historyVars>>

\* spi_write_max22200
WriteFrame ==
  /\ pc = "write" /\ frames # <<>>
  /\ WriteRegister(Head(frames).chip, Head(frames).bytes)
  /\ frames' = Tail(frames)
  /\ UNCHANGED <<now_ms, last_solenoid_loop_ms, last_fault_poll_ms, pc,
                 engagement_mask, chip0, fault_bits, raised, historyVars>>

EndBatch ==
  /\ pc = "write" /\ frames = <<>>
  /\ last_solenoid_loop_ms' = now_ms
  /\ written_mask' = engagement_mask
  /\ since_batch' = 0
  /\ pc' = "faults"
  /\ UNCHANGED <<now_ms, last_fault_poll_ms, engagement_mask, frames, chip0,
                 fault_bits, chipVars, since_poll>>

\* spi_read_fault_status(0)
ReadFirstChip ==
  /\ pc = "faults" /\ due(last_fault_poll_ms, kFaultPollMs)
  /\ chip0' = FaultRegister(0)
  /\ raised' = {f \in raised : f[1] # 0}
  /\ pc' = "second"
  /\ UNCHANGED <<now_ms, last_solenoid_loop_ms, last_fault_poll_ms,
                 engagement_mask, frames, fault_bits, cfg, historyVars>>

\* Variant: what the second chip reports is read and dropped.
BitsOfTheFirst ==
  fault_bits' = FaultsToTcuStatus2Bits(chip0, {})

BitsOfBoth ==
  fault_bits' = FaultsToTcuStatus2Bits(chip0, FaultRegister(1))

\* spi_read_fault_status(1), and the new bits.
ReadSecondChip ==
  /\ pc = "second"
  /\ BitsOfBoth
  /\ raised' = {f \in raised : f[1] # 1}
  /\ last_fault_poll_ms' = now_ms
  /\ since_poll' = 0
  /\ chip0' = {}                       \* a local of PollMaxFaults
  /\ pc' = "sleep"
  /\ UNCHANGED <<now_ms, last_solenoid_loop_ms, engagement_mask, frames, cfg,
                 written_mask, since_batch>>

NoPoll ==
  /\ pc = "faults" /\ ~due(last_fault_poll_ms, kFaultPollMs)
  /\ pc' = "sleep"
  /\ UNCHANGED <<now_ms, last_solenoid_loop_ms, last_fault_poll_ms,
                 engagement_mask, frames, chip0, fault_bits, chipVars, historyVars>>

InTick ==
  \/ BeginBatch \/ NoBatch \/ WriteFrame \/ EndBatch
  \/ ReadFirstChip \/ ReadSecondChip \/ NoPoll

Next ==
  \/ \E dt \in Deltas, mask \in Masks : BeginTick(dt, mask)
  \/ InTick
  \/ \E faults \in Faults : Raise(faults)

Spec == Init /\ [][Next]_vars

\* A Tick once begun is finished, the main loop goes on and its clock runs: the
\* fairness is strong because no Tick begins within another.
FairSpec ==
  /\ Spec
  /\ WF_vars(InTick)
  /\ SF_vars(\E dt \in Deltas \ {0}, mask \in Masks : BeginTick(dt, mask))

-------------------------------------------------------------------------------
(* Properties                                                              *)

TypeOK ==
  /\ {now_ms, last_solenoid_loop_ms, last_fault_poll_ms} \subseteq 0..(TimeRange - 1)
  /\ pc \in {"boot", "sleep", "solenoids", "write", "faults", "second"}
  /\ engagement_mask \in Masks \cup {{}} /\ written_mask \in Masks \cup {{}}
  /\ frames \in Seq(Transfer)
  /\ chip0 \subseteq 0..23
  /\ fault_bits \subseteq Kinds
  /\ cfg \in [Chips -> [Channels -> Register]]
  /\ raised \subseteq Chips \X Channels \X Kinds
  /\ {since_batch, since_poll} \subseteq 0..MaxAge

\* What a configuration word tells the chip to do.
IsOn(word) == Get(ENABLE, word) = 1

Drives(word, s) ==
  /\ IsOn(word)
  /\ hit_ma[s]  - CodeToMa(Get(IHIT, word))  \in 0..8 \/ hit_ma[s]  > kIRangeMa
  /\ hold_ma[s] - CodeToMa(Get(IHOLD, word)) \in 0..8 \/ hold_ma[s] > kIRangeMa
  /\ Get(TOPO, word) = LowSide

IsOff(word) == ~IsOn(word) /\ Get(IHIT, word) = 0 /\ Get(IHOLD, word) = 0

Word(s) == cfg[kSolenoidBinding[s].chip_index][kSolenoidBinding[s].channel]

\* Once a batch is written, the chips drive exactly the commanded solenoids, at
\* the calibrated currents less at most one step of the converter; the others
\* are off with no current set (tcu_bind.cpp:181-195, solenoids.cpp:19-78,
\* max22200_regs.h:119-176).
ChipsHoldTheBatch ==
  pc # "write" =>
    \A s \in Solenoid : IF s \in written_mask THEN Drives(Word(s), s) ELSE IsOff(Word(s))

\* A channel without a solenoid is never touched (solenoids.h:52-62).
OthersStayUnset ==
  \A chip \in Chips, ch \in Channels :
    cfg[chip][ch] # 0 =>
      \E s \in Solenoid : kSolenoidBinding[s].chip_index = chip
                            /\ kSolenoidBinding[s].channel = ch

\* While it is written, each solenoid is as the last batch left it or as this one
\* wants it: nothing else is ever switched on in between (tcu_bind.cpp:185-195).
NothingInBetween ==
  \A s \in Solenoid : IsOn(Word(s)) => s \in written_mask \cup engagement_mask

\* A batch is written in the order of the solenoids: those written hold the words of
\* this mask, the others those of the last one, or what the chips woke up with.
HoldsFor(s, mask) == Word(s) = EncodeChannelCfg(Command(s, mask))

LeftAlone(s) == HoldsFor(s, written_mask) \/ (written_mask = {} /\ Word(s) = 0)

Written == Cardinality(Solenoid) - Len(frames)

BatchInOrder ==
  /\ pc # "write" => frames = <<>> /\ \A s \in Solenoid : LeftAlone(s)
  /\ pc = "write" =>
       /\ Written >= 0
       /\ \A i \in DOMAIN frames : frames[i] = FrameOf(Written + i - 1, engagement_mask)
       /\ \A s \in Solenoid :
            IF s < Written THEN HoldsFor(s, engagement_mask) ELSE LeftAlone(s)

\* The difference on the wrapping clock is the time that has passed, as long as a
\* loop has run at all; in a Tick a loop that was passed by is not due.
IsAge(since, last_ms) ==
  last_ms = Never \/ since = Least((now_ms - last_ms) % TimeRange, MaxAge)

AgesAreTrue ==
  /\ IsAge(since_batch, last_solenoid_loop_ms)
  /\ IsAge(since_poll, last_fault_poll_ms)
  /\ pc = "boot" => last_solenoid_loop_ms = Never /\ last_fault_poll_ms = Never
  /\ pc \in {"faults", "second", "sleep"} => since_batch < kSolenoidLoopMs

\* After a Tick no loop is overdue, whatever the clock reads, across its wrap and
\* at the value that stands for "never" (tcu_bind.cpp:108-121).
NoLoopStarves ==
  pc = "sleep" => since_batch < kSolenoidLoopMs /\ since_poll < kFaultPollMs

DriverInv ==
  /\ TypeOK
  /\ ChipsHoldTheBatch
  /\ OthersStayUnset
  /\ NothingInBetween
  /\ NoLoopStarves
  /\ BatchInOrder
  /\ AgesAreTrue

\* A batch comes before its time only if the last one was written at the very
\* millisecond that stands for "never" (tcu_bind.cpp:109): the wrap of the clock
\* alone brings none forward.
BatchesKeepTheirCadence ==
  [][frames = <<>> /\ frames' # <<>> =>
       since_batch >= kSolenoidLoopMs \/ last_solenoid_loop_ms = Never]_vars

\* Whatever fault a chip detects, on whichever channel and at whatever moment of
\* a poll, comes to be in the fault bits although reading it clears it
\* (tcu_bind.cpp:198-214).
EveryFaultIsPublished ==
  \A f \in UNION Faults : f \in raised ~> f[3] \in fault_bits
====================================================================================
