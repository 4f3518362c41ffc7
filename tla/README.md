# A formal model of the openinverter ZF 8HP TCU firmware

The repository holds the open firmware of a transmission control unit (TCU) for the ZF 8HP gearbox: `proposals/firmware`
with its CAN database, a Python test harness, a HARA, hardware generators and an archive of captures. This directory
holds TLA+ modules of the firmware's control core, TLC configurations that check them, and TLAPS proofs.

Paths below are relative to `src/proposals`. A bare `file.cpp:10` is in `firmware`.

    tlc -workers 2 -config MCShiftLogic.cfg MCShiftLogic      # one run; PROJECT.json names all of them
    tlapm ShiftLogicProofs.tla                                # the proofs of one module

## 1. Inventory

The TCU main loop calls `TcuBind::Tick(now_ms)` once a millisecond. `Tick` runs two state machines, writes their
commands to two MAX22200 solenoid drivers, polls the drivers' fault registers and sends status frames. CAN frames come
in through `TcuBind::OnCanRx`.

            VCU ----- VCU_GearRequest, VCU_VehicleInfo (TorqueCutAck) -----+
             ^                                                             v
             |                                                    TcuBind::OnCanRx
    Status1, ShiftStatus,                                   RequestGear |  | RequestEngaged
    Status2, PumpStatus                                                 v  v
             |                                                ShiftLogic    ParkLock <--- contacts, speed
             +--------------------- TcuBind::Tick <--- command ----+----------+
                                          |  ^
                        SPI batch, 10 ms  v  | fault registers, 100 ms
                                       two MAX22200

| Component | State | Operations | What is hard about it | What makes it correct |
|---|---|---|---|---|
| Shift orchestration, `shift_logic/` | current, target and next gear, phase and its start, acknowledgement, fault | `RequestGear`, `SetTorqueCutAck`, `Tick` | requests in any phase; the acknowledgement races a timeout; Ticks come late; ramp arithmetic cut to 8 bits | one gear at a time, one element at a time, nothing drained without a torque cut, a step given up leaves no trace, requests are served, torque comes back |
| Park lock, `park_lock/` | state, fault, request, pulse start | `RequestEngaged`, `ClearFault`, `Tick` | contacts break and chatter, the car starts to roll in mid-pulse, the pawl sticks | the pawl moves only when standing and its position is beyond doubt; ParkLock is published only when confirmed; a pulse is bounded; a stuck pawl is reported and retried |
| Bind layer, `tcu_bind/` | both machines, the latched VCU frames, staleness, fault bits, shift count, one timestamp per cadence, last commands | `OnCanRx`, `Tick` | three places rewrite `fault_bits_`; a 1 ms machine is sampled at 10 ms; a silent VCU; order inside a Tick | fault bits agree with their causes and reach the bus; every step counted once; the enabled clutches are always those of a gear or of two neighbours |
| Solenoid driver, `solenoid_driver/` | none; the chips hold what was last written | `BuildFramesForChipMask`, `DecodeFaults`, `FaultsToTcuStatus2Bits` | nine solenoids, an 8-bit mask; a batch is nine transfers; reading a fault clears it | the channels enabled are the ones commanded, also halfway through a batch; no fault is lost |
| CAN layer, `can_codegen/` | structs to send, last frame decoded of each kind, counters, statistics | `DecodeRx`, `PackTx`, 15 setters | frames lost, repeated or short; 51 signals packed into six frames, some written by hand; values beyond their signal | what is read is something that was sent, never older than what was read before; the counters measure what was lost |
| VCU (not in the repository) | motor torque, cycle of its frames | the frames of `dbc/zf8hp-tcu.dbc` | 100 ms cycle against a 50 ms budget | see the handshake |
| LIN pump simulator, `test_harness/lin_pump.py` | protocol state, echo seed, expected counter, times | `rx_master` | coldstart timing against lost frames, watchdog, a seed to mirror, recovery through silence | no run without a full coldstart; a fault has a cause; the pair comes to run once the bus is calm |
| iX4 lever decoder, `bmw_g26_lever/` | last gear, last counter, statistics | `DecodeCAN` | damaged and lost frames; the lever counts 0 to 14, the decoder modulo 16 | only a sound frame moves the gear; gaps are counted; the lever is followed in the end |
| Scenario orchestrator, plant model, replay, HARA tool, hardware generators | test doubles, tables, file writers | | | not modelled, see section 8 |

The hazards of this code, each at its line, are listed in `PROJECT.json` under `hazards`, with the properties that cover
them or the reason why none does yet.

## 2. Modules

| Module | Role | Extends or instantiates |
|---|---|---|
| `ClutchTable` | elements, gears, the clutch table and its `static_assert`s | |
| `GearPath` | abstract: a walk along a graph, one edge at a time | |
| `ShiftLogic` | the shift state machine | `ClutchTable`; `GearPath` as the specification it implements |
| `ParkLock` | the park lock state machine | |
| `TcuBind` | bind layer over both machines, solenoid batches, faults, frames | `ClutchTable`; `ShiftLogic` and `ParkLock` instantiated over its variables |
| `Handshake` | `TcuBind` and a VCU that follows the DBC | `TcuBind` |
| `TickIsr` | `Tick` cut at its accesses, `OnCanRx` as an interrupt | `ClutchTable`; `ShiftLogic` instantiated |
| `Max22200` | registers, codes and SPI frames of the driver chip | |
| `SolenoidDriver` | the two SPI loops of `Tick`, transfer by transfer, on wrapping time, with the chips | `Max22200` |
| `TcuCodec` | the six CAN messages: layout, pack, unpack, ranges | |
| `SignalMirror` | abstract: what a cyclic message promises its reader | |
| `CanLink` | two `Can_ZF8HP` and a bus that loses, repeats and shortens frames | `TcuCodec`; `SignalMirror` as the specification it implements |
| `IX4Lever` | lever decoder, lever and bus | |
| `LinPump` | the pump, frame by frame | |
| `PumpMaster` | the pump with a master over a lossy bus | `LinPump` |
| `MC...` | values of the constants for TLC | one each |
| `...Proofs` | theorems; those about `TcuBind` are in `HandshakeProofs` | one each, TLAPS |

Conventions in all of them:

- **Time.** The firmware keeps absolute start times and compares `now_ms - start` with a budget. The models keep the
  difference, the *age*, and a `Tick` carries the time `dt` since the previous one. An age saturates at `MaxAge`, which
  no threshold exceeds, so no comparison can tell. Deltas include 0 (two calls in one millisecond), 1 and 2 (late).
  The 32-bit wrap of `now_ms` and the `UINT32_MAX` sentinel of the cadence trackers are not visible here;
  `SolenoidDriver` is about them and keeps wrapping times.
- **Commands are state functions.** `ShiftCommand` depends only on the state the Tick leaves, so `EngagedSet`,
  `RampProgress`, `TorqueCutRequest` ... are operators. `ParkCommand` likewise, except for `park_lock_engaged`.
- **Frames are what was last sent**, one record per kind, with the fields some property tells apart.
- A definition commented *Variant* is a plausible mistake in the one after it. The model never uses it; put in that
  definition's place, it makes a named property fail, which shows that the property is sensitive to that code.

### ShiftLogic (`shift_logic/shift_logic.cpp`, `.h`)

`current`, `target`, `next_step`, `phase`, `fault`, `torque_cut_ack` are the members of those names with an underscore;
`elapsed` is the age of `phase_started_ms_`. `Tick` is the disjunction of the alternatives of the code's switch:
`RejectTarget` (the check before it), `StartStep` and `RestInGear` (Idle), `EndPreFill`, `TorqueIsCut`,
`TimeOutTorqueCut`, `EndOverlap`, `EndComplete`, and `Wait` for a phase whose budget has not run out. `TickWith(ack, dt)`
is `SetTorqueCutAck` followed by `Tick`, which is how the bind layer calls it. No statement of the code enters `Limp` or
sets the faults `OverlapTimeout` and `ClutchTableInconsistent`, so nothing does here. `SetVehicleStationary` is left
out, since nothing reads what it sets.

### ParkLock (`park_lock/park_lock.cpp`, `.h`)

`state`, `fault`, `request_engaged`, `elapsed` as above. `Tick(s, dt)` is `SenseFault`, `Done`, `Block`, `TimeOut` or
`Drive`. The two directions are mirror images in the code and one definition here, with `Moving`, `Pulse` and `Budget`
choosing the direction. A speed is only compared with one threshold, so a reading has a boolean `moving`. Two variables
record what the code does not keep: `reading`, the last sensors read, and `driven`, for how long the solenoid that is on
has been on without a break. No guard reads either. The runs reach it where the firmware does, through `TcuBind`, which
restates its promises under the same names. `ClearFault` is called by the unit tests only (`test_park_lock.cpp:124`): the
bind layer has no such step, and the theorems of `ParkLockProofs` include it.

### TcuBind (`tcu_bind/tcu_bind.cpp`, `.h`)

`Tick` is one action made of conjuncts in the order of the code: `CheckStale`, `Shift!TickWith`, `Park!Tick`,
`CountShift`, `EmitSolenoids`, `PollMaxFaults`, `EmitStatus1`, `EmitShiftStatus`, `EmitStatus2`. What a part of the code
computes after another is an expression over primed variables. `fault_bits` goes through `BitsAfterPark` (stale check
and park fault) and then `PollMaxFaults`. `channels` is the set of solenoids the last SPI batch enabled;
`SolenoidBit` keeps the width of the mask, `{id} \cap 0..7`, which is how the bit of `ParkRelease` (id 8) is lost.
`OnCanRx` is `OnGearRequest`, `OnHoldRequest` (S, Limp, Invalid, reserved) and `OnVehicleInfo`, between two Ticks.

### Handshake (`dbc/zf8hp-tcu.dbc`)

`TimePasses` is a Tick of the TCU in which the VCU obeys the ShiftStatus frame that was sent, `SendVehicleInfo` the
VCU's cyclic frame with `TorqueCutAck` saying whether torque is cut now. The cycle may stand anywhere when the TCU
boots. No frame is lost or late and the VCU reacts at once, so every failure shown is one with a healthy VCU.

### TickIsr (`tcu_bind/tcu_bind.cpp`, `shift_logic/shift_logic.cpp`)

`tcu_bind.h:97` allows `OnCanRx` to be an interrupt. It shares with `Tick` the target, the latched acknowledgement, the
stale flag, the time of the last request and `fault_bits_`; `pc` stands before the next of `Tick`'s accesses to them,
and one action runs from one access to the next. `t` and `bits` are the values read and not yet used. That the target
is read three times for its validity, once in Idle and three times in `PlanNextStep` is the order of
`shift_logic.cpp:66-80, 31-53`; a compiler that merges two reads gives a subset of these behaviours. The phases that do
not look at the target again are those of `ShiftLogic`. Park and the frames stay with `TcuBind`; what is left of their
part in `Tick` is that they rewrite `fault_bits_`.

### SolenoidDriver and Max22200 (`solenoid_driver/`, `tcu_bind.cpp:108-121, 159-215`)

`frames` is what is left of a batch, one transfer per action; `cfg` and `raised` are the registers of the chips, which
are external: a write sets a configuration word, reading FaultStatus clears it. `now_ms` and the two time stamps wrap
at `TimeRange`, and `Never` is the largest value. What the state machines command is the input `mask` of a Tick.
`written_mask`, `since_batch` and `since_poll` are history and read by no guard. Currents and times go through the real
codes of `Max22200` at their real widths.

### TcuCodec, CanLink and SignalMirror (`can_codegen/`)

A frame is the set of its one bits, so packing is a union and a signal outside its field would show. The generated code
has four functions per signal and three per message, all alike: the operators are in `TcuCodec` once, the start, length,
sign, range and unit of every signal in its tables. `CanLink` has the members of both objects, each side using its half.
Messages share no member but `decodeErrors`, so a behaviour exchanges one of the six (`active`). Floats that are multiples
of a hundredth appear as integers in hundredths; where an encoder divides by 0.1 or 0.01 in binary and may fall one short,
`Encodings` has both outcomes.

### IX4Lever (`bmw_g26_lever/iX4_Lever.cpp`)

A byte is the set of its bits and the CRC is computed from them, with the table the code builds, so whether a damaged
frame is noticed is not assumed. The lever counts modulo 15, as every capture shows; the decoder expects modulo 16.
`missed`, the number of frames since the last one accepted, is history.

### LinPump and PumpMaster (`test_harness/lin_pump.py`)

Time runs in slots of 25 ms: `RxMaster` is `rx_master` for a frame, `RxShort` for one of the wrong length, `Idle` a slot
without one. `Awake` is what `_maybe_sleep_reset` leaves; `Start`, `Coldstart`, `BeginRun` and `KeepRunning` are the
branches by state. The master is external: `cold_to_run` of `test_lin_pump_simulator.py:31`, with the reaction to faults of
`notes/lin_pump_protocol.md` (silence until the pump sleeps). `warm`, `missed`, `deaf` are history. `calm` ends the losses.

## 3. Runs

| Run | Configuration | Question | Answer |
|---|---|---|---|
| `shift` | `MCShiftLogic.cfg` | safety and progress of the shift machine, requests and acknowledgements at any time; is `GearPath` implemented | holds; 29 000 states |
| `bind_park` | `MCTcuBindPark.cfg` | the composition parking: broken contacts, rolling car, driver faults, a silent VCU, a pawl that sticks | holds; 217 000 |
| `handshake_fast` | `MCHandshake.cfg` | does the handshake work if `VCU_VehicleInfo` comes every 20 ms; the composition on the road | yes; 220 000 |
| `tick_isr` | `MCTickIsr.cfg` | what survives `OnCanRx` as an interrupt inside `Tick` | all but finding 4; 496 000 |
| `driver` | `MCSolenoidDriver.cfg` | are the chips told what was commanded, on time, across the wrap; is every fault published | holds; 100 000 |
| `can_link` | `MCCanLink.cfg` | does the reader of a message hold what its sender meant, over a bad bus | holds; 155 000 |
| `lever` | `MCIX4Lever.cfg` | can anything but a sound frame move the gear; are gaps counted, is the lever followed | holds; 44 000 |
| `pump` | `MCPumpMaster.cfg` | coldstart, watchdog and recovery of pump and master over a bad bus | holds, with the livelock of section 6; 203 000 |
| `park_release` | `ReleaseIsEnergised.cfg` | is a commanded release energised | no |
| `stale_ack` | `OverlapMeansTorqueIsCut.cfg` | is torque cut when clutches swap, at the documented cycle | no |
| `missed_handshake` | `RequestReachesGear.cfg` | is a gear requested reached with a healthy VCU, at the documented cycle | no |
| `isr_fault` | `InvalidMeansUnreachable.cfg` | is only an unreachable request faulted as invalid | no |

### Bounds, and why they are enough

- `shift` has the shipped clutch table, every gear, both kinds of invalid request and the shipped calibration in units of 10 ms (3/5/12/3). The only bounds are the Deltas
  0, 1, 2: a second call in one unit, in time, late. The theorems of section 5 hold for the calibration in milliseconds.
- `bind_park` scales all times: phases 2/3/4/2, solenoid loop 2, 20 ms cadence 3, 100 ms cadence and
  fault poll 6, stale after 7. What is kept is the order the properties depend on: every phase that switches elements
  lasts at least one solenoid loop, the fast cadence lies above the loop, the slow ones above the shift phases, and the
  stale threshold beyond them all. `Parking` has a reading of every kind the park
  lock tells apart: the pawl down or up, the car standing or rolling, a broken contact. Pulses last 2 and budgets 4 in both
  directions: equal, the budget beyond the pulse, as shipped (`park_lock.h:73-76`).
- `handshake_fast` counts in units of 10 ms (3/5/12/3, loop 1, cadences 2 and 10, cycle 2), `stale_ack` in units of 5 ms
  (6/10/24/6, loop 2, cadences 4 and 20, cycle 20),
  `missed_handshake` again in 10 ms with the documented cycle of 10: exact multiples of the real figures.
  Only the park times are arbitrary there, the car rolling all the time. In the coarser unit every change of phase
  costs 10 ms, and that hides `stale_ack`; it hides nothing from `handshake_fast`, where a ShiftStatus frame (at most
  20 ms) and a VCU frame (at most 20 ms) carry a request or its withdrawal to the VCU and back within 40 ms, less than
  the 50 ms budget and less than the 60 ms from the end of one overlap to the next TorqueCut phase.
- `tick_isr`: phases 2/2/3/2, loop 2, stale after 2, Ticks 1 or 2 apart. Requests for first gear, second gear and Reverse
  give steps out of, into and away from Neutral and a two-sided step, and every pair of them meets every pair of reads.
- `driver`: the clock has 8 values, loops every 2 and 3, so wraps, sentinel and coincidences of the two loops all occur
  within a few Ticks; what matters is that both cadences are below the range, as 10 and 100 are below 2^32. Masks: none, an
  overlap of two gears, a gear with a park solenoid. Faults at the first and last channel, of each kind, one pair at once.
- `can_link`: two calls of setters, two frames on the bus, one lost in a row. Arguments are both ends of every signal and
  values beyond them; signals of one message are set to different extremes, so that a bit in the wrong field shows.
  The counter has its real 16 values and wraps. `DecodeRange` is 2 instead of 65536: only overflow is of interest.
- `lever`: PARK, REVERSE, DRIVE and the reserved Sport; disturbances turn over two bits, which turn gears into each other, or a
  whole byte, in any one of the eight bytes. The counter has its real period; the failure counters wrap at 2.
- `pump`: coldstart 3 slots (36), sleep after 5 (200), 5 coldstart frames (40), silence 5, counter modulo 5 (16), seed modulo 4
  (256). The master's margin of coldstart frames over the pump's 900 ms, which decides about the livelock, is kept
  positive; the counter has room for expected, one lost, and wrong.
- `ShiftCountRange` is 2 or 1 instead of 256; `CountedOnce` is about when the count moves, not about its value.

### Deadlock

Checked in every run. The main loop, the buses and the lever never end, and the models never stop.

### Fairness

- `FairSpec` of `ShiftLogic` and `TcuBind`: weak fairness of a Tick with `dt > 0`. The main loop goes on and its clock
  runs. Ticks with `dt = 0` alone would stop the clock, which no clock does. Nothing is assumed of requests,
  acknowledgements, sensors or fault registers. `HandshakeSpec` adds weak fairness of `SendVehicleInfo`, the cyclic frame
  of the DBC; requests stay unfair. `GearPath` asks only that a move under way ends, which the phases' budgets provide.
- `TickIsr` and `SolenoidDriver`: a Tick once begun goes on, and Ticks with `dt > 0` begin again and again. The second is strong
  fairness only because beginning a Tick is disabled while one is under way; the loop of `main` does nothing else.
- `CanLink`: the sender packs at its cadence; strong fairness of `Deliver` says that of infinitely many frames the bus delivers
  some. `IX4Lever`: likewise for `Arrive`, which is always possible, so weak fairness says it.
- `PumpMaster`: the master keeps its cadence. That the bus calms down is no assumption but the premise of `EventuallyRuns`.

## 4. What is checked

**Shift orchestration.** `OneStepAtATime` and `StepRunsToItsEnd`: however requests arrive, the gear moves along the gear
graph, and a planned step keeps its destination. `OneElementAtATime` and `DrainOnlyUnderCut`: between forward gears no
command switches two elements, and a held element drains only after an acknowledged cut. `AbortRestoresGear`: a
step given up, on a timeout or an invalid target, leaves the box in the gear and with the elements it started from, nothing
requested and the engine released (`HARA_REPORT.txt:185`). That the box then shifts again is not so, see section 6.
`RampNeverFallsBack`: the published percentage neither exceeds 100 nor wraps, late Ticks included. `RequestIsServed`,
`TorqueComesBack`. `WalksTheGearGraph`: the machine implements `GearPath` under the mapping that takes `next_step` as
heading while a step is under way.

**Park lock**, run by the bind layer. `ParkInv` (the solenoids are driven only on a reading that shows a standing car and the pawl where it
should come from; the published bit is what the contacts confirm), `PulseIsBounded`, `StuckPawlIsReported`,
`StuckPawlIsRetried`.

**Bind layer.** `BindInv`: the CanStale bit is set exactly while the VCU counts as silent, a dead park sensor is
flagged, every step is counted once, the enabled clutches are those of one gear or of two neighbours, and `IInv` and `ParkInv` survive
the composition. `PolledFaultsArePublished`, `HoldIsSwitchedOnSafely`, `StaleIsPublished`, `EnabledFollowsGear`.

**Under interrupts.** `IsrInv`: a step under way is an edge of the gear graph or leads nowhere, silence once noticed is not
hidden by a race on `fault_bits_`, not even by a write-back still to come, the enabled elements are those of one gear or two neighbours, steps are counted.
`OneElementPerBatch`: the sampled sets never change by two elements at once, except through all off. `RequestIsServed`: no
request is lost without a fault.

**Drivers.** `DriverInv`: between batches the chips drive exactly the commanded solenoids, at the calibrated currents less
at most a step of the converter; within a batch nothing is on that neither the last nor this one wants; no loop starves.
`BatchesKeepTheirCadence`, `EveryFaultIsPublished`.

**CAN layer.** `Mirrors`: `CanLink` implements `SignalMirror`, so whatever the bus does a reader holds one of the structs
sent, each signal cut to its width, in order. `CanInv`: a frame is latched by its own message only, what the VCU's setters
send is in range, the raw and the physical range tests agree, hand-written setters and generated encoders agree to within a
step, and the counters measure the frames missed. `EventuallyInStep`.

**Lever.** `LeverInv` (the chain of counters is never left behind; telemetry and gear are of one frame),
`GearMovesWithTheLever`, `GapsAreCounted`, `EventuallyFollows`.

**Pump.** `MasterInv` (a pump that is up has been up and listening for the whole coldstart; what the master mirrors is what
the pump waits for; neither starts over alone), `FaultNeedsACause`, `EventuallyRuns`.

**Handshake.** `HandshakeInv`: a cut waited for is acknowledged, and an acknowledgement no longer asked for withdrawn, within one
cycle of each of the two frames. At 20 ms: `OverlapMeansTorqueIsCut` and `RequestReachesGear`. At the documented 100 ms both are
violated, by a run of its own each.

## 5. What is proved

| Module | Theorem | Says |
|---|---|---|
| `ShiftLogicProofs` | `Safety` | `Spec => []IInv` |
| | `GearStepsAreAdjacent`, `StepsRunToTheirEnd`, `AbortsRestoreTheGear`, `ElementsSwitchOneByOne`, `DrainsOnlyUnderCut`, `RampsOnlyGrow` | the action properties of section 4 |
| | `ImplementsGearPath` | initial states map to initial states of `GearPath`, steps to steps or stutters |
| `ParkLockProofs` | `ParkSafety`, `PulsesAreBounded` | `Spec => []ParkInv`, `Spec => []PulseIsBounded` |
| `HandshakeProofs` | `BindIsSafe` | of `TcuBind`: `Spec => []BindInv`, which holds the invariants of both machines |
| | `ParkIsSafeInBind`, `PulsesAreBoundedInBind` | `ParkInv` and `PulseIsBounded` where the park lock runs |
| | `HoldIsSafe` | `HoldIsSwitchedOnSafely`, at any cadence of the batches |
| | `FaultsArePublished` | `PolledFaultsArePublished`, if the fault poll has the cadence of Status2 |
| | `HandshakeIsTimed` | `HandshakeSpec => []HandshakeInv`, at any cadence of either side |
| | `TimeoutNeedsSilence` | `TimeoutMeansSilence`: only a VCU not heard for longer than `torque_cut_ack_ms - kCadence20msMs` is timed out, at any cycle |
| | `TrueAck` | `OverlapMeansTorqueIsCut`, if a cycle of each of the two frames fits into `pre_fill_ms + torque_restore_ms` |
| `TickIsrProofs` | `InterruptsAreHarmless` | `Spec => []IsrInv` |
| | `BatchesSwitchOneElement` | `OneElementPerBatch`, if `pre_fill_ms` and `torque_restore_ms` each last a solenoid loop |
| `SolenoidDriverProofs` | `DriverInvariant`, `CadenceTheorem` | `Spec => []DriverInv`, `BatchesKeepTheirCadence` |
| | `WordDoes` | the word written for a solenoid switches it on at its currents, or off, for all 16-bit currents |
| `CanLinkProofs` | `CanInvariant` | `Spec => []CanInv` |
| | `MirrorsTheorem` | `Mirrors`: `CanLink` implements `SignalMirror`, initial states and steps |
| | `RoundTrip` | unpacking what was packed gives the struct, each signal cut to its width |
| `IX4LeverProofs` | `LeverInvariant`, `GearTheorem`, `GapsTheorem` | `Spec => []LeverInv`, `GearMovesWithTheLever`, `GapsAreCounted` |
| | `OneByteIsCaught` | the CRC of a frame notices every change within one of its bytes |
| `PumpMasterProofs` | `PumpIsSafe`, `NoFaultWithoutACause` | `Spec => []MasterInv`, `FaultNeedsACause` |

They hold for every calibration and cadence within the named assumption of their module (`CalAssumption`,
`ParkCalAssumption`, `BindAssumption`, `IsrAssumption`: budgets are naturals within `MaxAge`, `pre_fill_pct` a percentage),
every spacing of the Ticks, every set of requests, readings and fault words, and every clutch table with `TableAssumption`,
which is word for word what `clutch_table.h` asserts at compile time. So an integrator who edits the table, as the header
invites, keeps the theorems for as long as the file compiles. Three theorems have a premise of their own on
the timing, named in the table. `ParkCalAssumption` is a premise of the theorems of `ParkLockProofs`, and follows from
`BindAssumption` where the bind layer runs the machine (`ParkAssumptions`). The other assumptions say what the inputs are:

- `TimeAssumption` of `SolenoidDriver`: the cadences are shorter than a turn of the clock, and no Tick comes later than a turn
  less one cadence after the last. With 2^32 ms the second is 49.7 days less 100 ms; past it any difference of two readings
  of the clock is ambiguous, and the code has nothing else to go by.
- `InputAssumption` of `SolenoidDriver`: currents are `uint16_t`, masks 8 bits, faults those the register has bits for.
- `InputAssumption` of `CanLink`: every setter is given what its parameters can hold (`Fits` says it of the structs the
  telemetry setters take). Values beyond the signal are among them. `BoundAssumption`: the bounds of the model are positive.
- `LeverAssumption`: the lever shows gears the switch of `DecodeCAN` knows, or the reserved one; a disturbance changes one byte.

**ShiftLogic.** `TypeOK` and the action properties are not inductive alone: a state in Overlap whose `next_step` is not next
to `current` satisfies `TypeOK`, and its successor skips a gear. `IInv` adds `StepUnderWay` (a step under way is an edge of
the graph, whatever has been requested since), `CutIsTwoSided` (PreFill and TorqueCut are only entered between gears that
both hold torque), `FaultMeansIdle` (with a fault the machine stands still) and `RampIsPercentage` (a ramp does not outlive
its budget). `PlanIsAdjacent` is what makes `StepUnderWay` hold at `StartStep`; no other action sets `next_step`. The action
properties follow from `IInv` by `StepKinds`. The theorem on elements needs from the table that neighbouring rows differ
by one element dropped and one lifted (`ForwardStepSwapsOne`). For `RampsOnlyGrow`, the age of a phase grows while it lasts
(`PhaseAges`) and `RampIsPercentage` bounds it by the budget, so that the quotient is a percentage that grows with it
(`RampGrows`) and the cast to 8 bits cuts nothing. That the quotient is monotonic is not linear arithmetic;
`QuotientIsMonotonic` gets it from the bounds of the remainder.

**ParkLock.** `PulseIsBounded` speaks of `driven`, which no guard reads. `DrivenIsTimed` ties it to the timer of the code:
while a solenoid is on the two are equal. With that, the bound is the guard of the pulse. `TickOutcome` states once what each
alternative leaves behind.

**TcuBind** (in `HandshakeProofs`). The proofs of the two machines are instantiated, not repeated: `ShiftP` and `ParkP` are their proof modules over
the variables of the bind layer, `SameShift`, `SameShiftTick`, `SamePark` and `SameParkTick` say that these instances are the
ones `Tick` runs, and `ShiftTick` and `ParkTick` carry `TickKeepsIInv` and `TickKeepsParkInv` over. What is left is the layer's
own part: who clears which fault bit in which order, that the gear moves exactly when a step completes (`GearInTick`), so that
the count can neither miss a step nor take one twice, and that the mask, with its lost ninth bit, holds exactly the elements
commanded (`EnergisedIsLegal`, `EnabledElements`).

**Handshake.** `HandshakeInv` adds four clocks to `BindInv`: a cut waited for has been asked for within one cycle of
TCU_ShiftStatus (`StatusIsObeyed`), an obedient VCU has acknowledged it within one more of its own (`AckIsDue`); and where none is
asked for, the same two cycles bound how long the latched acknowledgement may survive (`NotAskedFor`, `AckIsWithdrawn`). From
`AckIsDue`, `TimeoutNeedsSilence` says whom the timeout hits, whatever the cycles are: a VCU whose last frame is older than the
budget less one cycle of TCU_ShiftStatus. As shipped that is 30 ms, which a VCU with the 100 ms of the DBC passes in every one
of its cycles without being late; `missed_handshake` is the trace. `TrueAck` compares the sum of the two cycles with the phases
between two cuts; up to 40 ms for the VCU satisfies its premise, 100 ms does not, and `stale_ack` is the trace. The premise is
sufficient and not claimed to be the weakest.

**TickIsr.** The argument is that of `ShiftLogic` with less to go on: the target may be different at each of its reads.
`PlansFromRest` says what an interrupt cannot change while the planning goes on, the phase and the present gear, and
`CommitIsHarmless` that whatever mixture of targets is read, the plan is an edge of the graph from there or stays.
`SilenceIsNotHidden` includes what is about to be written back over `fault_bits_`.

`BatchesSwitchOneElement` needs to know what happened since the last batch. `BatchInv` says by how much the enabled set may lag
behind the commanded one in every phase. The commanded set changes where PreFill is entered (one element more) and where
Overlap is left (one less). Between the one and the other, and before the next, lies a phase that is only left by its time,
PreFill or Complete. If such a phase lasts a loop, then `loop_age`, which has grown at least as much as the age of the phase
(`AgeAtSwitch`) if no batch was written in it, is past the cadence at the Tick that leaves it, so a batch is written in that Tick
(`BatchIsDue`). The other phases may be as short as they like. As shipped the two last 30 ms and the loop is 10 ms.

**SolenoidDriver.** The fields of a configuration word are disjoint ranges of its bits: that each is read back as it was put is
linear arithmetic with the powers of two written out (`Fields`, `PutFields`), and the converter rounds down by less than a step
(`CodeIsClose`). `WordDoes` follows, and from there on words are opaque. A batch is one transfer for each of the nine
solenoids in their order (`BatchOrder`), so that what is left of it tells which solenoids have the new word and which the old:
that is the strengthening in `DriverInv`, with the ages of the two loops tied to differences of wrapping times
(`Difference`, `AgeGrows`).

**CanLink.** `TcuCodec` is tables; the lemmas up to `RangeTestsAgree` go through them entry by entry. A field is a sum of bits, at
most sixteen, written out as such (`ValueOf`), since no induction over the width is to be had: `ValueIsCut` says that a field
filled with `v` holds `v` cut to its width, and with the fields apart (`FieldsAreApart`) `RoundTrip` follows. `CanInv` is made
inductive by what the bus holds: frames of one message only, with consecutive counters, the oldest first, none newer than
what the sender has packed, and the VCU's in range (`OfOneMessage`, `Consecutive`, `TxInRange`). The refinement maps the frames on
the bus to what they unpack to: a setter is an `Offer`, `PackTx` a `Send`, a delivery or a repetition a `See`, a frame lost or cut
short a `Lose`; by `RoundTrip` what is latched is what was offered.

**IX4Lever.** The shift register loses nothing: `ShiftOut` is one-to-one (`ShiftOutInjective`), so are the table entries
(`CrcTableInjective`) and the remainder as a function of any one byte (`CrcOfOneOtherByte`), whence `OneByteIsCaught`.
`UpToSeven` takes the place of an induction over the bytes. The rest is arithmetic modulo 15 and 16 on the chain of counters
that hangs on the last frame accepted (`ChainArithmetic`).

**PumpMaster.** `MasterInv` relates what the pump expects (counter, seed) to what the master holds and to how many commands were
lost in between; `warm` counts the coldstart the way the code times it, from the first phase-1 frame the pump received.

**Model-checked only.**

- Liveness, since TLAPS does not reason about fairness here: `RequestIsServed`, `TorqueComesBack`, the stuck pawl,
  `StaleIsPublished`, `EnabledFollowsGear`, `RequestReachesGear`, `EveryFaultIsPublished`, `EventuallyInStep`, `EventuallyFollows`,
  `EventuallyRuns`, the fairness half of `WalksTheGearGraph`.
- The fairness of an abstract specification: `WalksTheGearGraph` is proved but for it. `Mirrors` states none and is proved whole.

Every invariant and every action property of a passing run is a theorem.

## 6. Where code and documentation part

Each of these has a run whose trace shows it, and is quoted in `PROJECT.json` under `findings`.

1. *A release is never energised* (`park_release`). `SolenoidBit(ParkRelease)` is `1u << 8` cut to 8 bits, so 0.
2. *The second step of a walk swaps clutches on the acknowledgement of the first* (`stale_ack`). `EnterPhase(Idle)`
   withdraws it; the next Tick writes the latched one back. With a 100 ms frame it is still latched some 60 ms later, when
   the next step enters TorqueCut.
3. *A healthy VCU is timed out, and the box never shifts again* (`missed_handshake`, two findings). The VCU has 50 ms to
   acknowledge (`shift_logic.h:71`) in a frame that comes every 100 (`zf8hp-tcu.dbc:119, 146`). The timeout is recorded as a
   fault, the fault guards `StartStep`, and nothing clears it, although `shift_logic.cpp:106-107` says that a single missed
   handshake shouldn't disable the box and `HARA_REPORT.txt:191` has only repeated ones lead to a soft limp. The trace ends in a
   loop: second gear requested again and again, the frames coming, the machine Idle in first. `RequestIsServed`
   of `ShiftLogic` counts a recorded fault as an answer and so does not show it.
4. *A valid request can be faulted as invalid, for good* (`isr_fault`). The target is read three times for its validity;
   a request from the CAN interrupt in between makes two valid targets look like none.

Found with a run of an earlier stage of this development, which the present ones replaced:

- A silent VCU does not hold the gear, against `tcu_bind.h:147-148`: the flag is only published, and the next step of a walk begins.
- A pawl that does not engage is not in AnyFault, against `HARA_REPORT.txt:32`: of the park faults only the sensor's reaches
  `fault_bits_` (`tcu_bind.cpp:145`).
- A CAN interrupt inside `fault_bits_ |= FB_CAN_STALE` leaves the bit set until the next frame, and one inside `PlanNextStep`
  makes a step that leads nowhere, or one away from the new target. All are harmless; `StepIsHarmless` and
  `SilenceIsNotHidden` in `TickIsr` are worded so as to allow them.
- Pump and master can stick for good: if more of the first coldstart frames are lost than the master's margin over 900 ms, the
  early phase 2 is rejected with the very answer a good one gets (`lin_pump.py:149-155`), the master goes on to run, and the
  pump answers quietly for ever. Without its second disjunct `EventuallyRuns` fails.
- `iX4_Lever.cpp:105-106` says one missed frame, "or wrap to 0 from 14", is allowed. At the wrap a single loss (13 to 0, 14 to 1)
  is a step of 3 modulo 16 and counts as a failure; `GapsAreCounted` is worded so as to allow it. A lone wrap is one of 2 and is allowed.

Read, but without a run, since the model abstracts what they are about or nothing states the opposite:

- `safety/HARA_REPORT.txt:52` says that `BuildFramesForChipMask` refuses to enable more than three elements. It counts nothing
  (`solenoids.cpp:60-76`), and four are energised in every overlap, as they must be.
- The DBC gives FaultBits bit 7 as OverTemp and 8..15 as reserved; the code sends over-current in 7 and the park sensor
  in 8 (`tcu_bind.cpp:27-28`). Bits 9 and 10, an unresponsive chip (`solenoids.cpp:104-105`), are set by nothing.
- `TargetGearEcho` and `TcuState` of Status1 are filled with a `Gear` and a `ShiftPhase`, whose values differ from the
  enumerations of the DBC; `ShiftElapsedMs` carries the time since the last ShiftStatus frame (`tcu_bind.cpp:256`), not
  the time in the phase.
- Nothing ever enables the converter clutch or line pressure: the mask is `active & 0x1F` (`tcu_bind.cpp:170`).
- `Counter520` is not looked at, so a VCU that repeats a frame counts as alive, and one never heard as ready. `Counter542` is
  never set.
- `OilTemp`, `MotorTemp` and `TcuHwTemp` have an offset of -40, which neither the setters nor `OilTemp()` (`Can_ZF8HP.h:88`,
  "scaled to physical units" says line 81) apply; above 87 degrees their raw value does not fit the `int8_t` it is kept in.
- `max22200_regs.h:108-110` puts fault bits at 24 to 26 of a word of 24 bits. Nothing uses them.
- `tcu_bind.cpp:135-138` says the bind layer overrides the vehicle speed of the park sensors with the VCU's. It does not.
- `park_lock` restarts its pulse whenever the request or a contact changes, so contacts that bounce in step with the 10 ms loop
  keep the channel on past `engage_pulse_ms`, each command being within its bound.
- The LIN simulator leaves FAULT on a phase-1 frame (`lin_pump.py:121`) where line 36 asks for 5 s of silence.

## 7. Plan

Done: every component of the firmware, both protocols beside it, and their compositions. What would add most next:

1. Theorems that tie the components together: the mask `SolenoidDriver` is given as the one `TcuBind` makes, the frames of
   `TcuBind` as the structs of `CanLink`.
2. `TcuBind` with `OnCanRx` inside `Tick` for the park lock as well (`TickIsr` has the shift path).
3. The handshake with lost and late frames, once the firmware settles on a cycle that can work (section 6).
4. A LIN master in the firmware, when there is one, in the place of the external one.

## 8. Not modelled

- The VCU: not in the repository. What `Handshake` has of it follows the DBC.
- `BuildRead`, `BuildDisable`, `BindingFor`, `out_solenoid_ids`, `SetParkLockEngagedTx`, the Status and FaultMask registers,
  `SetVehicleStationary`: used by nothing, or read by nothing. The size checks and name strings of the generated code.
- Ramp currents, pressures, temperatures, shaft speeds, and the plant model: continuous, and no control depends on them.
- `TCU_PumpStatus` in `TcuBind` and payload fields that no property reads. Missing callbacks in `TcuIo`: taken as bound.
- `tests/scenarios/orchestrator.py`: a Python copy of the shift machine. It differs from the original: it ticks twice per
  millisecond when it acknowledges, never validates a target, clamps the ramp, and starts it at 0 outside the ramps.
- `ix4_lever.py`: the lever decoder once more, in Python.
- `hara.py`, `replay.py`, KiCad generators, CRC searches, the archive and the notes: tables, readers and writers.
