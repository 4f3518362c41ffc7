------------------------------- MODULE ParkLock -------------------------------
(***************************************************************************)
(* The park-lock state machine (firmware/park_lock).  Every Tick reads the *)
(* two position contacts and the vehicle speed, compares the observed pawl *)
(* with the driver's request, and decides which of the two park solenoids  *)
(* is driven until the next Tick.                                          *)
(*                                                                         *)
(* The code spells the two directions out one after the other; here one    *)
(* definition covers both, the direction being request_engaged.  Time is   *)
(* kept as in ShiftLogic: elapsed is the age of the pulse at the last Tick.*)
(*                                                                         *)
(* A definition commented "Variant" is a plausible mistake in the one that *)
(* follows it, used by the sensitivity runs only.                          *)
(***************************************************************************)
EXTENDS Integers

CONSTANTS engage_pulse_ms,      \* ParkCalibration
          disengage_pulse_ms,
          engage_budget_ms,
          disengage_budget_ms,
          MaxAge,               \* where elapsed saturates
          Deltas                \* times that may pass between two Ticks

\* What the theorems assume of the constants; TcuBind, which runs the machine,
\* assumes it of the ones it gives.
ParkCalAssumption ==
  /\ {engage_pulse_ms, disengage_pulse_ms, engage_budget_ms, disengage_budget_ms}
        \subseteq 0..MaxAge
  /\ MaxAge \in Nat
  /\ Deltas \subseteq Nat

VARIABLES state,
          fault,                \* latched: only ClearFault resets it
          request_engaged,      \* the driver wants the pawl down
          elapsed,
          park_lock_engaged,    \* published as the ParkLock bit
          (* and two histories, read by no action: *)
          reading,              \* the sensors as the last Tick read them
          driven                \* how long a solenoid has been on unbroken

vars == <<state, fault, request_engaged, elapsed, park_lock_engaged,
          reading, driven>>

ParkState == {"Engaged", "Disengaged", "Engaging", "Disengaging", "Fault", "Init"}

ParkFault == {"None", "SensorImpossibleReading", "DisengageBlockedBySpeed",
              "EngageBlockedByMotion", "DisengageTimeout", "EngageTimeout"}

\* What read_park_sensors may return; moving says that the speed is above
\* engage_max_kmh_x100.
ParkSensors == [pos1 : BOOLEAN, pos2 : BOOLEAN, moving : BOOLEAN]

Init ==
  /\ state = "Init"
  /\ fault = "None"
  /\ request_engaged = TRUE
  /\ elapsed = 0
  /\ reading = [pos1 |-> FALSE, pos2 |-> FALSE, moving |-> FALSE]
  /\ park_lock_engaged = FALSE
  /\ driven = 0

-------------------------------------------------------------------------------
(* Helpers                                                                 *)

\* Exactly one contact closed tells where the pawl is.
DecodeSenseState(s) ==
  IF s.pos1 = s.pos2 THEN "Fault" ELSE IF s.pos1 THEN "Engaged" ELSE "Disengaged"

VehicleStationaryEnough(s) == ~s.moving

AsRequested(s) ==
  DecodeSenseState(s) = (IF request_engaged THEN "Engaged" ELSE "Disengaged")

\* The state, pulse and budget of the direction requested.
Moving == IF request_engaged THEN "Engaging" ELSE "Disengaging"
Pulse == IF request_engaged THEN engage_pulse_ms ELSE disengage_pulse_ms
Budget == IF request_engaged THEN engage_budget_ms ELSE disengage_budget_ms

\* The age `age` dt later.
Later(age, dt) == IF age + dt > MaxAge THEN MaxAge ELSE age + dt

\* Variant: every Tick starts the pulse afresh.
AgeAlwaysRestarted(dt) == 0

\* now_ms - phase_started_ms_ once the direction's timer runs.
Age(dt) == IF state = Moving THEN Later(elapsed, dt) ELSE 0

-------------------------------------------------------------------------------
(* The ParkCommand the last Tick returned                                  *)

HoldEnergise == state = "Engaging" /\ elapsed < engage_pulse_ms
ReleaseEnergise == state = "Disengaging" /\ elapsed < disengage_pulse_ms
-------------------------------------------------------------------------------
(* Calls from the layer above                                              *)

RequestEngaged(engaged) ==
  /\ request_engaged' = engaged
  /\ UNCHANGED <<state, fault, elapsed, park_lock_engaged, reading, driven>>

ClearFault ==
  /\ fault' = "None"
  /\ UNCHANGED <<state, request_engaged, elapsed, park_lock_engaged,
                 reading, driven>>

-------------------------------------------------------------------------------
(* Tick, by its returns.  In each the timer matters only if the next state *)
(* is the direction's own, so it is only kept there.                       *)

SenseFault(s, dt) ==
  /\ DecodeSenseState(s) = "Fault"
  /\ fault' = "SensorImpossibleReading"
  /\ state' = "Fault"
  /\ elapsed' = 0

Done(s, dt) ==
  /\ DecodeSenseState(s) # "Fault" /\ AsRequested(s)
  /\ state' = DecodeSenseState(s)
  /\ elapsed' = 0
  /\ UNCHANGED fault

\* Variant: only the start of a pulse is blocked, not one already begun.
BlockStartOnly(s, dt) ==
  /\ DecodeSenseState(s) # "Fault" /\ ~AsRequested(s)
  /\ ~VehicleStationaryEnough(s)
  /\ fault' = IF request_engaged THEN "EngageBlockedByMotion"
                                 ELSE "DisengageBlockedBySpeed"
  /\ state' = IF state = Moving THEN state ELSE DecodeSenseState(s)
  /\ elapsed' = Age(dt)

\* The pawl is not moved while the vehicle rolls, a pulse already begun or not.
Block(s, dt) ==
  /\ DecodeSenseState(s) # "Fault" /\ ~AsRequested(s)
  /\ ~VehicleStationaryEnough(s)
  /\ fault' = IF request_engaged THEN "EngageBlockedByMotion"
                                 ELSE "DisengageBlockedBySpeed"
  /\ state' = DecodeSenseState(s)
  /\ elapsed' = 0

\* Variant: the time out is not recorded.
TimeOutInSilence(s, dt) ==
  /\ DecodeSenseState(s) # "Fault" /\ ~AsRequested(s)
  /\ VehicleStationaryEnough(s)
  /\ Age(dt) >= Pulse /\ Age(dt) >= Budget
  /\ state' = DecodeSenseState(s)
  /\ elapsed' = 0
  /\ UNCHANGED fault

\* Variant: the attempt is given up.
TimeOutForGood(s, dt) ==
  /\ DecodeSenseState(s) # "Fault" /\ ~AsRequested(s)
  /\ VehicleStationaryEnough(s)
  /\ Age(dt) >= Pulse /\ Age(dt) >= Budget
  /\ fault' = IF request_engaged THEN "EngageTimeout" ELSE "DisengageTimeout"
  /\ elapsed' = Age(dt)
  /\ UNCHANGED state

\* The pulse is over and so is the time for the pawl to answer.
TimeOut(s, dt) ==
  /\ DecodeSenseState(s) # "Fault" /\ ~AsRequested(s)
  /\ VehicleStationaryEnough(s)
  /\ Age(dt) >= Pulse /\ Age(dt) >= Budget
  /\ fault' = IF request_engaged THEN "EngageTimeout" ELSE "DisengageTimeout"
  /\ state' = DecodeSenseState(s)
  /\ elapsed' = 0

\* The pulse begins, goes on, or has ended and the pawl may still answer.
Drive(s, dt) ==
  /\ DecodeSenseState(s) # "Fault" /\ ~AsRequested(s)
  /\ VehicleStationaryEnough(s)
  /\ Age(dt) < Pulse \/ Age(dt) < Budget
  /\ state' = Moving
  /\ elapsed' = Age(dt)
  /\ UNCHANGED fault

\* Tick(now_ms, sensors), dt after the previous one.
Tick(s, dt) ==
  /\ \/ SenseFault(s, dt)
     \/ Done(s, dt)
     \/ Block(s, dt)
     \/ TimeOut(s, dt)
     \/ Drive(s, dt)
  /\ reading' = s
  /\ driven' = IF \/ HoldEnergise /\ HoldEnergise'
                  \/ ReleaseEnergise /\ ReleaseEnergise'
               THEN Later(driven, dt) ELSE 0
  /\ park_lock_engaged' = (DecodeSenseState(s) = "Engaged")
  /\ UNCHANGED request_engaged

Next ==
  \/ \E engaged \in BOOLEAN : RequestEngaged(engaged)
  \/ ClearFault
  \/ \E s \in ParkSensors, dt \in Deltas : Tick(s, dt)

Spec == Init /\ [][Next]_vars

-------------------------------------------------------------------------------
(* Properties                                                              *)

TypeOK ==
  /\ state \in ParkState
  /\ fault \in ParkFault
  /\ request_engaged \in BOOLEAN
  /\ elapsed \in 0..MaxAge
  /\ reading \in ParkSensors
  /\ park_lock_engaged \in BOOLEAN
  /\ driven \in 0..MaxAge

\* A solenoid is only ever driven on a reading that shows the vehicle standing
\* and the pawl, beyond doubt, in the position the solenoid moves it out of -
\* also when the vehicle starts to roll or a contact fails in the middle of a
\* pulse (park_lock.h:36-45, park_lock.cpp:34-48, 79-89, 127-137).
ActuatesOnlyWhenSafe ==
  state \in {"Engaging", "Disengaging"} =>
    /\ VehicleStationaryEnough(reading)
    /\ DecodeSenseState(reading) =
         (IF state = "Engaging" THEN "Disengaged" ELSE "Engaged")

\* ParkLock is published only when the contacts confirm the engaged state
\* (safety goal of T002, HARA_REPORT.txt:31), and agrees with the state.
ParkBitIsConfirmed ==
  state # "Init" =>
    /\ park_lock_engaged <=> DecodeSenseState(reading) = "Engaged"
    /\ park_lock_engaged <=> state \in {"Engaged", "Disengaging"}

\* At every Tick that leaves a solenoid on it has been on, without a break, for
\* less than one pulse, however the request and the contacts chatter and however
\* often the attempt is repeated (park_lock.cpp:95-116, 139-160).
PulseIsBounded ==
  /\ HoldEnergise => driven < engage_pulse_ms
  /\ ReleaseEnergise => driven < disengage_pulse_ms

\* Why: while a solenoid is on, its timer and its time on are the same.
DrivenIsTimed == HoldEnergise \/ ReleaseEnergise => driven = elapsed

\* The inductive invariant.
ParkInv ==
  /\ TypeOK
  /\ ActuatesOnlyWhenSafe
  /\ ParkBitIsConfirmed
  /\ DrivenIsTimed

\* The conditions for moving the pawl hold and it does not move.
PawlStuck ==
  /\ DecodeSenseState(reading) # "Fault" /\ ~AsRequested(reading)
  /\ VehicleStationaryEnough(reading)

\* A pawl that stays stuck is reported again and again, clearing the fault or
\* not (park_lock.h:68-69, HARA_REPORT.txt:36).
StuckPawlIsReported ==
  <>[]PawlStuck => []<>(fault \in {"EngageTimeout", "DisengageTimeout"})

\* ... and so is the attempt to free it: the machine does not give up.
StuckPawlIsRetried == <>[]PawlStuck => []<>(HoldEnergise \/ ReleaseEnergise)
===============================================================================
