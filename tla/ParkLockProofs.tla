---------------------------- MODULE ParkLockProofs ----------------------------
(***************************************************************************)
(* Proofs about ParkLock, for every calibration (also one whose budget is  *)
(* shorter than its pulse), every spacing of the Ticks and every sequence  *)
(* of sensor readings and requests.                                        *)
(***************************************************************************)
EXTENDS ParkLock, TLAPS

\* Times saturate within their range, and equal times stay equal.
LEMMA LaterInRange ==
  ASSUME ParkCalAssumption, NEW age \in 0..MaxAge, NEW dt \in Deltas
  PROVE  Later(age, dt) \in 0..MaxAge
BY DEF ParkCalAssumption, Later

LEMMA InitParkInv == ParkCalAssumption /\ Init => ParkInv
<1> SUFFICES ASSUME ParkCalAssumption, Init PROVE ParkInv
  OBVIOUS
<1>1. TypeOK
  <2>1. park_lock_engaged \in BOOLEAN /\ request_engaged \in BOOLEAN
        /\ reading \in ParkSensors
    BY Zenon DEF Init, ParkSensors
  <2>2. 0 \in 0..MaxAge
    BY DEF ParkCalAssumption
  <2>3. QED
    BY <2>1, <2>2 DEF Init, TypeOK, ParkState, ParkFault
<1>2. ActuatesOnlyWhenSafe /\ ParkBitIsConfirmed /\ DrivenIsTimed
  BY DEF Init, ActuatesOnlyWhenSafe, ParkBitIsConfirmed, DrivenIsTimed,
     HoldEnergise, ReleaseEnergise
<1>3. QED
  BY <1>1, <1>2 DEF ParkInv

\* What a Tick leaves, whichever way it returns.
LEMMA TickOutcome ==
  ASSUME ParkCalAssumption, TypeOK,
         NEW s \in ParkSensors, NEW dt \in Deltas, Tick(s, dt)
  PROVE  /\ state' \in ParkState /\ fault' \in ParkFault
         /\ elapsed' \in 0..MaxAge
         /\ \/ /\ state' = DecodeSenseState(s)
               /\ elapsed' = 0
            \/ /\ state' = Moving
               /\ elapsed' = Age(dt)
               /\ DecodeSenseState(s) # "Fault" /\ ~AsRequested(s)
               /\ VehicleStationaryEnough(s)
<1>1. Age(dt) \in 0..MaxAge /\ 0 \in 0..MaxAge
  BY LaterInRange DEF Age, TypeOK, ParkCalAssumption
<1>2. DecodeSenseState(s) \in {"Fault", "Engaged", "Disengaged"}
  BY DEF DecodeSenseState
<1>3. Moving \in ParkState
  BY DEF Moving, ParkState
<1>4. QED
  BY <1>1, <1>2, <1>3 DEF Tick, SenseFault, Done, Block, TimeOut, Drive,
     TypeOK, ParkState, ParkFault

\* A Tick keeps ParkInv, whatever the sensors read.
LEMMA TickKeepsParkInv ==
  ASSUME ParkCalAssumption, ParkInv,
         NEW s \in ParkSensors, NEW dt \in Deltas, Tick(s, dt)
  PROVE  ParkInv'
<1> USE DEF ParkInv
<1>1. TypeOK /\ reading' = s /\ request_engaged' = request_engaged
      /\ park_lock_engaged' = (DecodeSenseState(s) = "Engaged")
  BY DEF Tick
<1>2. DecodeSenseState(s) \in {"Fault", "Engaged", "Disengaged"}
  BY DEF DecodeSenseState
<1>3. TypeOK'
  <2>1. driven' \in 0..MaxAge
    BY LaterInRange DEF Tick, TypeOK, ParkCalAssumption
  <2>2. park_lock_engaged' \in BOOLEAN
    BY <1>1
  <2>3. QED
    BY <1>1, <2>1, <2>2, TickOutcome DEF TypeOK
<1>4. ActuatesOnlyWhenSafe'
  BY <1>1, <1>2, TickOutcome
     DEF ActuatesOnlyWhenSafe, Moving, AsRequested, VehicleStationaryEnough,
         DecodeSenseState
<1>5. ParkBitIsConfirmed'
  <2>1. DecodeSenseState(reading)' = DecodeSenseState(s)
    BY <1>1 DEF DecodeSenseState
  <2>2. state' \in {"Engaged", "Disengaging"} <=> DecodeSenseState(s) = "Engaged"
    BY <1>1, <1>2, TickOutcome DEF Moving, AsRequested
  <2>3. QED
    BY <1>1, <2>1, <2>2 DEF ParkBitIsConfirmed
<1>6. DrivenIsTimed'
  <2>1. ASSUME HoldEnergise' \/ ReleaseEnergise'
        PROVE  driven' = elapsed'
    <3>1. state' = Moving /\ elapsed' = Age(dt)
      BY <1>1, <1>2, <2>1, TickOutcome DEF HoldEnergise, ReleaseEnergise
    <3>2. CASE state = Moving
      <4>1. elapsed' = Later(elapsed, dt)
        BY <3>1, <3>2 DEF Age
      <4>2. elapsed' >= elapsed
        BY <1>1, <4>1 DEF Later, TypeOK, ParkCalAssumption
      <4>3. \/ HoldEnergise /\ HoldEnergise'
            \/ ReleaseEnergise /\ ReleaseEnergise'
        BY <1>1, <2>1, <3>1, <3>2, <4>2, TickOutcome
           DEF HoldEnergise, ReleaseEnergise, Moving, TypeOK, ParkCalAssumption
      <4>4. driven = elapsed /\ driven' = Later(driven, dt)
        BY <4>3 DEF Tick, DrivenIsTimed
      <4>5. QED
        BY <4>1, <4>4
    <3>3. CASE state # Moving
      <4>1. elapsed' = 0
        BY <3>1, <3>3 DEF Age
      <4>2. ~(HoldEnergise /\ HoldEnergise')
            /\ ~(ReleaseEnergise /\ ReleaseEnergise')
        BY <3>1, <3>3 DEF HoldEnergise, ReleaseEnergise, Moving
      <4>3. driven' = 0
        BY <4>2 DEF Tick
      <4>4. QED
        BY <4>1, <4>3
    <3>4. QED
      BY <3>2, <3>3
  <2>2. QED
    BY <2>1 DEF DrivenIsTimed
<1>7. QED
  BY <1>3, <1>4, <1>5, <1>6

LEMMA NextParkInv == ParkCalAssumption /\ ParkInv /\ [Next]_vars => ParkInv'
<1> SUFFICES ASSUME ParkCalAssumption, ParkInv, [Next]_vars PROVE ParkInv'
  OBVIOUS
<1> USE DEF ParkInv
<1>1. ASSUME NEW s \in ParkSensors, NEW dt \in Deltas, Tick(s, dt)
      PROVE  ParkInv'
  BY <1>1, TickKeepsParkInv
<1>2. ASSUME NEW engaged \in BOOLEAN, RequestEngaged(engaged) PROVE ParkInv'
  BY <1>2 DEF RequestEngaged, TypeOK, ActuatesOnlyWhenSafe, ParkBitIsConfirmed,
     DrivenIsTimed, HoldEnergise, ReleaseEnergise, DecodeSenseState,
     VehicleStationaryEnough
<1>3. CASE ClearFault
  BY <1>3 DEF ClearFault, TypeOK, ParkFault, ActuatesOnlyWhenSafe,
     ParkBitIsConfirmed, DrivenIsTimed, HoldEnergise, ReleaseEnergise,
     DecodeSenseState, VehicleStationaryEnough
<1>4. CASE UNCHANGED vars
  BY <1>4 DEF vars, TypeOK, ActuatesOnlyWhenSafe, ParkBitIsConfirmed,
     DrivenIsTimed, HoldEnergise, ReleaseEnergise, DecodeSenseState,
     VehicleStationaryEnough
<1>5. QED
  BY <1>1, <1>2, <1>3, <1>4 DEF Next

\* No solenoid is driven on a doubtful or moving reading, and ParkLock is only
\* published on a confirmed one.
THEOREM ParkSafety ==
  ASSUME ParkCalAssumption
  PROVE  Spec => []ParkInv
<1>1. Init => ParkInv
  BY InitParkInv
<1>2. ParkInv /\ [Next]_vars => ParkInv'
  BY NextParkInv
<1>3. QED
  BY <1>1, <1>2, PTL DEF Spec

\* No solenoid is ever driven longer than one pulse without a break.
THEOREM PulsesAreBounded ==
  ASSUME ParkCalAssumption
  PROVE  Spec => []PulseIsBounded
<1>1. ParkInv => PulseIsBounded
  BY DEF ParkInv, TypeOK, DrivenIsTimed, PulseIsBounded, HoldEnergise,
     ReleaseEnergise
<1>2. QED
  BY ParkSafety, <1>1, PTL
===============================================================================
