---------------------------- MODULE HandshakeProofs ----------------------------
(***************************************************************************)
(* The bind layer, for every calibration, cadence and clutch table, every  *)
(* spacing of the Ticks and every set of readings and fault words: BindInv *)
(* is inductive, on the strength of the invariants of the two machines it  *)
(* runs, which are proved in ShiftLogicProofs and ParkLockProofs.          *)
(*                                                                         *)
(* Then what the handshake, which adds the VCU, needs of its timing, for   *)
(* every calibration and cycle: a step is given up only on a VCU that was  *)
(* silent for torque_cut_ack_ms less one cycle of TCU_ShiftStatus, and an  *)
(* acknowledgement can be trusted if one cycle of each frame fits within   *)
(* torque_restore_ms and pre_fill_ms.                                      *)
(***************************************************************************)
EXTENDS Handshake, TLAPS

ShiftP == INSTANCE ShiftLogicProofs
            WITH fault <- shift_fault, elapsed <- shift_elapsed, Requests <- Gears

ParkP == INSTANCE ParkLockProofs
           WITH state <- park_state, fault <- park_fault, elapsed <- park_elapsed

-------------------------------------------------------------------------------
(* The two machines.  What is proved of ShiftP and ParkP is carried over   *)
(* to Shift and Park, which are the same by their definitions.             *)

LEMMA SameShift ==
  /\ Shift!IInv <=> ShiftP!IInv
  /\ Shift!Init <=> ShiftP!Init
<1>1. Shift!IInv <=> ShiftP!IInv
  BY DEF
     Shift!IInv, ShiftP!IInv, Shift!TypeOK, ShiftP!TypeOK, Shift!StepUnderWay,
     ShiftP!StepUnderWay, Shift!CutIsTwoSided, ShiftP!CutIsTwoSided,
     Shift!FaultMeansIdle, ShiftP!FaultMeansIdle, Shift!RampIsPercentage,
     ShiftP!RampIsPercentage, Shift!InStep, ShiftP!InStep, Shift!OneSided,
     ShiftP!OneSided, Shift!Adjacent, ShiftP!Adjacent, Shift!ShiftPhase,
     ShiftP!ShiftPhase, Shift!ShiftFault, ShiftP!ShiftFault, Shift!Gears,
     ShiftP!Gears, Shift!Forward, ShiftP!Forward, Shift!Neutral, ShiftP!Neutral,
     Shift!Reverse, ShiftP!Reverse, Gears, Neutral, Forward, Reverse
<1>2. Shift!Init <=> ShiftP!Init
  BY DEF Shift!Init, ShiftP!Init, Shift!Neutral, ShiftP!Neutral, Neutral
<1> QED  BY <1>1, <1>2

LEMMA SameShiftTick ==
  ASSUME NEW ack, NEW dt
  PROVE  Shift!TickWith(ack, dt) <=> ShiftP!TickWith(ack, dt)
BY DEF
     Shift!Gears, ShiftP!Gears, Shift!Forward, ShiftP!Forward, Shift!Neutral,
     ShiftP!Neutral, Shift!Reverse, ShiftP!Reverse, Shift!TickWith,
     ShiftP!TickWith, Shift!RejectTarget, ShiftP!RejectTarget,
     Shift!TargetValid, ShiftP!TargetValid, Shift!StartStep, ShiftP!StartStep,
     Shift!PlanNextStep, ShiftP!PlanNextStep, Shift!EnterPhase,
     ShiftP!EnterPhase, Shift!RestInGear, ShiftP!RestInGear, Shift!StayInPhase,
     ShiftP!StayInPhase, Shift!EndPreFill, ShiftP!EndPreFill, Shift!TorqueIsCut,
     ShiftP!TorqueIsCut, Shift!TimeOutTorqueCut, ShiftP!TimeOutTorqueCut,
     Shift!EndOverlap, ShiftP!EndOverlap, Shift!EndComplete, ShiftP!EndComplete,
     Shift!Wait, ShiftP!Wait, Shift!PhaseElapsed, ShiftP!PhaseElapsed,
     Shift!Age, ShiftP!Age, Gears, Neutral, Forward, Reverse

LEMMA ShiftAssumptions == ShiftP!CalAssumption /\ ShiftP!TableAssumption
<1>1. ShiftP!CalAssumption
  BY BindAssumption DEF ShiftP!CalAssumption, Gears, Forward, Neutral, Reverse
<1>2. ShiftP!TableAssumption
  BY TableAssumption
     DEF ShiftP!TableAssumption,
     ShiftP!Gears, Gears, ShiftP!Forward, Forward, ShiftP!Neutral, Neutral,
     ShiftP!Reverse, Reverse, ShiftP!Elements, Elements, ShiftP!ClutchesFor,
     ClutchesFor, ShiftP!DropSet, DropSet, ShiftP!LiftSet, LiftSet,
     ShiftP!IsSingleElement, IsSingleElement,
     ShiftP!AdjacentPairsAreSingleElement, AdjacentPairsAreSingleElement,
     ShiftP!ForwardGearsHaveThreeElements, ForwardGearsHaveThreeElements,
     ShiftP!ReverseHasThreeElements, ReverseHasThreeElements,
     ShiftP!NeutralEngagesNothing, NeutralEngagesNothing, ShiftP!Cardinality,
     Cardinality, ShiftP!IsFiniteSet, IsFiniteSet
<1> QED  BY <1>1, <1>2

LEMMA ShiftInit == Shift!Init => Shift!IInv
BY SameShift, ShiftAssumptions, ShiftP!InitIInv

LEMMA ShiftTick ==
  ASSUME Shift!IInv, NEW ack \in BOOLEAN, NEW dt \in Deltas, Shift!TickWith(ack, dt)
  PROVE  Shift!IInv'
<1>1. ShiftP!IInv /\ ShiftP!TickWith(ack, dt)
  BY SameShift, SameShiftTick
<1>2. ShiftP!IInv'
  BY <1>1, ShiftAssumptions, ShiftP!TickKeepsIInv
<1> QED  BY <1>2, SameShift, PTL

LEMMA SamePark ==
  /\ Park!ParkInv <=> ParkP!ParkInv
  /\ Park!Init <=> ParkP!Init
  /\ Park!ParkSensors = ParkP!ParkSensors
<1>1. Park!ParkInv <=> ParkP!ParkInv
  BY DEF
     Park!ParkInv, ParkP!ParkInv, Park!TypeOK, ParkP!TypeOK,
     Park!ActuatesOnlyWhenSafe, ParkP!ActuatesOnlyWhenSafe,
     Park!ParkBitIsConfirmed, ParkP!ParkBitIsConfirmed, Park!DrivenIsTimed,
     ParkP!DrivenIsTimed, Park!ParkState, ParkP!ParkState, Park!ParkFault,
     ParkP!ParkFault, Park!ParkSensors, ParkP!ParkSensors,
     Park!VehicleStationaryEnough, ParkP!VehicleStationaryEnough,
     Park!DecodeSenseState, ParkP!DecodeSenseState, Park!HoldEnergise,
     ParkP!HoldEnergise, Park!ReleaseEnergise, ParkP!ReleaseEnergise
<1>2. Park!Init <=> ParkP!Init
  BY DEF Park!Init, ParkP!Init
<1>3. Park!ParkSensors = ParkP!ParkSensors
  BY DEF Park!ParkSensors, ParkP!ParkSensors
<1> QED  BY <1>1, <1>2, <1>3

LEMMA SameParkTick ==
  ASSUME NEW s, NEW dt
  PROVE  Park!Tick(s, dt) <=> ParkP!Tick(s, dt)
BY DEF
     Park!Tick, ParkP!Tick, Park!SenseFault, ParkP!SenseFault, Park!Done,
     ParkP!Done, Park!Block, ParkP!Block, Park!TimeOut, ParkP!TimeOut,
     Park!Drive, ParkP!Drive, Park!DecodeSenseState, ParkP!DecodeSenseState,
     Park!AsRequested, ParkP!AsRequested, Park!VehicleStationaryEnough,
     ParkP!VehicleStationaryEnough, Park!Moving, ParkP!Moving, Park!Pulse,
     ParkP!Pulse, Park!Budget, ParkP!Budget, Park!Later, ParkP!Later, Park!Age,
     ParkP!Age, Park!HoldEnergise, ParkP!HoldEnergise, Park!ReleaseEnergise,
     ParkP!ReleaseEnergise

LEMMA ParkAssumptions == ParkP!ParkCalAssumption
BY BindAssumption DEF ParkP!ParkCalAssumption

LEMMA ParkInit == Park!Init => Park!ParkInv
BY SamePark, ParkAssumptions, ParkP!InitParkInv

LEMMA ParkTick ==
  ASSUME Park!ParkInv, NEW s \in Park!ParkSensors, NEW dt \in Deltas, Park!Tick(s, dt)
  PROVE  Park!ParkInv'
<1>1. ParkP!ParkInv /\ ParkP!Tick(s, dt) /\ s \in ParkP!ParkSensors
  BY SamePark, SameParkTick
<1>2. ParkP!ParkInv'
  BY <1>1, ParkAssumptions, ParkP!TickKeepsParkInv
<1> QED  BY <1>2, SamePark, PTL

-------------------------------------------------------------------------------
(* What the calls of the layer keep                                        *)

LEMMA ShiftRequest ==
  ASSUME Shift!IInv, NEW g \in Gears, Shift!RequestGear(g)
  PROVE  Shift!IInv'
BY DEF Shift!RequestGear,
     Shift!IInv, Shift!TypeOK, Shift!StepUnderWay, Shift!CutIsTwoSided,
     Shift!FaultMeansIdle, Shift!RampIsPercentage, Shift!InStep, Shift!OneSided,
     Shift!Adjacent, Shift!ShiftPhase, Shift!ShiftFault, Shift!Gears,
     Shift!Forward, Shift!Neutral, Shift!Reverse, Gears, Neutral, Forward,
     Reverse

LEMMA ParkRequest ==
  ASSUME Park!ParkInv, NEW engaged \in BOOLEAN, Park!RequestEngaged(engaged)
  PROVE  Park!ParkInv'
BY DEF Park!RequestEngaged,
     Park!ParkInv, Park!TypeOK, Park!ActuatesOnlyWhenSafe,
     Park!ParkBitIsConfirmed, Park!DrivenIsTimed, Park!ParkState,
     Park!ParkFault, Park!ParkSensors, Park!VehicleStationaryEnough,
     Park!DecodeSenseState, Park!HoldEnergise, Park!ReleaseEnergise

LEMMA ShiftUnchanged == Shift!IInv /\ UNCHANGED shiftVars => Shift!IInv'
BY DEF shiftVars,
     Shift!IInv, Shift!TypeOK, Shift!StepUnderWay, Shift!CutIsTwoSided,
     Shift!FaultMeansIdle, Shift!RampIsPercentage, Shift!InStep, Shift!OneSided,
     Shift!Adjacent, Shift!ShiftPhase, Shift!ShiftFault, Shift!Gears,
     Shift!Forward, Shift!Neutral, Shift!Reverse, Gears, Neutral, Forward,
     Reverse

LEMMA ParkUnchanged == Park!ParkInv /\ UNCHANGED parkVars => Park!ParkInv'
BY DEF parkVars,
     Park!ParkInv, Park!TypeOK, Park!ActuatesOnlyWhenSafe,
     Park!ParkBitIsConfirmed, Park!DrivenIsTimed, Park!ParkState,
     Park!ParkFault, Park!ParkSensors, Park!VehicleStationaryEnough,
     Park!DecodeSenseState, Park!HoldEnergise, Park!ReleaseEnergise

LEMMA MachineTypes ==
  /\ Shift!IInv => Shift!TypeOK /\ current \in Gears /\ phase \in Shift!ShiftPhase
  /\ Park!ParkInv => Park!TypeOK
BY DEF Shift!IInv, Shift!TypeOK, Shift!Gears, Shift!Forward, Shift!Neutral, Shift!Reverse,
       Gears, Forward, Neutral, Reverse, Park!ParkInv

\* The gear a TargetGear stands for has a row in the table.
LEMMA GearOfIsGear ==
  ASSUME NEW tg \in {P, R, N, D} \cup Manual
  PROVE  GearOf(tg) \in Gears
BY DEF GearOf, Gears, Forward, Neutral, Reverse, P, R, N, D, Manual

LEMMA LaterInRange ==
  ASSUME NEW a \in 0..MaxAge, NEW dt \in Deltas
  PROVE  Later(a, dt) \in 0..MaxAge
BY BindAssumption DEF Later

\* The types of what the layer keeps of its own.
OwnTypeOK ==
  /\ vcuVars \in BOOLEAN \X BOOLEAN \X (0..MaxAge) \X BOOLEAN
  /\ fault_bits \subseteq FaultBit
  /\ shift_count \in 0..(ShiftCountRange - 1)
  /\ last_completed_gear \in Gears
  /\ age \in [Loops -> 0..MaxAge]
  /\ channels \subseteq DOMAIN SolenoidId

LEMMA TypeParts == TypeOK <=> Shift!TypeOK /\ Park!TypeOK /\ OwnTypeOK
BY DEF TypeOK, OwnTypeOK

\* How the gear moves in a Tick: it is another one exactly when the step completes.
LEMMA GearInTick ==
  ASSUME Shift!IInv, NEW ack, NEW dt, Shift!TickWith(ack, dt)
  PROVE  /\ phase' = "Complete" =>
              \/ phase = "Complete" /\ current' = current
              \/ phase = "Overlap" /\ current' = next_step /\ next_step # current
         /\ phase' \notin {"Idle", "Complete"} => phase # "Complete" /\ current' = current
<1>1. phase = "Overlap" => next_step # current
  BY DEF
     Shift!IInv, Shift!TypeOK, Shift!StepUnderWay, Shift!CutIsTwoSided,
     Shift!FaultMeansIdle, Shift!RampIsPercentage, Shift!InStep, Shift!OneSided,
     Shift!Adjacent, Shift!ShiftPhase, Shift!ShiftFault, Shift!Gears,
     Shift!Forward, Shift!Neutral, Shift!Reverse, Gears, Neutral, Forward,
     Reverse
<1> USE DEF Shift!EnterPhase, Shift!StayInPhase
<1>2. CASE \/ Shift!RejectTarget(ack) \/ Shift!StartStep(ack) \/ Shift!RestInGear(ack, dt)
           \/ Shift!EndPreFill(ack, dt) \/ Shift!TorqueIsCut(ack)
           \/ Shift!TimeOutTorqueCut(ack, dt)
  BY <1>2 DEF Shift!RejectTarget, Shift!StartStep, Shift!RestInGear, Shift!EndPreFill,
     Shift!TorqueIsCut, Shift!TimeOutTorqueCut
<1>3. CASE Shift!EndOverlap(ack, dt) \/ Shift!EndComplete(ack, dt) \/ Shift!Wait(ack, dt)
  BY <1>1, <1>3 DEF Shift!EndOverlap, Shift!EndComplete, Shift!Wait
<1> QED  BY <1>2, <1>3 DEF Shift!TickWith

-------------------------------------------------------------------------------
(* The solenoids                                                           *)

\* The elements a machine state energises are those of its gear, or of the two
\* gears of its step.
LEMMA EnergisedIsLegal ==
  ASSUME Shift!IInv
  PROVE  \E a, b \in Gears :
           /\ a = b \/ (a \in Forward /\ b \in Forward /\ a = b + 1)
           /\ Shift!Energised = ClutchesFor(a) \cup ClutchesFor(b)
<1> DEFINE Both == ClutchesFor(current) \cup ClutchesFor(next_step)
<1>1. current \in Gears /\ next_step \in Gears
  BY DEF Shift!IInv, Shift!TypeOK, Shift!Gears, Shift!Forward, Shift!Neutral, Shift!Reverse,
     Gears, Forward, Neutral, Reverse
<1>2. \A h : Shift!ClutchesFor(h) = ClutchesFor(h)
  BY DEF Shift!ClutchesFor, ClutchesFor, Shift!Gears, Shift!Forward, Shift!Neutral,
     Shift!Reverse, Gears, Forward, Neutral, Reverse
<1>3. CASE ~Shift!InStep
  <2>1. Shift!Energised = ClutchesFor(current)
    BY <1>2, <1>3 DEF Shift!Energised, Shift!EngagedSet, Shift!RampingInSet,
       Shift!RampingOutSet, Shift!InStep
  <2> QED  BY <1>1, <2>1
<1>4. CASE Shift!InStep
  <2>1. Shift!Energised = Both
    BY <1>2, <1>4 DEF Shift!Energised, Shift!EngagedSet, Shift!RampingInSet,
       Shift!RampingOutSet, Shift!InStep, Shift!LiftSet, Shift!DropSet
  <2>2. \/ current \in Forward /\ next_step \in Forward
           /\ (next_step = current + 1 \/ current = next_step + 1)
        \/ current = Neutral \/ next_step = Neutral
    BY <1>4 DEF Shift!IInv, Shift!StepUnderWay, Shift!Adjacent, Shift!Gears, Shift!Forward,
       Shift!Neutral, Shift!Reverse, Gears, Forward, Neutral, Reverse
  <2>3. ClutchesFor(Neutral) = {}
    BY TableAssumption DEF NeutralEngagesNothing
  <2>4. CASE current \in Forward /\ next_step \in Forward /\ next_step = current + 1
    BY <1>1, <2>1, <2>4
  <2>5. CASE current \in Forward /\ next_step \in Forward /\ current = next_step + 1
    BY <1>1, <2>1, <2>5
  <2>6. CASE current = Neutral
    BY <1>1, <2>1, <2>3, <2>6
  <2>7. CASE next_step = Neutral
    BY <1>1, <2>1, <2>3, <2>7
  <2> QED  BY <2>2, <2>4, <2>5, <2>6, <2>7
<1> QED  BY <1>3, <1>4

LEMMA IdsAreDistinct ==
  /\ DOMAIN SolenoidId = Elements \cup {"Tcc", "LinePressure", "ParkHold", "ParkRelease"}
  /\ \A x \in Elements, y \in DOMAIN SolenoidId : SolenoidId[x] = SolenoidId[y] => x = y
  /\ \A x \in Elements : SolenoidId[x] \in 0..7
  /\ SolenoidId["ParkHold"] = 7 /\ SolenoidId["ParkRelease"] = 8
  /\ \A x \in Elements : SolenoidId[x] # 7
BY DEF SolenoidId, Elements

\* The mask, and with it the batch, holds exactly the elements commanded ...
LEMMA EnabledElements ==
  ASSUME Shift!IInv
  PROVE  Enabled(EngagementMask) \cap Elements = Shift!Energised
<1> DEFINE on == Shift!Energised \cup (IF Park!HoldEnergise THEN {"ParkHold"} ELSE {})
                                \cup (IF Park!ReleaseEnergise THEN {"ParkRelease"} ELSE {})
<1>1. \A h \in Gears : ClutchesFor(h) \subseteq Elements
  BY TableAssumption DEF ClutchesFor
<1>2. Shift!Energised \subseteq Elements
  BY <1>1, EnergisedIsLegal
<1>3. on \subseteq DOMAIN SolenoidId
  BY <1>2, IdsAreDistinct
<1>4. EngagementMask = UNION {SolenoidBit(s) : s \in on}
  BY DEF EngagementMask
<1>5. ASSUME NEW e \in Elements
      PROVE  e \in Enabled(EngagementMask) <=> e \in Shift!Energised
  <2>1. e \in Enabled(EngagementMask) <=> \E s \in on : SolenoidId[e] \in SolenoidBit(s)
    BY <1>4, IdsAreDistinct DEF Enabled
  <2>2. \A s \in on : SolenoidId[e] \in SolenoidBit(s) <=> SolenoidId[s] = SolenoidId[e]
    BY IdsAreDistinct DEF SolenoidBit
  <2>3. e \in on <=> e \in Shift!Energised
    BY DEF Elements
  <2> QED  BY <1>3, <2>1, <2>2, <2>3, IdsAreDistinct
<1> QED  BY <1>2, <1>5

\* ... and ParkHold if that is, while ParkRelease is lost in the uint8_t.
LEMMA EnabledHold ==
  ASSUME Shift!IInv, "ParkHold" \in Enabled(EngagementMask)
  PROVE  Park!HoldEnergise
<1> DEFINE on == Shift!Energised \cup (IF Park!HoldEnergise THEN {"ParkHold"} ELSE {})
                                \cup (IF Park!ReleaseEnergise THEN {"ParkRelease"} ELSE {})
<1>1. \A h \in Gears : ClutchesFor(h) \subseteq Elements
  BY TableAssumption DEF ClutchesFor
<1>2. Shift!Energised \subseteq Elements
  BY <1>1, EnergisedIsLegal
<1>3. \E s \in on : 7 \in SolenoidBit(s)
  BY IdsAreDistinct DEF Enabled, EngagementMask
<1>4. PICK s \in on : SolenoidId[s] = 7
  BY <1>3 DEF SolenoidBit
<1>5. s \notin Shift!Energised /\ s # "ParkRelease"
  BY <1>2, <1>4, IdsAreDistinct
<1> QED  BY <1>4, <1>5

-------------------------------------------------------------------------------
(* BindInv is inductive                                                    *)

LEMMA InitBindInv == Init => BindInv
<1> SUFFICES ASSUME Init PROVE BindInv
  OBVIOUS
<1>1. Shift!IInv /\ Park!ParkInv
  BY ShiftInit, ParkInit DEF Init
<1>2. OwnTypeOK
  <2>1. vcuVars \in BOOLEAN \X BOOLEAN \X (0..MaxAge) \X BOOLEAN
    <3>1. /\ vcu_torque_cut_ack \in BOOLEAN /\ vcu_request_ever_seen \in BOOLEAN
          /\ vcu_stale \in BOOLEAN
      BY Zenon DEF Init
    <3>2. vcu_request_age \in 0..MaxAge
      BY BindAssumption DEF Init
    <3> QED  BY <3>1, <3>2 DEF vcuVars
  <2>2. age \in [Loops -> 0..MaxAge]
    BY BindAssumption DEF Init
  <2>3. last_completed_gear \in Gears /\ shift_count \in 0..(ShiftCountRange - 1)
    BY BindAssumption DEF Init, Gears
  <2> QED  BY <2>1, <2>2, <2>3 DEF Init, OwnTypeOK
<1>3. StaleBitAgrees
  BY DEF Init, StaleBitAgrees
<1>4. CountedOnce /\ DeadSensorIsFlagged
  BY DEF Init, CountedOnce, DeadSensorIsFlagged, Shift!Init, Park!Init, Shift!Neutral, Neutral
<1>5. EnabledSetIsLegal
  <2>1. ClutchesFor(Neutral) = {} /\ Neutral \in Gears
    BY TableAssumption DEF NeutralEngagesNothing, Gears
  <2> QED  BY <2>1 DEF Init, EnabledSetIsLegal
<1> QED  BY <1>1, <1>2, <1>3, <1>4, <1>5, MachineTypes, TypeParts DEF BindInv

\* What a frame from the VCU leaves alone.
LEMMA SeeVcuKeeps ==
  ASSUME BindInv, SeeVcu
  PROVE  OwnTypeOK' /\ StaleBitAgrees' /\ EnabledSetIsLegal'
<1>1. OwnTypeOK
  BY TypeParts DEF BindInv
<1>2. OwnTypeOK'
  <2>1. vcuVars' \in BOOLEAN \X BOOLEAN \X (0..MaxAge) \X BOOLEAN
    <3>1. /\ vcu_torque_cut_ack' \in BOOLEAN /\ vcu_request_ever_seen' \in BOOLEAN
          /\ vcu_stale' \in BOOLEAN
      <4>1. vcu_torque_cut_ack \in BOOLEAN
        BY <1>1 DEF OwnTypeOK, vcuVars
      <4> QED  BY <4>1, Zenon DEF SeeVcu
    <3>2. vcu_request_age' \in 0..MaxAge
      BY BindAssumption DEF SeeVcu
    <3> QED  BY <3>1, <3>2 DEF vcuVars
  <2> QED  BY <1>1, <2>1 DEF OwnTypeOK, SeeVcu, outVars
<1>3. StaleBitAgrees'
  BY DEF SeeVcu, StaleBitAgrees
<1>4. EnabledSetIsLegal'
  BY DEF SeeVcu, outVars, BindInv, EnabledSetIsLegal
<1> QED  BY <1>2, <1>3, <1>4

LEMMA GearRequestKeepsInv ==
  ASSUME BindInv, NEW tg \in GearRequests, OnGearRequest(tg)
  PROVE  BindInv'
<1>1. GearOf(tg) \in Gears /\ Shift!RequestGear(GearOf(tg))
      /\ Park!RequestEngaged(tg = P) /\ SeeVcu
  BY GearOfIsGear DEF OnGearRequest
<1>2. Shift!IInv' /\ Park!ParkInv'
  <2>1. (tg = P) \in BOOLEAN
    OBVIOUS
  <2> QED  BY <1>1, <2>1, ShiftRequest, ParkRequest DEF BindInv
<1>3. CountedOnce'
  BY <1>1 DEF BindInv, CountedOnce, Shift!RequestGear, SeeVcu, outVars
<1>4. DeadSensorIsFlagged'
  BY <1>1 DEF BindInv, DeadSensorIsFlagged, Park!RequestEngaged, SeeVcu
<1>5. Shift!TypeOK' /\ Park!TypeOK'
  BY <1>2 DEF Shift!IInv, Park!ParkInv
<1>6. TypeOK'
  BY <1>1, <1>5, SeeVcuKeeps DEF OwnTypeOK, TypeOK
<1> QED  BY <1>1, <1>2, <1>3, <1>4, <1>6, SeeVcuKeeps DEF BindInv

LEMMA OtherFramesKeepInv ==
  ASSUME BindInv,
         \/ \E tg \in GearRequests : OnHoldRequest(tg)
         \/ \E ack \in BOOLEAN : OnVehicleInfo(ack)
         \/ UNCHANGED vars
  PROVE  BindInv'
<1>1. UNCHANGED <<shiftVars, parkVars, outVars>>
  BY DEF OnHoldRequest, SeeVcu, OnVehicleInfo, vars
<1>2. Shift!IInv' /\ Park!ParkInv'
  BY <1>1, ShiftUnchanged, ParkUnchanged DEF BindInv
<1>3. Shift!TypeOK' /\ Park!TypeOK'
  BY <1>2 DEF Shift!IInv, Park!ParkInv
<1>4. CountedOnce'
  BY <1>1 DEF BindInv, CountedOnce, shiftVars, outVars
<1>5. DeadSensorIsFlagged'
  <2>1. fault_bits \ {"CAN_STALE"} \subseteq fault_bits'
    BY DEF OnHoldRequest, SeeVcu, OnVehicleInfo, vars
  <2> QED  BY <1>1, <2>1 DEF BindInv, DeadSensorIsFlagged, parkVars
<1>6. OwnTypeOK' /\ StaleBitAgrees' /\ EnabledSetIsLegal'
  <2>1. OwnTypeOK
    BY TypeParts DEF BindInv
  <2>2. CASE \E tg \in GearRequests : OnHoldRequest(tg)
    BY <2>2, SeeVcuKeeps DEF OnHoldRequest
  <2>3. CASE \E ack \in BOOLEAN : OnVehicleInfo(ack)
    <3>1. vcuVars' \in BOOLEAN \X BOOLEAN \X (0..MaxAge) \X BOOLEAN
      BY <2>1, <2>3 DEF OwnTypeOK, OnVehicleInfo, vcuVars
    <3> QED  BY <2>1, <2>3, <3>1
             DEF OwnTypeOK, OnVehicleInfo, outVars, BindInv, StaleBitAgrees, EnabledSetIsLegal
  <2>4. CASE UNCHANGED vars
    BY <2>1, <2>4 DEF vars, vcuVars, OwnTypeOK, outVars, BindInv, StaleBitAgrees,
       EnabledSetIsLegal
  <2> QED  BY <2>2, <2>3, <2>4
<1> QED  BY <1>2, <1>3, <1>4, <1>5, <1>6 DEF BindInv, TypeOK, OwnTypeOK

LEMMA TickKeepsInv ==
  ASSUME BindInv, NEW s \in Readings, NEW faults \in DriverFaults, NEW dt \in Deltas,
         Tick(s, faults, dt)
  PROVE  BindInv'
<1> USE DEF BindInv
<1>1. OwnTypeOK /\ vcu_torque_cut_ack \in BOOLEAN
  <2>1. OwnTypeOK
    BY TypeParts
  <2> QED  BY <2>1 DEF OwnTypeOK, vcuVars
<1>2. faults \subseteq DriverFault /\ s \in Park!ParkSensors
  BY InputAssumption DEF Park!ParkSensors
<1>3. Shift!TickWith(vcu_torque_cut_ack, dt) /\ Park!Tick(s, dt)
  BY DEF Tick
<1>4. Shift!IInv' /\ Park!ParkInv'
  BY <1>1, <1>2, <1>3, ShiftTick, ParkTick
<1>5. Shift!TypeOK' /\ Park!TypeOK' /\ current' \in Gears
  BY <1>4 DEF Shift!IInv, Shift!TypeOK, Park!ParkInv, Shift!Gears, Shift!Forward,
     Shift!Neutral, Shift!Reverse, Gears, Forward, Neutral, Reverse
<1>6. OwnTypeOK'
  <2>1. vcu_request_age \in 0..MaxAge /\ vcu_request_ever_seen \in BOOLEAN
        /\ vcu_stale \in BOOLEAN
    BY <1>1 DEF OwnTypeOK, vcuVars
  <2>2. vcu_request_age' \in 0..MaxAge
    BY <2>1, LaterInRange DEF Tick, CheckStale
  <2>3. vcu_stale' \in BOOLEAN /\ vcu_request_ever_seen' \in BOOLEAN
    BY <2>1, Zenon DEF Tick, CheckStale, StaleNow
  <2>4. vcuVars' \in BOOLEAN \X BOOLEAN \X (0..MaxAge) \X BOOLEAN
    BY <1>1, <2>2, <2>3 DEF Tick, vcuVars
  <2>5. fault_bits' \subseteq FaultBit
    BY <1>1, <1>2 DEF Tick, PollMaxFaults, BitsAfterPark, OwnTypeOK, FaultBit
  <2>6. shift_count' \in 0..(ShiftCountRange - 1) /\ last_completed_gear' \in Gears
    BY <1>1, <1>5, BindAssumption DEF Tick, CountShift, OwnTypeOK
  <2>7. age' \in [Loops -> 0..MaxAge]
    <3>1. \A l \in Loops : Later(age[l], dt) \in 0..MaxAge
      BY <1>1, LaterInRange DEF OwnTypeOK
    <3>2. age' = [l \in Loops |-> IF Due(l, dt) THEN 0 ELSE Later(age[l], dt)]
      BY DEF Tick
    <3>3. 0 \in 0..MaxAge
      BY BindAssumption
    <3> QED  BY <3>1, <3>2, <3>3
  <2>8. channels' \subseteq DOMAIN SolenoidId
    BY <1>1 DEF Tick, EmitSolenoids, Enabled, OwnTypeOK
  <2> QED  BY <2>4, <2>5, <2>6, <2>7, <2>8 DEF OwnTypeOK
<1>7. StaleBitAgrees'
  BY <1>2 DEF Tick, CheckStale, StaleBitAgrees, PollMaxFaults, BitsAfterPark, DriverFault
<1>8. CountedOnce'
  <2>1. /\ phase' = "Idle" => last_completed_gear' = current'
        /\ phase' # "Idle" => last_completed_gear' = last_completed_gear
    BY DEF Tick, CountShift
  <2> QED  BY <1>3, <2>1, GearInTick DEF CountedOnce
<1>9. DeadSensorIsFlagged'
  <2> SUFFICES ASSUME reading'.pos1 = reading'.pos2
               PROVE  "PARK_SENSOR" \in fault_bits'
    BY DEF DeadSensorIsFlagged
  <2>1. Park!DecodeSenseState(s) = "Fault"
    BY <1>3 DEF Park!Tick, Park!DecodeSenseState
  <2>2. park_fault' = "SensorImpossibleReading"
    BY <1>3, <2>1 DEF Park!Tick, Park!SenseFault, Park!Done, Park!Block, Park!TimeOut,
       Park!Drive
  <2> QED  BY <2>2 DEF Tick, PollMaxFaults, BitsAfterPark, DriverFault
<1>10. EnabledSetIsLegal'
  <2>1. CASE channels' = channels
    BY <2>1 DEF EnabledSetIsLegal
  <2>2. CASE channels' = Enabled(EngagementMask)'
    <3>1. (Enabled(EngagementMask) \cap Elements = Shift!Energised)'
      BY <1>4, EnabledElements, PTL
    <3>2. (\E a, b \in Gears :
             /\ a = b \/ (a \in Forward /\ b \in Forward /\ a = b + 1)
             /\ Shift!Energised = ClutchesFor(a) \cup ClutchesFor(b))'
      BY <1>4, EnergisedIsLegal, PTL
    <3> QED  BY <2>2, <3>1, <3>2 DEF EnabledSetIsLegal
  <2> QED  BY <2>1, <2>2 DEF Tick, EmitSolenoids, Enabled
<1> QED  BY <1>4, <1>5, <1>6, <1>7, <1>8, <1>9, <1>10 DEF TypeOK, OwnTypeOK

\* Whatever arrives and whenever Tick is called: staleness and its bit agree, every
\* completed step is counted once, a dead park sensor is flagged, and the enabled
\* elements are those of one gear or of two neighbours.
THEOREM BindIsSafe == Spec => []BindInv
<1>1. BindInv /\ [Next]_vars => BindInv'
  BY GearRequestKeepsInv, OtherFramesKeepInv, TickKeepsInv DEF Next
<1> QED  BY <1>1, InitBindInv, PTL DEF Spec

\* The park lock keeps its own invariant where it runs, with the request the frames
\* give it: no solenoid is driven but on a reading that allows it.
THEOREM ParkIsSafeInBind == Spec => []ParkInv
<1>1. BindInv => ParkInv
  BY DEF BindInv, ParkInv
<1> QED  BY <1>1, BindIsSafe, PTL

\* Nor longer than one pulse without a break, however the requests come.
THEOREM PulsesAreBoundedInBind == Spec => []PulseIsBounded
<1>1. BindInv => PulseIsBounded
  BY DEF BindInv, PulseIsBounded, Park!PulseIsBounded, Park!ParkInv, Park!TypeOK,
     Park!DrivenIsTimed, Park!HoldEnergise, Park!ReleaseEnergise
<1> QED  BY <1>1, BindIsSafe, PTL

\* ParkHold is only switched on by a batch of a Tick whose reading shows a standing
\* vehicle and a raised pawl.
THEOREM HoldIsSafe == Spec => HoldIsSwitchedOnSafely
<1>1. BindInv /\ BindInv' /\ [Next]_vars =>
        [("ParkHold" \in channels' \ channels) =>
           ~reading'.moving /\ reading'.pos2 /\ ~reading'.pos1]_vars
  <2> SUFFICES ASSUME BindInv', Next, "ParkHold" \in channels' \ channels
               PROVE  ~reading'.moving /\ reading'.pos2 /\ ~reading'.pos1
    OBVIOUS
  <2>1. channels' = Enabled(EngagementMask)'
    BY DEF Next, OnGearRequest, OnHoldRequest, OnVehicleInfo, SeeVcu, outVars, Tick,
       EmitSolenoids, Enabled
  <2>2. (Shift!IInv /\ "ParkHold" \in Enabled(EngagementMask))'
    BY <2>1 DEF BindInv
  <2>3. Park!HoldEnergise'
    BY <2>2, EnabledHold, PTL
  <2>4. Park!ParkInv'
    BY DEF BindInv
  <2> QED  BY <2>3, <2>4 DEF Park!ParkInv, Park!TypeOK, Park!ParkSensors,
           Park!ActuatesOnlyWhenSafe, Park!HoldEnergise, Park!VehicleStationaryEnough,
           Park!DecodeSenseState
<1> QED  BY <1>1, BindIsSafe, PTL DEF Spec, HoldIsSwitchedOnSafely

\* With the fault poll on the cadence of Status2, as shipped, both fall into the same
\* Ticks for ever, however late these come: what is polled is published at once.
THEOREM FaultsArePublished ==
  ASSUME kFaultPollMs = kCadence100msMs
  PROVE  Spec => PolledFaultsArePublished
<1> DEFINE InStep == age["fault_poll"] = age["status2"] /\ age["fault_poll"] \in Nat
<1>1. /\ {"fault_poll", "status2"} \subseteq Loops
      /\ Cadence["fault_poll"] = Cadence["status2"]
  BY DEF Loops, Cadence
<1>2. Init => InStep
  BY <1>1, BindAssumption DEF Init
<1>3. ASSUME InStep, NEW s, NEW faults, NEW dt \in Deltas, Tick(s, faults, dt)
      PROVE  /\ InStep'
             /\ age'["fault_poll"] = 0 /\ age["fault_poll"] # 0 =>
                  status2'.fault_bits = fault_bits'
  <2>1. Due("fault_poll", dt) <=> Due("status2", dt)
    BY <1>1, <1>3 DEF Due
  <2>2. \A l \in {"fault_poll", "status2"} :
          age'[l] = IF Due(l, dt) THEN 0 ELSE Later(age[l], dt)
    BY <1>1, <1>3 DEF Tick
  <2>3. Later(age["fault_poll"], dt) \in Nat /\ (Later(age["fault_poll"], dt) = 0 =>
          age["fault_poll"] = 0 \/ MaxAge = 0)
    BY <1>3, BindAssumption DEF Later
  <2>4. MaxAge # 0
    BY <1>1, BindAssumption
  <2>5. Due("status2", dt) => status2'.fault_bits = fault_bits'
    BY <1>3 DEF Tick, EmitStatus2
  <2> QED  BY <1>3, <2>1, <2>2, <2>3, <2>4, <2>5
<1>4. ASSUME InStep,
             \/ \E tg \in GearRequests : OnGearRequest(tg) \/ OnHoldRequest(tg)
             \/ \E ack \in BOOLEAN : OnVehicleInfo(ack)
             \/ UNCHANGED vars
      PROVE  InStep' /\ age' = age
  BY <1>4 DEF OnGearRequest, OnHoldRequest, SeeVcu, OnVehicleInfo, outVars, vars
<1>5. InStep /\ [Next]_vars => InStep'
  BY <1>3, <1>4 DEF Next
<1>6. InStep /\ [Next]_vars =>
        [age'["fault_poll"] = 0 /\ age["fault_poll"] # 0 =>
           status2'.fault_bits = fault_bits']_vars
  BY <1>3, <1>4 DEF Next
<1> QED  BY <1>2, <1>5, <1>6, PTL DEF Spec, PolledFaultsArePublished

-------------------------------------------------------------------------------
(* The handshake                                                           *)

USE VehicleInfoAssumption

\* A step of the composition is one of the bind layer, or none.
LEMMA StepOfBind ==
  ASSUME HandshakeInv, [HandshakeNext]_handshakeVars
  PROVE  [Next]_vars
<1>1. torque_is_cut \in BOOLEAN
  BY DEF HandshakeInv, StatusIsObeyed
<1>2. CASE UNCHANGED handshakeVars
  BY <1>2 DEF handshakeVars
<1>3. CASE SendVehicleInfo
  BY <1>1, <1>3 DEF SendVehicleInfo, Next
<1>4. CASE \E tg \in GearRequests : SendGearRequest(tg)
  BY <1>4 DEF SendGearRequest, Next
<1>5. CASE \E s \in Readings, faults \in DriverFaults, dt \in Deltas :
             TimePasses(s, faults, dt)
  BY <1>5 DEF TimePasses, Next
<1> QED  BY <1>2, <1>3, <1>4, <1>5 DEF HandshakeNext

LEMMA BindInvStep == BindInv /\ [Next]_vars => BindInv'
BY GearRequestKeepsInv, OtherFramesKeepInv, TickKeepsInv DEF Next

\* The numbers the argument is about.
LEMMA Times ==
  ASSUME HandshakeInv
  PROVE  /\ shift_elapsed \in Nat /\ age["shift_status"] \in 0..MaxAge
         /\ vehicle_info_age \in 0..VehicleInfoMs
         /\ NotAskedFor \in Nat
         /\ kCadence20msMs \in 1..MaxAge /\ MaxAge \in Nat
         /\ torque_restore_ms \in Nat /\ pre_fill_ms \in Nat /\ torque_cut_ack_ms \in Nat
         /\ torque_is_cut \in BOOLEAN
<1>1. "shift_status" \in Loops /\ Cadence["shift_status"] = kCadence20msMs
  BY DEF Loops, Cadence
<1>2. kCadence20msMs \in 1..MaxAge /\ MaxAge \in Nat
      /\ torque_restore_ms \in Nat /\ pre_fill_ms \in Nat /\ torque_cut_ack_ms \in Nat
  BY <1>1, BindAssumption
<1>3. shift_elapsed \in Nat
  BY <1>2 DEF HandshakeInv, BindInv, Shift!IInv, Shift!TypeOK
<1>4. age["shift_status"] \in 0..MaxAge
  BY <1>1, TypeParts DEF HandshakeInv, BindInv, OwnTypeOK
<1>5. NotAskedFor \in Nat
  BY <1>2, <1>3 DEF NotAskedFor
<1> QED  BY <1>2, <1>3, <1>4, <1>5 DEF HandshakeInv, StatusIsObeyed

\* TCU_ShiftStatus in a Tick: it goes out and its age is 0, or it ages and is not due.
LEMMA StatusInTick ==
  ASSUME HandshakeInv, NEW s \in Readings, NEW faults \in DriverFaults, NEW dt \in Deltas,
         TimePasses(s, faults, dt)
  PROVE  /\ age'["shift_status"] \in Nat /\ age'["shift_status"] < kCadence20msMs
         /\ \/ torque_is_cut' = Shift!TorqueCutRequest'
            \/ /\ torque_is_cut' = torque_is_cut
               /\ age'["shift_status"] = age["shift_status"] + dt
         /\ torque_is_cut' = shift_status'.torque_cut_request
<1>1. "shift_status" \in Loops /\ Cadence["shift_status"] = kCadence20msMs
  BY DEF Loops, Cadence
<1>2. age'["shift_status"] = IF Due("shift_status", dt)
                             THEN 0 ELSE Later(age["shift_status"], dt)
  BY <1>1 DEF TimePasses, Tick
<1>3. Later(age["shift_status"], dt) \in Nat /\ dt \in Nat
  BY Times, LaterInRange, BindAssumption
<1>4. torque_is_cut' = shift_status'.torque_cut_request
  BY DEF TimePasses
<1>5. CASE Due("shift_status", dt)
  <2>1. shift_status'.torque_cut_request = Shift!TorqueCutRequest'
    BY <1>5 DEF TimePasses, Tick, EmitShiftStatus
  <2> QED  BY <1>2, <1>4, <1>5, <2>1, Times
<1>6. CASE ~Due("shift_status", dt)
  <2>1. Later(age["shift_status"], dt) < kCadence20msMs
    BY <1>1, <1>3, <1>6, Times DEF Due
  <2>2. Later(age["shift_status"], dt) = age["shift_status"] + dt
    BY <1>3, <2>1, Times DEF Later
  <2>3. torque_is_cut' = torque_is_cut
    BY <1>4, <1>6 DEF TimePasses, Tick, EmitShiftStatus, HandshakeInv, StatusIsObeyed
  <2> QED  BY <1>2, <1>3, <1>4, <1>6, <2>1, <2>2, <2>3
<1> QED  BY <1>5, <1>6

LEMMA PhaseAges ==
  ASSUME HandshakeInv, NEW dt \in Deltas
  PROVE  Shift!Age(dt) \in Nat /\ Shift!Age(dt) <= shift_elapsed + dt
BY Times, BindAssumption DEF Shift!Age

\* The time for which no cut is asked for grows no faster than time, and is nothing
\* while one is.
LEMMA NotAskedForInTick ==
  ASSUME HandshakeInv, NEW ack, NEW dt \in Deltas,
         Shift!TickWith(ack, dt), Shift!IInv', shift_fault' = "None"
  PROVE  /\ NotAskedFor' <= NotAskedFor + dt
         /\ Shift!TorqueCutRequest' => NotAskedFor' = 0
<1>1. dt \in Nat
  BY BindAssumption
<1>2. Shift!IInv
  BY DEF HandshakeInv, BindInv
<1> USE Times, PhaseAges, <1>1 DEF NotAskedFor
<1>3. Shift!TorqueCutRequest' => NotAskedFor' = 0
  BY DEF Shift!TorqueCutRequest
<1>4. CASE Shift!RejectTarget(ack) \/ Shift!TimeOutTorqueCut(ack, dt)
  BY <1>4 DEF Shift!RejectTarget, Shift!TimeOutTorqueCut
<1>5. CASE Shift!StartStep(ack)
  <2>1. phase = "Idle" /\ phase' = (IF Shift!OneSided' THEN "Overlap" ELSE "PreFill")
        /\ shift_elapsed' = 0
    BY <1>5 DEF Shift!StartStep, Shift!EnterPhase, Shift!OneSided
  <2> QED  BY <1>3, <2>1
<1>6. CASE Shift!RestInGear(ack, dt)
  BY <1>3, <1>6 DEF Shift!RestInGear, Shift!StayInPhase
<1>7. CASE Shift!EndPreFill(ack, dt)
  BY <1>3, <1>7 DEF Shift!EndPreFill, Shift!EnterPhase
<1>8. CASE Shift!TorqueIsCut(ack)
  <2>1. phase' = "Overlap" /\ ~Shift!OneSided'
    BY <1>2, <1>8 DEF Shift!TorqueIsCut, Shift!EnterPhase, Shift!IInv, Shift!CutIsTwoSided,
       Shift!OneSided
  <2> QED  BY <1>3, <2>1
<1>9. CASE Shift!EndOverlap(ack, dt)
  BY <1>3, <1>9 DEF Shift!EndOverlap, Shift!EnterPhase
<1>10. CASE Shift!EndComplete(ack, dt)
  BY <1>3, <1>10 DEF Shift!EndComplete, Shift!EnterPhase, Shift!PhaseElapsed
<1>11. CASE Shift!Wait(ack, dt)
  <2>1. phase' = phase /\ shift_elapsed' = Shift!Age(dt)
        /\ Shift!OneSided' = Shift!OneSided
    BY <1>11 DEF Shift!Wait, Shift!StayInPhase, Shift!OneSided
  <2> QED  BY <1>3, <2>1
<1> QED  BY <1>4, <1>5, <1>6, <1>7, <1>8, <1>9, <1>10, <1>11 DEF Shift!TickWith

\* How a Tick leaves the machine in TorqueCut.
LEMMA TorqueCutInTick ==
  ASSUME HandshakeInv, NEW ack, NEW dt \in Deltas, Shift!TickWith(ack, dt),
         phase' = "TorqueCut"
  PROVE  /\ Shift!TorqueCutRequest'
         /\ \/ /\ shift_elapsed' = 0
               /\ phase = "PreFill" /\ shift_fault = "None"
               /\ pre_fill_ms <= shift_elapsed + dt
            \/ /\ phase = "TorqueCut" /\ ~ack
               /\ shift_elapsed' \in Nat /\ shift_elapsed' <= shift_elapsed + dt
<1>1. dt \in Nat
  BY BindAssumption
<1>2. phase # "Idle" => shift_fault = "None"
  BY DEF HandshakeInv, BindInv, Shift!IInv, Shift!FaultMeansIdle
<1>3. CASE Shift!EndPreFill(ack, dt)
  BY <1>1, <1>2, <1>3, Times, PhaseAges
     DEF Shift!EndPreFill, Shift!EnterPhase, Shift!PhaseElapsed, Shift!TorqueCutRequest
<1>4. CASE Shift!Wait(ack, dt)
  BY <1>4, Times, PhaseAges DEF Shift!Wait, Shift!StayInPhase, Shift!TorqueCutRequest
<1>5. Shift!EndPreFill(ack, dt) \/ Shift!Wait(ack, dt)
  BY DEF Shift!TickWith, Shift!RejectTarget, Shift!StartStep, Shift!RestInGear,
     Shift!TorqueIsCut, Shift!TimeOutTorqueCut, Shift!EndOverlap, Shift!EndComplete,
     Shift!EnterPhase, Shift!StayInPhase
<1> QED  BY <1>3, <1>4, <1>5

LEMMA InitHandshakeInv == HandshakeInit => HandshakeInv
<1> SUFFICES ASSUME HandshakeInit PROVE HandshakeInv
  OBVIOUS
<1>1. BindInv
  BY InitBindInv DEF HandshakeInit
<1>2. StatusIsObeyed
  <2>1. torque_is_cut = FALSE /\ shift_status.torque_cut_request = FALSE /\ phase = "Idle"
    BY DEF HandshakeInit, Init, Shift!Init
  <2>2. vehicle_info_age \in 0..VehicleInfoMs
    BY BindAssumption DEF HandshakeInit
  <2>3. torque_is_cut \in BOOLEAN
    BY <2>1, Zenon
  <2> QED  BY <2>1, <2>2, <2>3 DEF StatusIsObeyed
<1>3. AckIsDue /\ AckIsWithdrawn
  BY DEF HandshakeInit, Init, Shift!Init, AckIsDue, AckIsWithdrawn
<1> QED  BY <1>1, <1>2, <1>3 DEF HandshakeInv

LEMMA TimePassesKeepsInv ==
  ASSUME HandshakeInv, NEW s \in Readings, NEW faults \in DriverFaults, NEW dt \in Deltas,
         TimePasses(s, faults, dt)
  PROVE  HandshakeInv'
<1> DEFINE A == age["shift_status"]
<1>1. BindInv /\ BindInv'
  BY TickKeepsInv DEF HandshakeInv, TimePasses
<1>2. Shift!TickWith(vcu_torque_cut_ack, dt) /\ vcu_torque_cut_ack' = vcu_torque_cut_ack
  BY DEF TimePasses, Tick
<1>3. /\ vehicle_info_age' = vehicle_info_age + dt /\ vehicle_info_age' <= VehicleInfoMs
      /\ dt \in Nat
  BY BindAssumption DEF TimePasses
<1> A' \in Nat
  BY StatusInTick
<1>4. StatusIsObeyed'
  <2>1. torque_is_cut' \in BOOLEAN
    <3>1. Shift!TorqueCutRequest' \in BOOLEAN
      BY Zenon DEF Shift!TorqueCutRequest
    <3>2. torque_is_cut' = Shift!TorqueCutRequest' \/ torque_is_cut' = torque_is_cut
      BY StatusInTick
    <3>3. torque_is_cut \in BOOLEAN
      BY Times
    <3> QED  BY <3>1, <3>2, <3>3, Zenon
  <2> QED  BY <1>3, <2>1, StatusInTick, Times DEF StatusIsObeyed
<1>5. AckIsDue'
  <2> SUFFICES ASSUME phase' = "TorqueCut"
               PROVE  /\ ~torque_is_cut' => shift_elapsed' <= A'
                      /\ torque_is_cut' /\ ~vcu_torque_cut_ack =>
                           shift_elapsed' < vehicle_info_age' + kCadence20msMs
    BY <1>2 DEF AckIsDue
  <2>1. ~torque_is_cut' => ~torque_is_cut /\ A' = A + dt
    BY <1>2, StatusInTick, TorqueCutInTick
  <2>2. CASE shift_elapsed' = 0
    BY <1>3, <2>2, StatusInTick, Times
  <2>3. CASE /\ phase = "TorqueCut" /\ ~vcu_torque_cut_ack
             /\ shift_elapsed' \in Nat /\ shift_elapsed' <= shift_elapsed + dt
    <3>1. ~torque_is_cut => shift_elapsed <= A /\ A < kCadence20msMs
      BY <2>3 DEF HandshakeInv, AckIsDue, StatusIsObeyed
    <3>2. torque_is_cut => shift_elapsed < vehicle_info_age + kCadence20msMs
      BY <2>3 DEF HandshakeInv, AckIsDue
    <3>3. shift_elapsed < vehicle_info_age + kCadence20msMs
      BY <3>1, <3>2, Times
    <3>4. shift_elapsed' < vehicle_info_age' + kCadence20msMs
      BY <1>3, <2>3, <3>3, Times
    <3>5. ~torque_is_cut' => shift_elapsed' <= A'
      BY <1>3, <2>1, <2>3, <3>1, Times
    <3> QED  BY <3>4, <3>5
  <2> QED  BY <1>2, <2>2, <2>3, TorqueCutInTick
<1>6. AckIsWithdrawn'
  <2> SUFFICES ASSUME shift_fault' = "None"
               PROVE  /\ torque_is_cut' => NotAskedFor' <= A'
                      /\ ~torque_is_cut' /\ vcu_torque_cut_ack =>
                           NotAskedFor' < vehicle_info_age' + kCadence20msMs
    BY <1>2 DEF AckIsWithdrawn
  <2>1. shift_fault = "None"
    BY <1>2 DEF Shift!TickWith, Shift!RejectTarget, Shift!StartStep, Shift!RestInGear,
       Shift!EndPreFill, Shift!TorqueIsCut, Shift!TimeOutTorqueCut, Shift!EndOverlap,
       Shift!EndComplete, Shift!Wait, Shift!EnterPhase, Shift!StayInPhase
  <2>2. /\ torque_is_cut => NotAskedFor <= A
        /\ ~torque_is_cut /\ vcu_torque_cut_ack =>
             NotAskedFor < vehicle_info_age + kCadence20msMs
    BY <2>1 DEF HandshakeInv, AckIsWithdrawn
  <2>3. Shift!IInv'
    BY <1>1 DEF BindInv
  <2>4. NotAskedFor' <= NotAskedFor + dt /\ NotAskedFor' \in Nat
    <3>1. shift_elapsed' \in Nat
      BY <2>3, Times DEF Shift!IInv, Shift!TypeOK
    <3>2. NotAskedFor' \in Nat
      BY <3>1, Times DEF NotAskedFor
    <3> QED  BY <1>2, <2>3, <3>2, NotAskedForInTick
  <2>5. Shift!TorqueCutRequest' => NotAskedFor' = 0
    BY <1>2, <2>3, NotAskedForInTick
  <2>6. ASSUME torque_is_cut' PROVE NotAskedFor' <= A'
    <3>1. CASE Shift!TorqueCutRequest'
      BY <2>5, <3>1
    <3>2. CASE torque_is_cut /\ A' = A + dt
      BY <1>3, <2>2, <2>4, <3>2, Times
    <3> QED  BY <2>6, <3>1, <3>2, StatusInTick
  <2>7. ASSUME ~torque_is_cut', vcu_torque_cut_ack
        PROVE  NotAskedFor' < vehicle_info_age' + kCadence20msMs
    <3>1. CASE torque_is_cut
      <4>1. A < kCadence20msMs
        BY <3>1 DEF HandshakeInv, StatusIsObeyed
      <4>2. NotAskedFor <= A
        BY <2>2, <3>1
      <4> QED  BY <1>3, <2>4, <4>1, <4>2, Times
    <3>2. CASE ~torque_is_cut
      BY <1>3, <2>2, <2>4, <2>7, <3>2, Times
    <3> QED  BY <3>1, <3>2
  <2> QED  BY <2>6, <2>7
<1> QED  BY <1>1, <1>4, <1>5, <1>6 DEF HandshakeInv

\* Frames of the VCU: a new acknowledgement says what is, and time stands still.
LEMMA FramesKeepHandshakeInv ==
  ASSUME HandshakeInv,
         \/ SendVehicleInfo
         \/ \E tg \in GearRequests : SendGearRequest(tg)
         \/ UNCHANGED handshakeVars
  PROVE  HandshakeInv'
<1>1. BindInv'
  BY StepOfBind, BindInvStep DEF HandshakeInv, HandshakeNext
<1>2. /\ torque_is_cut' = torque_is_cut
      /\ UNCHANGED <<phase, shift_fault, shift_elapsed, current, next_step>>
      /\ age' = age /\ shift_status' = shift_status
  BY DEF SendVehicleInfo, SendGearRequest, OnVehicleInfo, OnGearRequest, OnHoldRequest,
     SeeVcu, shiftVars, outVars, Shift!RequestGear, handshakeVars, vars
<1>3. \/ vcu_torque_cut_ack' = torque_is_cut /\ vehicle_info_age' = 0
      \/ vcu_torque_cut_ack' = vcu_torque_cut_ack /\ vehicle_info_age' = vehicle_info_age
  BY DEF SendVehicleInfo, SendGearRequest, OnVehicleInfo, OnGearRequest, OnHoldRequest,
     SeeVcu, handshakeVars, vars, vcuVars
<1>4. NotAskedFor' = NotAskedFor
  BY <1>2 DEF NotAskedFor, Shift!OneSided
<1>5. vehicle_info_age' \in 0..VehicleInfoMs
  BY <1>3, BindAssumption, Times
<1>6. StatusIsObeyed'
  BY <1>2, <1>5 DEF HandshakeInv, StatusIsObeyed
<1>7. AckIsDue' /\ AckIsWithdrawn'
  BY <1>2, <1>3, <1>4 DEF HandshakeInv, AckIsDue, AckIsWithdrawn
<1> QED  BY <1>1, <1>6, <1>7 DEF HandshakeInv

\* Whatever the timing, a cut waited for is due within one cycle of each frame, and
\* an acknowledgement is withdrawn within one cycle of each.
THEOREM HandshakeIsTimed == HandshakeSpec => []HandshakeInv
<1>1. HandshakeInv /\ [HandshakeNext]_handshakeVars => HandshakeInv'
  BY TimePassesKeepsInv, FramesKeepHandshakeInv DEF HandshakeNext
<1> QED  BY <1>1, InitHandshakeInv, PTL DEF HandshakeSpec

\* A step is given up only on a VCU not heard for as long as the budget leaves, one
\* cycle of TCU_ShiftStatus taken off: whatever the calibration and the cycle, no
\* VCU is timed out that answers faster than that.
THEOREM TimeoutNeedsSilence == HandshakeSpec => TimeoutMeansSilence
<1>1. HandshakeInv /\ [HandshakeNext]_handshakeVars
        => [shift_fault # "TorqueCutTimeout" /\ shift_fault' = "TorqueCutTimeout"
              => torque_cut_ack_ms < vehicle_info_age' + kCadence20msMs]_handshakeVars
  <2> SUFFICES ASSUME HandshakeInv, [HandshakeNext]_handshakeVars,
                      shift_fault # "TorqueCutTimeout", shift_fault' = "TorqueCutTimeout"
               PROVE  torque_cut_ack_ms < vehicle_info_age' + kCadence20msMs
    OBVIOUS
  <2>1. shift_fault' # shift_fault
    OBVIOUS
  <2>2. PICK s \in Readings, faults \in DriverFaults, dt \in Deltas :
               TimePasses(s, faults, dt)
    BY <2>1 DEF HandshakeNext, SendVehicleInfo, SendGearRequest, OnVehicleInfo,
       OnGearRequest, OnHoldRequest, SeeVcu, shiftVars, Shift!RequestGear,
       handshakeVars, vars
  <2>3. Shift!TimeOutTorqueCut(vcu_torque_cut_ack, dt)
    BY <2>1, <2>2 DEF TimePasses, Tick, Shift!TickWith, Shift!RejectTarget,
       Shift!StartStep, Shift!RestInGear, Shift!EndPreFill, Shift!TorqueIsCut,
       Shift!EndOverlap, Shift!EndComplete, Shift!Wait, Shift!EnterPhase, Shift!StayInPhase
  <2>4. /\ phase = "TorqueCut" /\ ~vcu_torque_cut_ack
        /\ torque_cut_ack_ms <= shift_elapsed + dt
        /\ vehicle_info_age' = vehicle_info_age + dt /\ dt \in Nat
    BY <2>2, <2>3, Times, PhaseAges, BindAssumption
       DEF Shift!TimeOutTorqueCut, Shift!PhaseElapsed, TimePasses
  <2>5. shift_elapsed < vehicle_info_age + kCadence20msMs
    <3>1. ~torque_is_cut => shift_elapsed <= age["shift_status"]
                            /\ age["shift_status"] < kCadence20msMs
      BY <2>4 DEF HandshakeInv, AckIsDue, StatusIsObeyed
    <3>2. torque_is_cut => shift_elapsed < vehicle_info_age + kCadence20msMs
      BY <2>4 DEF HandshakeInv, AckIsDue
    <3> QED  BY <3>1, <3>2, Times
  <2> QED  BY <2>4, <2>5, Times, VehicleInfoAssumption
<1> QED  BY <1>1, HandshakeIsTimed, PTL DEF HandshakeSpec, TimeoutMeansSilence

\* If the phases between two cuts last as long as the two frames take to withdraw
\* the acknowledgement of the first, that of the second is its own.
AckIsReal == phase = "TorqueCut" /\ vcu_torque_cut_ack => torque_is_cut

\* Clutches are then swapped only while torque is cut.
THEOREM TrueAck ==
  ASSUME VehicleInfoMs + kCadence20msMs <= pre_fill_ms + torque_restore_ms
  PROVE  HandshakeSpec => OverlapMeansTorqueIsCut
<1>1. HandshakeInit => AckIsReal
  BY DEF HandshakeInit, Init, Shift!Init, AckIsReal
<1>2. HandshakeInv /\ AckIsReal /\ [HandshakeNext]_handshakeVars => AckIsReal'
  <2> SUFFICES ASSUME HandshakeInv, AckIsReal, [HandshakeNext]_handshakeVars,
                      phase' = "TorqueCut", vcu_torque_cut_ack', ~torque_is_cut'
               PROVE  FALSE
    BY DEF AckIsReal
  <2>1. CASE \/ SendVehicleInfo
             \/ \E tg \in GearRequests : SendGearRequest(tg)
             \/ UNCHANGED handshakeVars
    BY <2>1 DEF AckIsReal, SendVehicleInfo, SendGearRequest, OnVehicleInfo, OnGearRequest,
       OnHoldRequest, SeeVcu, shiftVars, Shift!RequestGear, handshakeVars, vars, vcuVars
  <2>2. CASE \E s \in Readings, faults \in DriverFaults, dt \in Deltas :
               TimePasses(s, faults, dt)
    <3>1. PICK s \in Readings, faults \in DriverFaults, dt \in Deltas :
                 TimePasses(s, faults, dt)
      BY <2>2
    <3>2. Shift!TickWith(vcu_torque_cut_ack, dt) /\ vcu_torque_cut_ack
      BY <3>1 DEF TimePasses, Tick
    <3>3. /\ phase = "PreFill" /\ shift_fault = "None"
          /\ pre_fill_ms <= shift_elapsed + dt
          /\ Shift!TorqueCutRequest'
      BY <3>2, TorqueCutInTick
    <3>4. ~torque_is_cut
      BY <3>1, <3>3, StatusInTick
    <3>5. torque_restore_ms + shift_elapsed < vehicle_info_age + kCadence20msMs
      BY <3>2, <3>3, <3>4 DEF HandshakeInv, AckIsWithdrawn, NotAskedFor
    <3>6. vehicle_info_age + dt <= VehicleInfoMs /\ dt \in Nat
      BY <3>1, BindAssumption DEF TimePasses
    <3> QED  BY <3>3, <3>5, <3>6, Times, VehicleInfoAssumption
  <2> QED  BY <2>1, <2>2 DEF HandshakeNext
<1>3. HandshakeInv /\ AckIsReal /\ [HandshakeNext]_handshakeVars =>
        [phase = "TorqueCut" /\ phase' = "Overlap" => torque_is_cut]_handshakeVars
  <2> SUFFICES ASSUME HandshakeInv, AckIsReal, HandshakeNext,
                      phase = "TorqueCut", phase' = "Overlap"
               PROVE  torque_is_cut
    OBVIOUS
  <2>1. PICK s \in Readings, faults \in DriverFaults, dt \in Deltas :
               TimePasses(s, faults, dt)
    BY DEF HandshakeNext, SendVehicleInfo, SendGearRequest, OnVehicleInfo,
       OnGearRequest, OnHoldRequest, SeeVcu, shiftVars, Shift!RequestGear
  <2>2. Shift!TorqueIsCut(vcu_torque_cut_ack)
    BY <2>1 DEF TimePasses, Tick, Shift!TickWith, Shift!RejectTarget, Shift!StartStep,
       Shift!RestInGear, Shift!EndPreFill, Shift!TimeOutTorqueCut, Shift!EndOverlap,
       Shift!EndComplete, Shift!Wait, Shift!EnterPhase, Shift!StayInPhase
  <2> QED  BY <2>2 DEF AckIsReal, Shift!TorqueIsCut
<1> QED  BY <1>1, <1>2, <1>3, HandshakeIsTimed, PTL DEF HandshakeSpec, OverlapMeansTorqueIsCut
================================================================================
