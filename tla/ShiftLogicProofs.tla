--------------------------- MODULE ShiftLogicProofs ---------------------------
(***************************************************************************)
(* Proofs about ShiftLogic, for every calibration, every spacing of the    *)
(* Ticks, every set of requests and every clutch table that passes the     *)
(* static_asserts of clutch_table.h.                                       *)
(***************************************************************************)
EXTENDS ShiftLogic, FiniteSetTheorems, TLAPS

\* A planned step is an edge of the gear graph (shift_logic.cpp:31-53).
LEMMA PlanIsAdjacent ==
  ASSUME current \in Gears, target \in Gears, current # target
  PROVE  PlanNextStep \in Gears /\ Adjacent(current, PlanNextStep)
<1>1. CASE current \in Forward /\ target \in Forward
  <2>1. PlanNextStep = IF target > current THEN current + 1 ELSE current - 1
    BY <1>1 DEF PlanNextStep, Forward
  <2>2. QED
    BY <1>1, <2>1 DEF Adjacent, Gears, Forward, Neutral, Reverse
<1>2. CASE current = Neutral
  <2>1. PlanNextStep = IF target = Reverse THEN Reverse ELSE 1
    BY <1>2 DEF PlanNextStep, Forward, Neutral, Gears
  <2>2. QED
    BY <1>2, <2>1 DEF Adjacent, Gears, Forward, Neutral, Reverse
<1>3. CASE current # Neutral /\ ~(current \in Forward /\ target \in Forward)
  <2>1. PlanNextStep = Neutral
    BY <1>3 DEF PlanNextStep
  <2>2. QED
    BY <1>3, <2>1 DEF Adjacent, Gears
<1>4. QED
  BY <1>1, <1>2, <1>3

\* The age of a phase stays a number that saturates (shift_logic.h:123-125).
LEMMA AgeInRange ==
  ASSUME elapsed \in 0..MaxAge, NEW dt \in Deltas
  PROVE  Age(dt) \in 0..MaxAge
BY CalAssumption DEF Age

LEMMA InitIInv == Init => IInv
<1> SUFFICES ASSUME Init PROVE IInv
  OBVIOUS
<1>1. TypeOK
  <2>1. torque_cut_ack \in BOOLEAN
    BY Zenon DEF Init
  <2>2. 0 \in 0..MaxAge
    BY CalAssumption
  <2>3. QED
    BY <2>1, <2>2 DEF Init, TypeOK, Gears, ShiftPhase, ShiftFault
<1>2. StepUnderWay /\ CutIsTwoSided /\ FaultMeansIdle /\ RampIsPercentage
  BY DEF Init, StepUnderWay, CutIsTwoSided, FaultMeansIdle,
         RampIsPercentage, InStep
<1>3. QED
  BY <1>1, <1>2 DEF IInv

\* A Tick keeps IInv, whatever acknowledgement is plumbed in before it: the step
\* planned stays adjacent, and every way into Idle or out of it keeps faults and
\* phases together.
LEMMA TickKeepsIInv ==
  ASSUME IInv, NEW ack \in BOOLEAN, NEW dt \in Deltas, TickWith(ack, dt)
  PROVE  IInv'
<1> USE DEF IInv, TypeOK, StepUnderWay, CutIsTwoSided, FaultMeansIdle,
            RampIsPercentage, InStep, OneSided,
            EnterPhase, ShiftPhase, ShiftFault, TargetValid
<1>0. Age(dt) \in 0..MaxAge /\ 0 \in 0..MaxAge
  BY AgeInRange, CalAssumption
<1>1. CASE RejectTarget(ack)
  BY <1>0, <1>1 DEF RejectTarget
<1>2. CASE TargetValid /\ StartStep(ack)
  <2>1. PlanNextStep \in Gears /\ Adjacent(current, PlanNextStep)
    BY <1>2, PlanIsAdjacent DEF StartStep
  <2>2. QED
    BY <1>0, <1>2, <2>1, CalAssumption DEF StartStep
<1>3. CASE RestInGear(ack, dt)
  BY <1>0, <1>3 DEF RestInGear, StayInPhase
<1>4. CASE EndPreFill(ack, dt)
  BY <1>0, <1>4 DEF EndPreFill
<1>5. CASE TorqueIsCut(ack)
  BY <1>0, <1>5, CalAssumption DEF TorqueIsCut
<1>6. CASE TimeOutTorqueCut(ack, dt)
  BY <1>0, <1>6 DEF TimeOutTorqueCut
<1>7. CASE EndOverlap(ack, dt)
  BY <1>0, <1>7 DEF EndOverlap
<1>8. CASE EndComplete(ack, dt)
  BY <1>0, <1>8 DEF EndComplete
<1>9. CASE Wait(ack, dt)
  BY <1>0, <1>9, CalAssumption DEF Wait, StayInPhase, PhaseElapsed
<1>10. QED
  BY <1>1, <1>2, <1>3, <1>4, <1>5, <1>6, <1>7, <1>8, <1>9 DEF TickWith

\* IInv is inductive.
LEMMA NextIInv == IInv /\ [Next]_vars => IInv'
<1> SUFFICES ASSUME IInv, [Next]_vars PROVE IInv'
  OBVIOUS
<1> USE DEF IInv, TypeOK, StepUnderWay, CutIsTwoSided, FaultMeansIdle,
            RampIsPercentage, InStep, OneSided
<1>1. ASSUME NEW g \in Requests, RequestGear(g) PROVE IInv'
  BY <1>1 DEF RequestGear
<1>2. ASSUME NEW ack \in BOOLEAN, SetTorqueCutAck(ack) PROVE IInv'
  BY <1>2 DEF SetTorqueCutAck
<1>3. ASSUME NEW dt \in Deltas, Tick(dt) PROVE IInv'
  BY <1>3, TickKeepsIInv DEF Tick
<1>4. CASE UNCHANGED vars
  BY <1>4 DEF vars
<1>5. QED
  BY <1>1, <1>2, <1>3, <1>4 DEF Next

\* Types, the step under way being an edge of the graph, faults only at rest,
\* and ramps within their budgets hold in every reachable state.
THEOREM Safety == Spec => []IInv
BY InitIInv, NextIInv, PTL DEF Spec
-------------------------------------------------------------------------------
(* The clutch table                                                        *)

LEMMA ElementsFinite == IsFiniteSet(Elements)
<1>1. IsFiniteSet({"A"}) /\ IsFiniteSet({"B"}) /\ IsFiniteSet({"C"})
      /\ IsFiniteSet({"D"}) /\ IsFiniteSet({"E"})
  BY FS_Singleton
<1>2. IsFiniteSet({"A"} \cup {"B"})
  BY <1>1, FS_Union
<1>3. IsFiniteSet(({"A"} \cup {"B"}) \cup {"C"})
  BY <1>1, <1>2, FS_Union
<1>4. IsFiniteSet((({"A"} \cup {"B"}) \cup {"C"}) \cup {"D"})
  BY <1>1, <1>3, FS_Union
<1>5. IsFiniteSet(((({"A"} \cup {"B"}) \cup {"C"}) \cup {"D"}) \cup {"E"})
  BY <1>1, <1>4, FS_Union
<1>6. Elements = ((({"A"} \cup {"B"}) \cup {"C"}) \cup {"D"}) \cup {"E"}
  BY DEF Elements
<1>7. QED
  BY <1>5, <1>6

LEMMA ClutchesAreElements ==
  ASSUME NEW g PROVE ClutchesFor(g) \in SUBSET Elements
BY TableAssumption DEF ClutchesFor

\* is_single_element, read with its popcounts: neighbouring forward gears
\* differ by one element released and one applied.
LEMMA ForwardStepSwapsOne ==
  ASSUME NEW from \in Forward, NEW to \in Forward, Adjacent(from, to)
  PROVE  /\ \E x : DropSet(from, to) = {x}
         /\ \E x : LiftSet(from, to) = {x}
<1> DEFINE D(a, b) == ClutchesFor(a) \ ClutchesFor(b)
<1>1. ASSUME NEW a, NEW b PROVE IsFiniteSet(D(a, b))
  <2>1. D(a, b) \in SUBSET Elements
    BY ClutchesAreElements
  <2>2. QED
    BY <2>1, ElementsFinite, FS_Subset
<1>2. ASSUME NEW g \in 1..7
      PROVE  /\ \E x : D(g, g + 1) = {x}
             /\ \E x : D(g + 1, g) = {x}
  <2>1. Cardinality(D(g, g + 1)) = 1 /\ Cardinality(D(g + 1, g)) = 1
    BY TableAssumption DEF AdjacentPairsAreSingleElement, IsSingleElement,
       DropSet, LiftSet
  <2>2. QED
    BY <1>1, <2>1, FS_Singleton
<1>3. CASE to = from + 1
  <2>1. from \in 1..7
    BY <1>3 DEF Forward
  <2>2. QED
    BY <1>2, <1>3, <2>1 DEF DropSet, LiftSet
<1>4. CASE from = to + 1
  <2>1. to \in 1..7
    BY <1>4 DEF Forward
  <2>2. QED
    BY <1>2, <1>4, <2>1 DEF DropSet, LiftSet
<1>5. to = from + 1 \/ from = to + 1
  BY DEF Adjacent, Forward, Neutral
<1>6. QED
  BY <1>3, <1>4, <1>5

\* What a command energises: the elements of the gear, and those of the step
\* under way that it fills.
LEMMA EnergisedSet ==
  /\ Energised = ClutchesFor(current)
       \cup (IF InStep THEN LiftSet(current, next_step) ELSE {})
  /\ Energised' = ClutchesFor(current')
       \cup (IF InStep' THEN LiftSet(current', next_step') ELSE {})
BY DEF Energised, EngagedSet, RampingInSet, RampingOutSet, InStep, LiftSet, DropSet

-------------------------------------------------------------------------------
(* Action properties                                                       *)

\* The steps of Next by the way they change the command: everything else
\* leaves gear, step and phase alone.
LEMMA StepKinds ==
  ASSUME IInv, [Next]_vars
  PROVE  \/ UNCHANGED <<current, next_step, phase, fault>>
         \/ RejectTarget(torque_cut_ack)
         \/ TargetValid /\ StartStep(torque_cut_ack)
         \/ \E dt \in Deltas : EndPreFill(torque_cut_ack, dt)
         \/ TorqueIsCut(torque_cut_ack)
         \/ \E dt \in Deltas : TimeOutTorqueCut(torque_cut_ack, dt)
         \/ \E dt \in Deltas : EndOverlap(torque_cut_ack, dt)
         \/ \E dt \in Deltas : EndComplete(torque_cut_ack, dt)
BY DEF Next, vars, RequestGear, SetTorqueCutAck, Tick, TickWith, RestInGear,
       Wait, StayInPhase

\* The gear moves along edges of the gear graph only.
THEOREM GearStepsAreAdjacent == Spec => OneStepAtATime
<1>1. ASSUME IInv, [Next]_vars, current' # current
      PROVE  Adjacent(current, current')
  <2>1. \E dt \in Deltas : EndOverlap(torque_cut_ack, dt)
    BY <1>1, StepKinds DEF RejectTarget, StartStep, EndPreFill, TorqueIsCut,
       TimeOutTorqueCut, EndComplete
  <2>2. QED
    BY <1>1, <2>1 DEF EndOverlap, IInv, StepUnderWay, InStep
<1>2. IInv /\ [Next]_vars => [current' # current => Adjacent(current, current')]_vars
  BY <1>1
<1>3. QED
  BY Safety, <1>2, PTL DEF Spec, OneStepAtATime

\* A step keeps its destination and ends there, or a fault is recorded.
THEOREM StepsRunToTheirEnd == Spec => StepRunsToItsEnd
<1> DEFINE P == InStep => /\ next_step' = next_step
                          /\ ~InStep' => current' = next_step \/ fault' # "None"
<1>1. ASSUME IInv, [Next]_vars PROVE P
  BY <1>1, StepKinds DEF InStep, RejectTarget, StartStep, EndPreFill,
     TorqueIsCut, TimeOutTorqueCut, EndOverlap, EndComplete, EnterPhase
<1>2. IInv /\ [Next]_vars => [P]_vars
  BY <1>1
<1>3. QED
  BY Safety, <1>2, PTL DEF Spec, StepRunsToItsEnd

\* A step given up leaves no trace: the gear, the elements and the engine are as
\* they were before it began, and what asked for it waits no more.
THEOREM AbortsRestoreTheGear == Spec => AbortRestoresGear
<1> DEFINE P == InStep /\ ~InStep' /\ current' # next_step =>
                  /\ phase' = "Idle" /\ current' = current /\ target' = current
                  /\ Energised' = ClutchesFor(current)
                  /\ ~TorqueCutRequest' /\ ~torque_cut_ack'
<1>1. ASSUME IInv, [Next]_vars, InStep, ~InStep', current' # next_step PROVE P
  <2>1. \/ RejectTarget(torque_cut_ack)
        \/ \E dt \in Deltas : TimeOutTorqueCut(torque_cut_ack, dt)
    BY <1>1, StepKinds DEF InStep, StartStep, EndPreFill, TorqueIsCut, EndOverlap,
       EndComplete, EnterPhase
  <2>2. /\ phase' = "Idle" /\ current' = current /\ target' = current
        /\ ~torque_cut_ack'
    BY <2>1 DEF RejectTarget, TimeOutTorqueCut, EnterPhase
  <2>3. Energised' = ClutchesFor(current') /\ ~TorqueCutRequest'
    BY <2>2, EnergisedSet DEF InStep, TorqueCutRequest
  <2>4. QED
    BY <2>2, <2>3
<1>2. IInv /\ [Next]_vars => [P]_vars
  BY <1>1
<1>3. QED
  BY Safety, <1>2, PTL DEF Spec, AbortRestoresGear

\* Between forward gears, at most one element is switched per Tick.
THEOREM ElementsSwitchOneByOne == Spec => OneElementAtATime
<1> DEFINE Switched == (Energised \ Energised') \cup (Energised' \ Energised)
           P == {current, current'} \subseteq Forward
                  => \A x, y \in Switched : x = y
           C == ClutchesFor(current)
           L == LiftSet(current, next_step)
<1>1. ASSUME IInv, [Next]_vars, current \in Forward, current' \in Forward
      PROVE  \A x, y \in Switched : x = y
  <2>1. ASSUME NEW to, Adjacent(current, to)
        PROVE  \A x, y \in LiftSet(current, to) : x = y
    <3>1. CASE to \in Forward
      BY <1>1, <2>1, <3>1, ForwardStepSwapsOne
    <3>2. CASE to = Neutral
      BY <3>2, TableAssumption DEF LiftSet, NeutralEngagesNothing
    <3>3. to \in Forward \/ to = Neutral
      BY <1>1, <2>1 DEF Adjacent, Forward, Neutral
    <3>4. QED
      BY <3>1, <3>2, <3>3
  <2>2. CASE UNCHANGED <<current, next_step, phase, fault>>
    BY <2>2, EnergisedSet DEF InStep
  <2>3. CASE \/ RejectTarget(torque_cut_ack)
             \/ \E dt \in Deltas : TimeOutTorqueCut(torque_cut_ack, dt)
    <3>1. current' = current /\ phase' = "Idle"
      BY <2>3 DEF RejectTarget, TimeOutTorqueCut, EnterPhase
    <3>2. Energised' = C /\ Energised = C \cup (IF InStep THEN L ELSE {})
      BY <3>1, EnergisedSet DEF InStep
    <3>3. InStep => \A x, y \in L : x = y
      BY <1>1, <2>1 DEF IInv, StepUnderWay
    <3>4. QED
      BY <3>2, <3>3
  <2>4. CASE TargetValid /\ StartStep(torque_cut_ack)
    <3>1. /\ current' = current /\ next_step' = PlanNextStep
          /\ phase = "Idle" /\ phase' \in {"PreFill", "Overlap"}
      BY <2>4 DEF StartStep, EnterPhase
    <3>2. Adjacent(current, PlanNextStep)
      BY <1>1, <2>4, PlanIsAdjacent DEF StartStep, TargetValid, IInv, TypeOK
    <3>3. Energised = C /\ Energised' = C \cup LiftSet(current, PlanNextStep)
      BY <3>1, EnergisedSet DEF InStep
    <3>4. QED
      BY <2>1, <3>2, <3>3
  <2>5. CASE \/ \E dt \in Deltas : EndPreFill(torque_cut_ack, dt)
             \/ TorqueIsCut(torque_cut_ack)
    <3>1. UNCHANGED <<current, next_step>> /\ InStep /\ InStep'
      BY <2>5 DEF EndPreFill, TorqueIsCut, EnterPhase, InStep
    <3>2. QED
      BY <3>1, EnergisedSet
  <2>6. CASE \E dt \in Deltas : EndOverlap(torque_cut_ack, dt)
    <3>1. current' = next_step /\ InStep /\ ~InStep'
      BY <2>6 DEF EndOverlap, EnterPhase, InStep
    <3>2. Energised = C \cup L /\ Energised' = ClutchesFor(next_step)
      BY <3>1, EnergisedSet
    <3>3. Switched = DropSet(current, next_step)
      BY <3>2 DEF LiftSet, DropSet
    <3>4. next_step \in Forward /\ Adjacent(current, next_step)
      BY <1>1, <3>1 DEF IInv, StepUnderWay
    <3>5. QED
      BY <1>1, <3>3, <3>4, ForwardStepSwapsOne
  <2>7. CASE \E dt \in Deltas : EndComplete(torque_cut_ack, dt)
    <3>1. UNCHANGED <<current, next_step>> /\ ~InStep /\ ~InStep'
      BY <2>7 DEF EndComplete, EnterPhase, InStep
    <3>2. QED
      BY <3>1, EnergisedSet
  <2>8. QED
    BY <1>1, <2>2, <2>3, <2>4, <2>5, <2>6, <2>7, StepKinds
<1>2. IInv /\ [Next]_vars => [P]_vars
  BY <1>1
<1>3. QED
  BY Safety, <1>2, PTL DEF Spec, OneElementAtATime

\* A held element starts to drain only under an acknowledged torque cut.
THEOREM DrainsOnlyUnderCut == Spec => DrainOnlyUnderCut
<1> DEFINE P == \A e \in EngagedSet \ EngagedSet' :
                  \/ OneSided'
                  \/ TorqueCutRequest /\ torque_cut_ack
<1>1. ASSUME IInv, [Next]_vars PROVE P
  <2>1. CASE UNCHANGED <<current, next_step, phase, fault>>
    BY <2>1 DEF EngagedSet
  <2>2. CASE \/ RejectTarget(torque_cut_ack)
             \/ \E dt \in Deltas : TimeOutTorqueCut(torque_cut_ack, dt)
             \/ \E dt \in Deltas : EndPreFill(torque_cut_ack, dt)
             \/ \E dt \in Deltas : EndComplete(torque_cut_ack, dt)
    <3>1. current' = current /\ phase' # "Overlap"
      BY <2>2 DEF RejectTarget, TimeOutTorqueCut, EndPreFill, EndComplete, EnterPhase
    <3>2. QED
      BY <3>1 DEF EngagedSet
  <2>3. CASE TargetValid /\ StartStep(torque_cut_ack)
    <3>1. current' = current /\ (phase' = "Overlap" => OneSided')
      BY <2>3 DEF StartStep, EnterPhase, OneSided
    <3>2. QED
      BY <2>3, <3>1 DEF EngagedSet, StartStep
  <2>4. CASE TorqueIsCut(torque_cut_ack)
    BY <2>4 DEF TorqueIsCut, TorqueCutRequest
  <2>5. CASE \E dt \in Deltas : EndOverlap(torque_cut_ack, dt)
    <3>1. phase = "Overlap" /\ current' = next_step /\ phase' = "Complete"
      BY <2>5 DEF EndOverlap, EnterPhase
    <3>2. EngagedSet \subseteq EngagedSet'
      BY <3>1 DEF EngagedSet
    <3>3. QED
      BY <3>2
  <2>6. QED
    BY <1>1, <2>1, <2>2, <2>3, <2>4, <2>5, StepKinds
<1>2. IInv /\ [Next]_vars => [P]_vars
  BY <1>1
<1>3. QED
  BY Safety, <1>2, PTL DEF Spec, DrainOnlyUnderCut

-------------------------------------------------------------------------------
(* The published progress                                                  *)

LEMMA QuotientBounds ==
  ASSUME NEW x \in Nat, NEW m \in Nat \ {0}
  PROVE  x \div m \in Nat /\ (x \div m) * m <= x /\ x < (x \div m) * m + m
BY SMT

LEMMA ProductIsMonotonic ==
  ASSUME NEW x \in Nat, NEW y \in Nat, NEW m \in Nat, x <= y
  PROVE  x * m \in Nat /\ y * m \in Nat /\ x * m <= y * m
BY SMT

LEMMA QuotientIsMonotonic ==
  ASSUME NEW x \in Nat, NEW y \in Nat, NEW m \in Nat \ {0}, x <= y
  PROVE  x \div m <= y \div m
<1> DEFINE p == x \div m
           q == y \div m
<1>1. p \in Nat /\ q \in Nat /\ p * m <= x /\ y < q * m + m
  BY QuotientBounds
<1> HIDE DEF p, q
<1> SUFFICES ASSUME q + 1 <= p PROVE FALSE
  BY <1>1 DEF p, q
<1>2. (q + 1) * m <= p * m /\ p * m \in Nat /\ q * m \in Nat
  BY <1>1, ProductIsMonotonic
<1>3. (q + 1) * m = q * m + m
  BY <1>1, SMT
<1> QED  BY <1>1, <1>2, <1>3

\* A ramp's progress is a percentage that grows with its age: the products of
\* shift_logic.cpp:163-165 and 187-189, as they are before the cast to 8 bits.
LEMMA RampGrows ==
  ASSUME NEW a \in Nat, NEW b \in Nat, a <= b,
         NEW budget \in Nat \ {0}, b <= budget, NEW pct \in 0..100
  PROVE  /\ (a * pct) \div budget \in 0..100 /\ (b * pct) \div budget \in 0..100
         /\ (a * pct) \div budget <= (b * pct) \div budget
<1> DEFINE x == a * pct
           y == b * pct
           z == budget * pct
<1>1. x \in Nat /\ y \in Nat /\ z \in Nat /\ x <= y /\ y <= z
  BY ProductIsMonotonic
<1>2. z \div budget = pct
  <2>1. pct * budget = z
    BY SMT
  <2>2. z \div budget \in Nat /\ (z \div budget) * budget <= z
        /\ z < (z \div budget) * budget + budget
    BY <1>1, QuotientBounds
  <2> DEFINE q == z \div budget
  <2> HIDE DEF q, z
  <2>3. q \in Nat /\ q * budget <= pct * budget /\ pct * budget < q * budget + budget
    BY <2>1, <2>2 DEF q
  <2>4. ~(q + 1 <= pct)
    <3>1. q + 1 <= pct => (q + 1) * budget <= pct * budget
      BY <2>3, ProductIsMonotonic
    <3>2. (q + 1) * budget = q * budget + budget /\ q * budget \in Nat /\ pct * budget \in Nat
      BY <2>3, SMT
    <3> QED  BY <2>3, <3>1, <3>2
  <2>5. ~(pct + 1 <= q)
    <3>1. pct + 1 <= q => (pct + 1) * budget <= q * budget
      BY <2>3, ProductIsMonotonic
    <3>2. (pct + 1) * budget = pct * budget + budget /\ q * budget \in Nat /\ pct * budget \in Nat
      BY <2>3, SMT
    <3> QED  BY <2>3, <3>1, <3>2
  <2>6. q = pct
    BY <2>3, <2>4, <2>5
  <2> QED  BY <2>6 DEF q
<1> HIDE DEF x, y, z
<1>3. x \div budget <= y \div budget /\ y \div budget <= pct
  <2>1. y \div budget <= z \div budget
    BY <1>1, QuotientIsMonotonic
  <2> QED  BY <1>1, <1>2, <2>1, QuotientIsMonotonic
<1>4. x \div budget \in Nat /\ y \div budget \in Nat
  BY <1>1, QuotientBounds
<1>5. x \div budget \in 0..100 /\ y \div budget \in 0..100
  BY <1>3, <1>4
<1> QED  BY <1>3, <1>5 DEF x, y

\* While a phase goes on its age grows, or is left alone by a call from above.
LEMMA PhaseAges ==
  ASSUME IInv, [Next]_vars, phase' = phase, phase \in {"PreFill", "Overlap"}
  PROVE  elapsed <= elapsed'
<1>1. CASE elapsed' = elapsed
  BY <1>1 DEF IInv, TypeOK
<1>2. ASSUME NEW dt \in Deltas, elapsed' = Age(dt) PROVE elapsed <= elapsed'
  BY <1>2, CalAssumption DEF IInv, TypeOK, Age
<1>3. elapsed' = elapsed \/ \E dt \in Deltas : elapsed' = Age(dt)
  BY DEF Next, vars, RequestGear, SetTorqueCutAck, Tick, TickWith, RejectTarget,
     StartStep, RestInGear, EndPreFill, TorqueIsCut, TimeOutTorqueCut, EndOverlap,
     EndComplete, Wait, StayInPhase, EnterPhase
<1> QED  BY <1>1, <1>2, <1>3

\* The progress of a ramp never falls back, although it is computed in 32 bits and
\* published in 8, and however late the Ticks come.
THEOREM RampsOnlyGrow == Spec => RampNeverFallsBack
<1> DEFINE P == (phase' = phase /\ next_step' = next_step)
                   => RampProgress' >= RampProgress
<1>1. ASSUME IInv, IInv', [Next]_vars, phase' = phase PROVE RampProgress' >= RampProgress
  <2>0. pre_fill_ms \in Nat /\ overlap_ms \in Nat /\ pre_fill_pct \in 0..100 /\ 100 \in 0..100
    BY CalAssumption
  <2>1. elapsed \in Nat /\ elapsed' \in Nat
    BY <1>1 DEF IInv, TypeOK
  <2>2. CASE phase = "PreFill" /\ pre_fill_ms # 0
    <3>1. elapsed <= elapsed' /\ elapsed' <= pre_fill_ms
      BY <1>1, <2>2, PhaseAges DEF IInv, RampIsPercentage
    <3> DEFINE now  == (elapsed * pre_fill_pct) \div pre_fill_ms
               next == (elapsed' * pre_fill_pct) \div pre_fill_ms
    <3>2. now \in 0..100 /\ next \in 0..100 /\ now <= next
      BY <2>0, <2>1, <2>2, <3>1, RampGrows
    <3>3. RampProgress = now % 256 /\ RampProgress' = next % 256
      BY <1>1, <2>2 DEF RampProgress
    <3> HIDE DEF now, next
    <3> QED  BY <3>2, <3>3
  <2>3. CASE phase = "Overlap" /\ overlap_ms # 0
    <3>1. elapsed <= elapsed' /\ elapsed' <= overlap_ms
      BY <1>1, <2>3, PhaseAges DEF IInv, RampIsPercentage
    <3> DEFINE now  == (elapsed * 100) \div overlap_ms
               next == (elapsed' * 100) \div overlap_ms
    <3>2. now \in 0..100 /\ next \in 0..100 /\ now <= next
      BY <2>0, <2>1, <2>3, <3>1, RampGrows
    <3>3. RampProgress = now % 256 /\ RampProgress' = next % 256
      BY <1>1, <2>3 DEF RampProgress
    <3> HIDE DEF now, next
    <3> QED  BY <3>2, <3>3
  <2>4. CASE \/ phase \notin {"PreFill", "Overlap"}
             \/ phase = "PreFill" /\ pre_fill_ms = 0
             \/ phase = "Overlap" /\ overlap_ms = 0
    BY <1>1, <2>4, CalAssumption DEF RampProgress
  <2> QED  BY <2>2, <2>3, <2>4
<1>2. IInv /\ IInv' /\ [Next]_vars => [P]_vars
  BY <1>1
<1>3. QED
  BY Safety, <1>2, PTL DEF Spec, RampNeverFallsBack

-------------------------------------------------------------------------------
(* The refinement                                                          *)

\* The safety half of the refinement: shift orchestration walks the gear graph
\* (the other half, that every step ends, needs fairness and stays with TLC).
THEOREM ImplementsGearPath ==
  Spec => Path!PathInit /\ [][Path!PathNext]_Path!pathVars
<1> USE DEF Path!pathVars, Path!AtRest, InStep
<1>1. Init => Path!PathInit
  BY DEF Init, Path!PathInit
<1>2. IInv /\ [Next]_vars => [Path!PathNext]_Path!pathVars
  <2> SUFFICES ASSUME IInv, [Next]_vars
               PROVE  [Path!PathNext]_Path!pathVars
    OBVIOUS
  <2>1. CASE UNCHANGED <<current, next_step, phase, fault>>
    BY <2>1
  <2>2. CASE \/ RejectTarget(torque_cut_ack)
             \/ \E dt \in Deltas : TimeOutTorqueCut(torque_cut_ack, dt)
    <3>1. Path!GiveUp
      BY <2>2 DEF RejectTarget, TimeOutTorqueCut, EnterPhase, Path!GiveUp
    <3>2. QED
      BY <3>1 DEF Path!PathNext
  <2>3. CASE TargetValid /\ StartStep(torque_cut_ack)
    <3>1. PlanNextStep \in Gears /\ Adjacent(current, PlanNextStep)
      BY <2>3, PlanIsAdjacent DEF StartStep, TargetValid, IInv, TypeOK
    <3>2. <<current, PlanNextStep>> \in GearGraph
      BY <3>1 DEF GearGraph, IInv, TypeOK
    <3>3. Path!Depart
      BY <2>3, <3>1, <3>2 DEF StartStep, EnterPhase, Path!Depart
    <3>4. QED
      BY <3>3 DEF Path!PathNext
  <2>4. CASE \/ \E dt \in Deltas : EndPreFill(torque_cut_ack, dt)
             \/ TorqueIsCut(torque_cut_ack)
             \/ \E dt \in Deltas : EndComplete(torque_cut_ack, dt)
    BY <2>4 DEF EndPreFill, TorqueIsCut, EndComplete, EnterPhase
  <2>5. CASE \E dt \in Deltas : EndOverlap(torque_cut_ack, dt)
    <3>1. Adjacent(current, next_step)
      BY <2>5 DEF EndOverlap, IInv, StepUnderWay
    <3>2. current # next_step
      BY <3>1 DEF Adjacent, Forward, Neutral, Reverse, Gears
    <3>3. Path!Arrive
      BY <2>5, <3>2 DEF EndOverlap, EnterPhase, Path!Arrive
    <3>4. QED
      BY <3>3 DEF Path!PathNext
  <2>6. QED
    BY <2>1, <2>2, <2>3, <2>4, <2>5, StepKinds
<1>3. QED
  BY <1>1, <1>2, Safety, PTL DEF Spec
===============================================================================
