------------------------------ MODULE PumpMasterProofs ------------------------------
(***************************************************************************)
(* For every duration, counter range and length of the master's phases:    *)
(* MasterInv is inductive, and a running pump faults only with a cause.    *)
(***************************************************************************)
EXTENDS PumpMaster, TLAPS

LEMMA NotYounger ==
  ASSUME NEW age \in Nat, NEW later \in Nat, NEW n \in Nat, age <= later, age + 1 >= n
  PROVE  later + 1 >= n
OBVIOUS

LEMMA OldEnough ==
  ASSUME NEW later \in Nat, NEW n \in Nat, n <= later
  PROVE  later + 1 >= n
OBVIOUS

USE PumpAssumption, MasterAssumption DEF PumpAssumption, MasterAssumption

\* A counter stays in its range, an age within its bound.
LEMMA FollowingType ==
  ASSUME NEW range \in Nat \ {0}, NEW n \in 0..(range - 1)
  PROVE  Following(n, range) \in 0..(range - 1)
BY DEF Following

LEMMA OlderType ==
  ASSUME NEW bound \in Nat, NEW age \in 0..bound
  PROVE  Older(age, bound) \in 0..bound /\ age <= Older(age, bound)
BY DEF Older

LEMMA AwakeType ==
  ASSUME TypeOK
  PROVE  /\ Awake.state \in PumpState
         /\ Awake.expected \in 0..(CounterRange - 1) \cup {None}
         /\ Awake.echo \in 0..(EchoRange - 1)
         /\ Awake.counter \in 0..(CounterRange - 1)
BY DEF TypeOK, Awake, PumpState

\* What the pump answers, by the three ways it does.
LEMMA AnswerOutcome ==
  ASSUME TypeOK, NEW running \in BOOLEAN, Answer(Awake, running)
  PROVE  /\ echo_seed' \in 0..(EchoRange - 1) /\ out_counter' \in 0..(CounterRange - 1)
         /\ last_status' \in PumpStatus
         /\ last_status'.ok /\ last_status'.echo = echo_seed'
<1>1. /\ echo_seed' \in 0..(EchoRange - 1) /\ out_counter' \in 0..(CounterRange - 1)
  BY AwakeType, FollowingType DEF Answer
<1>2. last_status' = [ok |-> TRUE, running |-> running,
                      echo |-> echo_seed', counter |-> out_counter']
  BY DEF Answer
<1> QED  BY <1>1, <1>2 DEF PumpStatus

LEMMA QuietOutcome ==
  ASSUME TypeOK, NEW status \in PumpStatus, Quiet(Awake, status)
  PROVE  /\ echo_seed' \in 0..(EchoRange - 1) /\ out_counter' \in 0..(CounterRange - 1)
         /\ last_status' \in PumpStatus
BY AwakeType DEF Quiet

LEMMA StatusType == NewStatus \in PumpStatus /\ Watchdog \in PumpStatus
<1>1. 0 \in 0..(EchoRange - 1) /\ 0 \in 0..(CounterRange - 1)
  OBVIOUS
<1>2. NewStatus \in PumpStatus
  BY <1>1 DEF NewStatus, PumpStatus
<1>3. Watchdog \in PumpStatus
  BY <1>2 DEF Watchdog, PumpStatus
<1> QED  BY <1>2, <1>3

\* Every answer of the pump leaves it well typed, whatever it does to its state.
LEMMA ReplyType ==
  ASSUME TypeOK, NEW f \in MasterFrame, RxMaster(f)
  PROVE  /\ echo_seed' \in 0..(EchoRange - 1) /\ out_counter' \in 0..(CounterRange - 1)
         /\ last_status' \in PumpStatus
<1>1. CASE \E running \in BOOLEAN : Answer(Awake, running)
  BY <1>1, AnswerOutcome
<1>2. CASE \E status \in {NewStatus, Watchdog} : Quiet(Awake, status)
  BY <1>2, QuietOutcome, StatusType
<1>3. \/ \E running \in BOOLEAN : Answer(Awake, running)
      \/ \E status \in {NewStatus, Watchdog} : Quiet(Awake, status)
  BY DEF RxMaster, Start, Coldstart, BeginRun, KeepRunning, Fault, MasterFrame
<1> QED  BY <1>1, <1>2, <1>3

\* Where a frame can take the pump, and from where: (1) to RUN, by a run command
\* it accepts and answers with the seed it keeps, (2) to PHASE2_READY, by a
\* phase-2 command at the end of a coldstart, (3) to COLDSTART, (4) out of RUN into
\* FAULT, by a mismatch of the command, the seed or the counter.
LEMMA RxOutcome ==
  ASSUME TypeOK, NEW f \in MasterFrame, RxMaster(f)
  PROVE  /\ state' = "RUN" =>
              /\ f.command = "run"
              /\ last_status'.ok /\ last_status'.echo = echo_seed'
              /\ expected_master_counter' = Following(f.counter, CounterRange)
              /\ ~IsAsleep /\ state \in {"PHASE2_READY", "RUN"}
         /\ state' = "PHASE2_READY" =>
              /\ f.command = "phase2" /\ last_status'.ok
              /\ ~IsAsleep
              /\ \/ state = "PHASE2_READY"
                 \/ state = "COLDSTART" /\ coldstart_age + 1 >= COLDSTART_DURATION
         /\ state' = "COLDSTART" =>
              \/ coldstart_age' = 0 /\ (IsAsleep \/ state \in {"OFF", "FAULT"})
              \/ /\ ~IsAsleep /\ state = "COLDSTART"
                 /\ coldstart_age' = Older(coldstart_age, COLDSTART_DURATION)
         /\ state = "RUN" /\ state' = "FAULT" =>
              /\ ~IsAsleep
              /\ \/ f.command # "run" \/ f.echo # echo_seed
                 \/ f.counter \notin {expected_master_counter,
                                      Following(expected_master_counter, CounterRange)}
<1> DEFINE p == Awake
<1>1. p.state = "OFF" \/ (~IsAsleep /\ p.state = state)
  BY DEF Awake
<1>2. ~IsAsleep => /\ p.state = state /\ p.expected = expected_master_counter
                   /\ p.echo = echo_seed
  BY DEF Awake
<1>3. IsAsleep => p.state = "OFF" /\ p.expected = None
  BY DEF Awake
<1>4. CASE ~IsNext(p, f)
  <2>1. state' = "FAULT" /\ p.expected # None
    BY <1>4 DEF RxMaster, Fault, IsNext
  <2>2. ~IsAsleep /\ f.counter \notin {expected_master_counter,
                                       Following(expected_master_counter, CounterRange)}
    BY <1>4, <1>2, <1>3, <2>1 DEF IsNext
  <2> QED  BY <2>1, <2>2
<1>5. CASE IsNext(p, f)
  <2>1. expected_master_counter' = Following(f.counter, CounterRange)
    BY <1>5 DEF RxMaster
  <2>2. CASE Start(p, f)
    <3>1. /\ p.state \in {"OFF", "FAULT"} /\ coldstart_age' = 0
          /\ state' = "COLDSTART" \/ state' = p.state
      BY <2>2 DEF Start
    <3>2. IsAsleep \/ state \in {"OFF", "FAULT"}
      BY <3>1, <1>2
    <3>3. ~(state = "RUN" /\ state' = "FAULT")
      BY <3>1, <1>1, <1>2, <1>3
    <3> QED  BY <3>1, <3>2, <3>3
  <2>3. CASE Coldstart(p, f)
    <3>1. ~IsAsleep /\ state = "COLDSTART"
      BY <2>3, <1>2, <1>3 DEF Coldstart
    <3>2. /\ coldstart_age' = Older(coldstart_age, COLDSTART_DURATION)
          /\ \/ state' = "COLDSTART"
             \/ /\ state' = "PHASE2_READY" /\ f.command = "phase2"
                /\ coldstart_age + 1 >= COLDSTART_DURATION
      BY <2>3 DEF Coldstart
    <3>3. f.command = "phase2" => last_status'.ok
      BY <2>3, AnswerOutcome DEF Coldstart
    <3> QED  BY <3>1, <3>2, <3>3
  <2>4. CASE BeginRun(p, f)
    <3>1. ~IsAsleep /\ state = "PHASE2_READY"
      BY <2>4, <1>2, <1>3 DEF BeginRun
    <3>2. CASE f.command = "run" /\ state' = "RUN" /\ Answer(p, TRUE)
      BY <3>1, <3>2, <2>1, AnswerOutcome
    <3>3. CASE f.command = "phase2" /\ state' = p.state /\ Answer(p, FALSE)
      BY <3>1, <3>3, <1>2, AnswerOutcome
    <3>4. CASE f.command = "phase1" /\ Fault(p)
      BY <3>1, <3>4 DEF Fault
    <3> QED  BY <2>4, <3>2, <3>3, <3>4 DEF BeginRun
  <2>5. CASE KeepRunning(p, f)
    <3>1. ~IsAsleep /\ state = "RUN"
      BY <2>5, <1>2, <1>3 DEF KeepRunning
    <3>2. CASE f.command = "run" /\ f.echo = p.echo
      <4>1. state' = "RUN" /\ Answer(p, TRUE)
        BY <2>5, <3>2 DEF KeepRunning
      <4> QED  BY <3>1, <3>2, <4>1, <2>1, AnswerOutcome
    <3>3. CASE ~(f.command = "run" /\ f.echo = p.echo)
      <4>1. state' = "FAULT"
        BY <2>5, <3>3 DEF KeepRunning, Fault
      <4> QED  BY <3>1, <3>3, <4>1, <1>2
    <3> QED  BY <3>2, <3>3
  <2> QED  BY <1>5, <2>2, <2>3, <2>4, <2>5 DEF RxMaster
<1> QED  BY <1>4, <1>5

\* A frame leaves the pump well typed, awake and with a counter to expect.
LEMMA RxType ==
  ASSUME TypeOK, NEW f \in MasterFrame, RxMaster(f)
  PROVE  TypeOK' /\ silence' = 0 /\ expected_master_counter' # None
<1> DEFINE p == Awake
<1>1. silence' = 0
  BY DEF RxMaster
<1>2. /\ expected_master_counter' \in 0..(CounterRange - 1)
      /\ expected_master_counter' # None
  <2>1. f.counter \in 0..(CounterRange - 1)
    BY DEF MasterFrame
  <2>2. Following(f.counter, CounterRange) \in 0..(CounterRange - 1)
    BY <2>1, FollowingType
  <2>3. \/ expected_master_counter' = Following(f.counter, CounterRange)
        \/ expected_master_counter' = p.expected /\ p.expected # None
    BY DEF RxMaster, IsNext
  <2> QED  BY <2>2, <2>3, AwakeType
<1>3. state' \in PumpState
  BY AwakeType DEF RxMaster, Fault, Start, Coldstart, BeginRun, KeepRunning, PumpState
<1>4. coldstart_age' \in 0..COLDSTART_DURATION
  <2>1. Older(coldstart_age, COLDSTART_DURATION) \in 0..COLDSTART_DURATION
    BY OlderType DEF TypeOK
  <2>2. coldstart_age' \in {0, Older(coldstart_age, COLDSTART_DURATION)}
    BY DEF RxMaster, Start, Coldstart, BeginRun, KeepRunning
  <2> QED  BY <2>1, <2>2
<1>5. silence' \in 0..SLEEP_RESET
  BY <1>1
<1> QED  BY <1>1, <1>2, <1>3, <1>4, <1>5, ReplyType DEF TypeOK

\* Without a frame the pump only ages: one that is asleep stays so.
LEMMA NoFrameOutcome ==
  ASSUME TypeOK, NoFrame, last_status' \in PumpStatus
  PROVE  /\ TypeOK'
         /\ IsAsleep => IsAsleep'
         /\ state' = state /\ echo_seed' = echo_seed
         /\ expected_master_counter' = expected_master_counter
         /\ state = "COLDSTART" =>
              coldstart_age' = Older(coldstart_age, COLDSTART_DURATION)
         /\ expected_master_counter # None => silence' = Older(silence, SLEEP_RESET)
<1>1. /\ state' = state /\ echo_seed' = echo_seed /\ out_counter' = out_counter
      /\ expected_master_counter' = expected_master_counter
  BY DEF NoFrame
<1>2. silence' \in 0..SLEEP_RESET /\ (expected_master_counter # None => silence <= silence')
  BY OlderType DEF TypeOK, NoFrame
<1>3. coldstart_age' \in 0..COLDSTART_DURATION
  BY OlderType DEF TypeOK, NoFrame
<1>4. IsAsleep => IsAsleep'
  <2>1. silence \in Nat /\ silence' \in Nat /\ SLEEP_RESET \in Nat
    BY <1>2 DEF TypeOK
  <2>2. CASE expected_master_counter # None /\ silence + 1 >= SLEEP_RESET
    <3>1. silence' + 1 >= SLEEP_RESET
      BY <2>1, <2>2, <1>2, NotYounger
    <3> QED  BY <3>1, <1>1, <2>2 DEF IsAsleep
  <2> QED  BY <2>2 DEF IsAsleep
<1> QED  BY <1>1, <1>2, <1>3, <1>4 DEF TypeOK, NoFrame

-------------------------------------------------------------------------------
(* The master.                                                             *)

LEMMA FrameType ==
  ASSUME MasterTypeOK, Sends
  PROVE  /\ FrameToSend \in MasterFrame
         /\ FrameToSend.counter = counter /\ FrameToSend.echo = echo
         /\ FrameToSend.command = "phase1" => phase = "Cold"
         /\ FrameToSend.command = "phase2" => phase = "Ready"
         /\ FrameToSend.command = "run" => phase = "Run"
         /\ phase = "Run" => FrameToSend.command = "run"
<1>1. \/ phase = "Cold"  /\ Command[phase] = "phase1"
      \/ phase = "Ready" /\ Command[phase] = "phase2"
      \/ phase = "Run"   /\ Command[phase] = "run"
  <2>1. /\ Command["Cold"] = "phase1" /\ Command["Ready"] = "phase2"
        /\ Command["Run"] = "run"
    BY DEF Command
  <2> QED  BY <2>1 DEF MasterTypeOK, Sends
<1>2. FrameToSend = [command |-> Command[phase], echo |-> echo, counter |-> counter]
  BY DEF FrameToSend
<1>3. counter \in 0..(CounterRange - 1) /\ echo \in 0..(EchoRange - 1)
  BY DEF MasterTypeOK
<1> QED  BY <1>1, <1>2, <1>3 DEF MasterFrame

\* What the master makes of an answer: it starts over only out of its coldstart,
\* runs only on a good answer, whose seed it mirrors, and is silenced by a bad one.
LEMMA HearOutcome ==
  ASSUME MasterTypeOK, phase # "Silent", NEW status \in PumpStatus, Hear(status)
  PROVE  /\ phase' \in {"Cold", "Ready", "Run", "Silent"}
         /\ slots' \in Nat /\ echo' \in 0..(EchoRange - 1)
         /\ phase' = "Cold" => phase = "Cold" /\ slots' < ColdFrames
         /\ phase' = "Ready" => phase = "Cold"
         /\ phase' = "Run" => phase \in {"Ready", "Run"} /\ echo' = status.echo
         /\ phase' = "Silent" => slots' = 0
         /\ ~status.ok => phase' = "Silent"
<1>1. status.echo \in 0..(EchoRange - 1) /\ 0 \in 0..(EchoRange - 1)
  BY DEF PumpStatus
<1>2. CASE ~status.ok /\ Enter("Silent") /\ echo' = 0
  BY <1>1, <1>2 DEF Enter
<1>3. CASE /\ status.ok /\ phase = "Cold"
           /\ IF slots + 1 = ColdFrames THEN Enter("Ready")
                                        ELSE phase' = phase /\ slots' = slots + 1
           /\ echo' = 0
  <2>1. slots \in Nat /\ slots < ColdFrames
    BY <1>3 DEF MasterTypeOK
  <2> QED  BY <1>1, <1>3, <2>1 DEF Enter
<1>4. CASE status.ok /\ phase = "Ready" /\ Enter("Run") /\ echo' = status.echo
  BY <1>1, <1>4 DEF Enter
<1>5. CASE status.ok /\ phase = "Run" /\ echo' = status.echo /\ UNCHANGED <<phase, slots>>
  BY <1>1, <1>5 DEF MasterTypeOK
<1> QED  BY <1>2, <1>3, <1>4, <1>5 DEF Hear

LEMMA HearNothingOutcome ==
  ASSUME MasterTypeOK, phase # "Silent", HearNothing
  PROVE  /\ phase' \in {"Cold", "Ready", "Run"}
         /\ slots' \in Nat /\ echo' \in 0..(EchoRange - 1)
         /\ phase' = "Cold" => phase = "Cold" /\ slots' < ColdFrames
         /\ phase # "Cold" => phase' = phase /\ echo' = echo
         /\ phase' = "Run" => phase = "Run"
<1>1. CASE phase = "Cold" /\ Hear(NewStatus)
  <2>1. NewStatus.ok
    BY DEF NewStatus
  <2>2. phase' # "Silent"
    BY <1>1, <2>1 DEF Hear, Enter
  <2> QED  BY <1>1, <2>2, HearOutcome, StatusType
<1>2. CASE phase # "Cold" /\ UNCHANGED <<phase, slots, echo>>
  BY <1>2 DEF MasterTypeOK
<1> QED  BY <1>1, <1>2 DEF HearNothing

LEMMA CountWarmOutcome ==
  ASSUME MasterTypeOK, CountWarm
  PROVE  /\ warm' \in 0..COLDSTART_DURATION
         /\ IsAsleep \/ state \in {"OFF", "FAULT"} => warm' = 0
         /\ ~IsAsleep /\ state \notin {"OFF", "FAULT"} /\ state' \notin {"OFF", "FAULT"} =>
              warm' = Older(warm, COLDSTART_DURATION)
<1>1. Older(warm, COLDSTART_DURATION) \in 0..COLDSTART_DURATION
  BY OlderType DEF MasterTypeOK
<1>2. 0 \in 0..COLDSTART_DURATION
  OBVIOUS
<1> QED  BY <1>1, <1>2 DEF CountWarm

LEMMA SendsType ==
  ASSUME MasterTypeOK, Sends
  PROVE  /\ phase \in {"Cold", "Ready", "Run"}
         /\ counter' = Following(counter, CounterRange)
         /\ counter' \in 0..(CounterRange - 1)
BY FollowingType DEF Sends, MasterTypeOK

\* A frame that arrives keeps the times of the coldstart together.
LEMMA RxKeepsColdstart ==
  ASSUME MasterTypeOK, ColdstartIsFull, CountWarm,
         NEW f \in MasterFrame, RxMaster(f)
  PROVE  ColdstartIsFull'
<1> USE DEF ColdstartIsFull
<1>0. TypeOK
  BY DEF MasterTypeOK
<1>1. state' = "COLDSTART" => coldstart_age' = warm'
  <2>1. CASE coldstart_age' = 0 /\ (IsAsleep \/ state \in {"OFF", "FAULT"})
    BY <2>1, CountWarmOutcome
  <2>2. CASE /\ state' = "COLDSTART" /\ ~IsAsleep /\ state = "COLDSTART"
             /\ coldstart_age' = Older(coldstart_age, COLDSTART_DURATION)
    BY <2>2, CountWarmOutcome
  <2> QED  BY <1>0, <2>1, <2>2, RxOutcome
<1>2. state' = "PHASE2_READY" => warm' = COLDSTART_DURATION
  <2>1. CASE state' = "PHASE2_READY" /\ ~IsAsleep /\ state = "PHASE2_READY"
    BY <2>1, CountWarmOutcome DEF Older
  <2>2. CASE /\ state' = "PHASE2_READY" /\ ~IsAsleep /\ state = "COLDSTART"
             /\ coldstart_age + 1 >= COLDSTART_DURATION
    <3>1. warm' = Older(warm, COLDSTART_DURATION)
      BY <2>2, CountWarmOutcome
    <3>2. warm \in 0..COLDSTART_DURATION /\ warm + 1 >= COLDSTART_DURATION
      BY <2>2 DEF MasterTypeOK
    <3> QED  BY <3>1, <3>2 DEF Older
  <2> QED  BY <1>0, <2>1, <2>2, RxOutcome
<1>3. state' = "RUN" => warm' = COLDSTART_DURATION
  <2>1. state' = "RUN" => ~IsAsleep /\ state \in {"PHASE2_READY", "RUN"}
    BY <1>0, RxOutcome
  <2> QED  BY <2>1, CountWarmOutcome DEF Older
<1> QED  BY <1>1, <1>2, <1>3

\* So does a slot without one.
LEMMA NoFrameKeepsColdstart ==
  ASSUME MasterTypeOK, ColdstartIsFull, CountWarm, NoFrame, last_status' \in PumpStatus
  PROVE  ColdstartIsFull'
<1> USE DEF ColdstartIsFull
<1> SUFFICES ASSUME ~IsAsleep'
             PROVE  /\ state' = "COLDSTART" => coldstart_age' = warm'
                    /\ state' \in {"PHASE2_READY", "RUN"} => warm' = COLDSTART_DURATION
  OBVIOUS
<1>1. ~IsAsleep /\ state' = state
  BY NoFrameOutcome DEF MasterTypeOK
<1>2. state = "COLDSTART" => coldstart_age' = Older(coldstart_age, COLDSTART_DURATION)
  BY NoFrameOutcome DEF MasterTypeOK
<1>3. state \notin {"OFF", "FAULT"} => warm' = Older(warm, COLDSTART_DURATION)
  BY <1>1, CountWarmOutcome
<1> QED  BY <1>1, <1>2, <1>3 DEF Older

-------------------------------------------------------------------------------
(* Each action keeps MasterInv.                                            *)

LEMMA ExchangeKeepsInv ==
  ASSUME MasterInv, Exchange
  PROVE  MasterInv'
<1> USE DEF MasterInv
<1> DEFINE f == FrameToSend
<1>1. /\ TypeOK /\ MasterTypeOK
      /\ Sends /\ RxMaster(f) /\ Hear(last_status') /\ CountWarm
      /\ missed' = 0 /\ deaf' = FALSE /\ calm' = calm
  BY DEF Exchange, MasterTypeOK
<1>2. f \in MasterFrame
  BY <1>1, FrameType
<1>3. TypeOK' /\ silence' = 0 /\ expected_master_counter' # None
  BY <1>1, <1>2, RxType
<1>4. last_status' \in PumpStatus /\ phase # "Silent"
  BY <1>3, <1>1 DEF TypeOK, Sends
<1>5. MasterTypeOK'
  <2>1. /\ phase' \in {"Cold", "Ready", "Run", "Silent"}
        /\ slots' \in Nat /\ echo' \in 0..(EchoRange - 1)
        /\ phase' = "Cold" => slots' < ColdFrames
        /\ phase' = "Silent" => slots' < SilentSlots
    BY <1>1, <1>4, HearOutcome
  <2>2. warm' \in 0..COLDSTART_DURATION /\ counter' \in 0..(CounterRange - 1)
    BY <1>1, CountWarmOutcome, SendsType
  <2>3. missed' \in 0..2 /\ {deaf', calm'} \subseteq BOOLEAN
    <3>1. deaf' \in BOOLEAN /\ calm' \in BOOLEAN
      BY <1>1 DEF MasterTypeOK
    <3> QED  BY <1>1, <3>1
  <2> QED  BY <1>3, <2>1, <2>2, <2>3 DEF MasterTypeOK
<1>6. WatchdogInStep'
  <2> SUFFICES ASSUME phase' = "Run", state' = "RUN"
               PROVE  echo' = echo_seed' /\ counter' = expected_master_counter'
    BY <1>1 DEF WatchdogInStep
  <2>1. last_status'.echo = echo_seed'
        /\ expected_master_counter' = Following(f.counter, CounterRange)
    BY <1>1, <1>2, RxOutcome
  <2>2. echo' = last_status'.echo
    BY <1>1, <1>4, HearOutcome
  <2> QED  BY <1>1, <2>1, <2>2, FrameType, SendsType
<1>7. NoHalfRestart'
  <2>1. CASE state' = "RUN"
    <3>1. phase = "Run"
      BY <1>1, <1>2, <2>1, RxOutcome, FrameType
    <3> QED  BY <1>1, <1>4, <2>1, <3>1, HearOutcome DEF NoHalfRestart
  <2>2. CASE state' = "PHASE2_READY"
    <3>1. phase = "Ready"
      BY <1>1, <1>2, <2>2, RxOutcome, FrameType
    <3> QED  BY <1>1, <1>4, <2>2, <3>1, HearOutcome DEF NoHalfRestart
  <2> QED  BY <2>1, <2>2 DEF NoHalfRestart
<1>8. SilenceIsShared'
  BY <1>1, <1>3, <1>4, HearOutcome DEF SilenceIsShared
<1>9. ColdstartIsFull'
  BY <1>1, <1>2, RxKeepsColdstart
<1> QED  BY <1>5, <1>6, <1>7, <1>8, <1>9

LEMMA LoseAnswerKeepsInv ==
  ASSUME MasterInv, LoseAnswer
  PROVE  MasterInv'
<1> USE DEF MasterInv
<1> DEFINE f == FrameToSend
<1>1. /\ TypeOK /\ MasterTypeOK
      /\ Sends /\ RxMaster(f) /\ HearNothing /\ CountWarm
      /\ missed' = 0 /\ deaf' = TRUE /\ calm' = calm
  BY DEF LoseAnswer, MasterTypeOK
<1>2. f \in MasterFrame /\ phase # "Silent"
  BY <1>1, FrameType DEF Sends
<1>3. TypeOK' /\ silence' = 0 /\ expected_master_counter' # None
  BY <1>1, <1>2, RxType
<1>4. MasterTypeOK'
  <2>1. /\ phase' \in {"Cold", "Ready", "Run"}
        /\ slots' \in Nat /\ echo' \in 0..(EchoRange - 1)
        /\ phase' = "Cold" => slots' < ColdFrames
    BY <1>1, <1>2, HearNothingOutcome
  <2>2. warm' \in 0..COLDSTART_DURATION /\ counter' \in 0..(CounterRange - 1)
    BY <1>1, CountWarmOutcome, SendsType
  <2>3. missed' \in 0..2 /\ {deaf', calm'} \subseteq BOOLEAN
    <3>1. deaf' \in BOOLEAN /\ calm' \in BOOLEAN
      BY <1>1 DEF MasterTypeOK
    <3> QED  BY <1>1, <3>1
  <2> QED  BY <1>3, <2>1, <2>2, <2>3 DEF MasterTypeOK
<1>5. WatchdogInStep' /\ NoHalfRestart'
  BY <1>1 DEF WatchdogInStep, NoHalfRestart
<1>6. SilenceIsShared'
  BY <1>1, <1>2, <1>3, HearNothingOutcome DEF SilenceIsShared
<1>7. ColdstartIsFull'
  BY <1>1, <1>2, RxKeepsColdstart
<1> QED  BY <1>4, <1>5, <1>6, <1>7

LEMMA LoseCommandKeepsInv ==
  ASSUME MasterInv, LoseCommand
  PROVE  MasterInv'
<1> USE DEF MasterInv
<1>1. /\ TypeOK /\ MasterTypeOK
      /\ Sends /\ NoFrame /\ HearNothing /\ CountWarm
      /\ missed' = IF missed < 2 THEN missed + 1 ELSE missed
      /\ deaf' = deaf /\ calm' = calm /\ last_status' = last_status
  BY DEF LoseCommand, Idle, MasterTypeOK
<1>2. phase # "Silent" /\ last_status' \in PumpStatus /\ missed \in 0..2
  BY <1>1 DEF Sends, TypeOK, MasterTypeOK
<1>3. /\ TypeOK' /\ (~IsAsleep' => ~IsAsleep)
      /\ state' = state /\ echo_seed' = echo_seed
      /\ expected_master_counter' = expected_master_counter
  BY <1>1, <1>2, NoFrameOutcome
<1>4. MasterTypeOK'
  <2>1. /\ phase' \in {"Cold", "Ready", "Run"}
        /\ slots' \in Nat /\ echo' \in 0..(EchoRange - 1)
        /\ phase' = "Cold" => slots' < ColdFrames
    BY <1>1, <1>2, HearNothingOutcome
  <2>2. warm' \in 0..COLDSTART_DURATION /\ counter' \in 0..(CounterRange - 1)
    BY <1>1, CountWarmOutcome, SendsType
  <2>3. missed' \in 0..2 /\ {deaf', calm'} \subseteq BOOLEAN
    BY <1>1, <1>2 DEF MasterTypeOK
  <2> QED  BY <1>3, <2>1, <2>2, <2>3 DEF MasterTypeOK
<1>5. WatchdogInStep'
  <2> SUFFICES ASSUME phase' = "Run", state' = "RUN", ~deaf'
               PROVE  /\ echo' = echo_seed'
                      /\ missed' = 0 => counter' = expected_master_counter'
                      /\ missed' = 1 =>
                           counter' = Following(expected_master_counter', CounterRange)
    BY DEF WatchdogInStep
  <2>1. phase = "Run" /\ echo' = echo
    BY <1>1, <1>2, HearNothingOutcome
  <2>2. echo = echo_seed /\ (missed = 0 => counter = expected_master_counter)
    BY <1>1, <1>3, <2>1 DEF WatchdogInStep
  <2>3. missed' # 0 /\ (missed' = 1 => missed = 0)
    BY <1>1, <1>2
  <2>4. counter' = Following(counter, CounterRange)
    BY <1>1, SendsType
  <2> QED  BY <1>3, <2>1, <2>2, <2>3, <2>4
<1>6. NoHalfRestart'
  BY <1>1, <1>2, <1>3, HearNothingOutcome DEF NoHalfRestart
<1>7. SilenceIsShared'
  <2>1. phase' # "Silent"
    BY <1>1, <1>2, HearNothingOutcome
  <2> QED  BY <1>3, <2>1 DEF SilenceIsShared
<1>8. ColdstartIsFull'
  BY <1>1, <1>2, NoFrameKeepsColdstart
<1> QED  BY <1>4, <1>5, <1>6, <1>7, <1>8

LEMMA CutShortKeepsInv ==
  ASSUME MasterInv, CutShort
  PROVE  MasterInv'
<1> USE DEF MasterInv
<1>1. /\ TypeOK /\ MasterTypeOK
      /\ Sends /\ NoFrame /\ Hear(last_status') /\ CountWarm
      /\ missed' = IF missed < 2 THEN missed + 1 ELSE missed
      /\ deaf' = deaf /\ calm' = calm /\ last_status' = Watchdog
  BY DEF CutShort, RxShort, MasterTypeOK
<1>2. /\ phase # "Silent" /\ missed \in 0..2
      /\ last_status' \in PumpStatus /\ ~last_status'.ok
  BY <1>1, StatusType DEF Sends, MasterTypeOK, Watchdog, NewStatus
<1>3. /\ TypeOK' /\ state' = state
      /\ expected_master_counter' = expected_master_counter
  BY <1>1, <1>2, NoFrameOutcome
<1>4. phase' = "Silent" /\ slots' = 0 /\ echo' \in 0..(EchoRange - 1)
  BY <1>1, <1>2, HearOutcome
<1>5. MasterTypeOK'
  <2>1. warm' \in 0..COLDSTART_DURATION /\ counter' \in 0..(CounterRange - 1)
    BY <1>1, CountWarmOutcome, SendsType
  <2>2. missed' \in 0..2 /\ {deaf', calm'} \subseteq BOOLEAN
    BY <1>1, <1>2 DEF MasterTypeOK
  <2> QED  BY <1>3, <1>4, <2>1, <2>2 DEF MasterTypeOK
<1>6. WatchdogInStep' /\ NoHalfRestart'
  BY <1>4 DEF WatchdogInStep, NoHalfRestart
<1>7. SilenceIsShared'
  <2>1. silence' \in 0..SLEEP_RESET
    BY <1>3 DEF TypeOK
  <2> QED  BY <1>3, <1>4, <2>1 DEF SilenceIsShared
<1>8. ColdstartIsFull'
  BY <1>1, <1>2, NoFrameKeepsColdstart
<1> QED  BY <1>5, <1>6, <1>7, <1>8

\* The master comes back only to a pump that has gone to sleep.
LEMMA StaySilentKeepsInv ==
  ASSUME MasterInv, StaySilent
  PROVE  MasterInv'
<1> USE DEF MasterInv
<1>1. /\ TypeOK /\ MasterTypeOK
      /\ phase = "Silent" /\ NoFrame /\ CountWarm
      /\ counter' = counter /\ echo' = echo /\ missed' = missed
      /\ deaf' = deaf /\ calm' = calm /\ last_status' = last_status
  BY DEF StaySilent, Idle, MasterTypeOK
<1>2. /\ TypeOK' /\ state' = state
      /\ expected_master_counter' = expected_master_counter
      /\ expected_master_counter # None => silence' = Older(silence, SLEEP_RESET)
  BY <1>1, NoFrameOutcome DEF TypeOK
<1>3. \/ phase' = "Cold" /\ slots' = 0 /\ slots + 1 = SilentSlots
      \/ phase' = "Silent" /\ slots' = slots + 1 /\ slots + 1 # SilentSlots
  BY <1>1 DEF StaySilent, Enter
<1>4. slots \in Nat /\ slots < SilentSlots
  BY <1>1 DEF MasterTypeOK
<1>5. expected_master_counter # None =>
        slots + 1 <= silence' \/ SLEEP_RESET <= silence'
  BY <1>1, <1>2, <1>4 DEF SilenceIsShared, Older, TypeOK
<1>6. MasterTypeOK'
  <2>1. warm' \in 0..COLDSTART_DURATION
    BY <1>1, CountWarmOutcome
  <2>2. /\ phase' \in {"Cold", "Silent"} /\ slots' \in Nat
        /\ phase' = "Cold" => slots' < ColdFrames
        /\ phase' = "Silent" => slots' < SilentSlots
    BY <1>3, <1>4
  <2> QED  BY <1>1, <1>2, <2>1, <2>2 DEF MasterTypeOK
<1>7. WatchdogInStep'
  BY <1>3 DEF WatchdogInStep
<1>8. NoHalfRestart'
  <2>1. CASE expected_master_counter = None
    BY <1>2, <2>1 DEF SilenceIsShared, NoHalfRestart
  <2>2. CASE expected_master_counter # None /\ phase' = "Cold"
    <3>1. silence' \in Nat /\ SLEEP_RESET \in Nat
      BY <1>2 DEF TypeOK
    <3>2. SLEEP_RESET <= slots + 1
      BY <1>3, <1>4, <2>2
    <3>3. SLEEP_RESET <= silence'
      BY <1>4, <1>5, <2>2, <3>1, <3>2
    <3>4. silence' + 1 >= SLEEP_RESET
      BY <3>1, <3>3, OldEnough
    <3> QED  BY <1>2, <2>2, <3>4 DEF NoHalfRestart, IsAsleep
  <2>3. CASE phase' = "Silent"
    BY <2>3 DEF NoHalfRestart
  <2> QED  BY <1>3, <2>1, <2>2, <2>3
<1>9. SilenceIsShared'
  BY <1>2, <1>3, <1>5 DEF SilenceIsShared
<1>10. ColdstartIsFull'
  BY <1>1, NoFrameKeepsColdstart DEF TypeOK
<1> QED  BY <1>6, <1>7, <1>8, <1>9, <1>10

LEMMA ResetMasterKeepsInv ==
  ASSUME MasterInv, ResetMaster
  PROVE  MasterInv'
<1> USE DEF MasterInv
<1>1. /\ TypeOK /\ MasterTypeOK /\ NoFrame /\ CountWarm
      /\ phase' = "Cold" /\ slots' = 0 /\ counter' = 0 /\ echo' = 0
      /\ deaf' = TRUE /\ missed' = missed /\ calm' = calm
      /\ last_status' \in PumpStatus
  BY DEF ResetMaster, Enter, Idle, MasterTypeOK, TypeOK
<1>2. /\ TypeOK' /\ state' = state
      /\ expected_master_counter' = expected_master_counter
  BY <1>1, NoFrameOutcome
<1>3. MasterTypeOK'
  <2>1. warm' \in 0..COLDSTART_DURATION
    BY <1>1, CountWarmOutcome
  <2> QED  BY <1>1, <1>2, <2>1 DEF MasterTypeOK
<1>4. WatchdogInStep' /\ NoHalfRestart'
  BY <1>1 DEF WatchdogInStep, NoHalfRestart
<1>5. SilenceIsShared'
  BY <1>1, <1>2 DEF SilenceIsShared
<1>6. ColdstartIsFull'
  BY <1>1, NoFrameKeepsColdstart
<1> QED  BY <1>3, <1>4, <1>5, <1>6

LEMMA IdleStepKeepsInv ==
  ASSUME MasterInv, CalmDown \/ UNCHANGED vars
  PROVE  MasterInv'
<1>1. /\ UNCHANGED <<pumpVars, masterVars, warm, missed, deaf>>
      /\ calm' = TRUE \/ calm' = calm
  BY DEF CalmDown, vars, busVars
<1> QED  BY <1>1 DEF MasterInv, MasterTypeOK, TypeOK, WatchdogInStep, NoHalfRestart,
            SilenceIsShared, ColdstartIsFull, IsAsleep, pumpVars, masterVars

LEMMA InitKeepsInv == MasterInit => MasterInv
<1> SUFFICES ASSUME MasterInit PROVE MasterInv
  OBVIOUS
<1>1. MasterTypeOK
  <2>1. TypeOK
    BY StatusType DEF MasterInit, Init, TypeOK, PumpState
  <2>2. {deaf, calm} \subseteq BOOLEAN
    BY DEF MasterInit
  <2> QED  BY <2>1, <2>2 DEF MasterInit, MasterTypeOK
<1> QED  BY <1>1 DEF MasterInit, Init, MasterInv, WatchdogInStep, NoHalfRestart,
            SilenceIsShared, ColdstartIsFull

\* Whatever the bus loses and whenever the master is reset, the watchdog of a
\* running pump is in step with a master that hears it, neither starts over while
\* the other runs on, silence is shared, and a pump that is up has had its 900 ms.
THEOREM PumpIsSafe == Spec => []MasterInv
<1>1. MasterInv /\ [Next]_vars => MasterInv'
  BY ExchangeKeepsInv, LoseAnswerKeepsInv, LoseCommandKeepsInv, CutShortKeepsInv,
     StaySilentKeepsInv, ResetMasterKeepsInv, IdleStepKeepsInv DEF Next, Slot
<1> QED  BY <1>1, InitKeepsInv, PTL DEF Spec

\* A command that reaches a running pump after at most one lost one, from a master
\* that has heard every answer, is the one it waits for.
LEMMA NextCommandIsAccepted ==
  ASSUME MasterInv, state = "RUN", ~deaf, missed # 2, Sends, RxMaster(FrameToSend)
  PROVE  state' # "FAULT"
<1> SUFFICES ASSUME state' = "FAULT" PROVE FALSE
  OBVIOUS
<1> DEFINE f == FrameToSend
<1>1. MasterTypeOK /\ TypeOK /\ f \in MasterFrame
  BY FrameType DEF MasterInv, MasterTypeOK
<1>2. /\ ~IsAsleep
      /\ \/ f.command # "run" \/ f.echo # echo_seed
         \/ f.counter \notin {expected_master_counter,
                              Following(expected_master_counter, CounterRange)}
  BY <1>1, RxOutcome
<1>3. phase = "Run"
  BY <1>1, <1>2 DEF MasterInv, NoHalfRestart, Sends, MasterTypeOK
<1>4. f.command = "run" /\ f.echo = echo /\ f.counter = counter
  BY <1>1, <1>3, FrameType
<1>5. missed = 0 \/ missed = 1
  BY <1>1 DEF MasterTypeOK
<1> QED  BY <1>2, <1>3, <1>4, <1>5 DEF MasterInv, WatchdogInStep

\* No fault without a cause: the pump's answer to one lost command, at any moment
\* of any run, is to go on.
THEOREM NoFaultWithoutACause == Spec => FaultNeedsACause
<1>1. MasterInv /\ [Next]_vars =>
        [state = "RUN" /\ state' = "FAULT" => missed = 2 \/ deaf]_vars
  <2> SUFFICES ASSUME MasterInv, Next, state = "RUN", state' = "FAULT"
               PROVE  missed = 2 \/ deaf
    OBVIOUS
  <2>1. CASE Exchange \/ LoseAnswer
    BY <2>1, NextCommandIsAccepted DEF Exchange, LoseAnswer
  <2>2. CASE LoseCommand \/ CutShort \/ StaySilent \/ ResetMaster
    BY <2>2 DEF LoseCommand, CutShort, StaySilent, ResetMaster, Idle, RxShort, NoFrame
  <2>3. CASE CalmDown
    BY <2>3 DEF CalmDown, pumpVars
  <2> QED  BY <2>1, <2>2, <2>3 DEF Next, Slot
<1> QED  BY <1>1, PumpIsSafe, PTL DEF Spec, FaultNeedsACause
=====================================================================================
