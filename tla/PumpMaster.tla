--------------------------------- MODULE PumpMaster ---------------------------------
(***************************************************************************)
(* The pump with its LIN master.  The firmware has no master yet, so this  *)
(* one is the sequence by which the tests drive the pump (cold_to_run) and *)
(* which the notes of the protocol prescribe: coldstart, phase 2 until the *)
(* pump answers well, then run, mirroring each seed; at a fault, silence   *)
(* until the pump sleeps.  The bus loses commands and answers, cuts frames *)
(* short, and the master may be reset, until it all calms down for good.   *)
(***************************************************************************)
EXTENDS LinPump

CONSTANTS ColdFrames,       \* phase-1 frames sent: 40 in the tests
          SilentSlots       \* silence kept after a fault: more than 5 s

VARIABLES phase,            \* of the master: "Cold", "Ready", "Run" or "Silent"
          slots,            \* in that phase, if Cold or Silent
          counter, echo,    \* byte 7 and byte 6 of the next frame
          warm,             \* slots since the pump was last down
          missed,           \* commands lost since the pump had one, up to 2
          deaf,             \* an answer was lost, or the master was reset
          calm              \* nothing is lost any more

masterVars == <<phase, slots, counter, echo>>
busVars    == <<warm, missed, deaf, calm>>
vars       == <<pumpVars, masterVars, busVars>>

ASSUME MasterAssumption ==
  /\ ColdFrames \in Nat \ {0} /\ SilentSlots \in Nat \ {0}
  /\ SLEEP_RESET <= SilentSlots

MasterInit ==
  /\ Init
  /\ phase = "Cold" /\ slots = 0
  /\ counter = 0 /\ echo = 0
  /\ warm = 0 /\ missed = 0 /\ deaf = FALSE /\ calm = FALSE

Command == [Cold |-> "phase1", Ready |-> "phase2", Run |-> "run"]

FrameToSend == [command |-> Command[phase], echo |-> echo, counter |-> counter]

\* A phase with nothing counted and nothing to mirror yet.
Enter(p) == phase' = p /\ slots' = 0

\* The master has the answer.
Hear(status) ==
  \/ ~status.ok /\ Enter("Silent") /\ echo' = 0
  \/ /\ status.ok /\ phase = "Cold"
     /\ IF slots + 1 = ColdFrames THEN Enter("Ready")
                                  ELSE phase' = phase /\ slots' = slots + 1
     /\ echo' = 0
  \/ status.ok /\ phase = "Ready" /\ Enter("Run") /\ echo' = status.echo
  \/ status.ok /\ phase = "Run" /\ echo' = status.echo /\ UNCHANGED <<phase, slots>>

\* It has none: it goes on as it was.
HearNothing ==
  \/ phase = "Cold" /\ Hear(NewStatus)
  \/ phase # "Cold" /\ UNCHANGED <<phase, slots, echo>>

CanLose == ~calm

CountWarm ==
  warm' = IF state' \in {"OFF", "FAULT"} \/ state \in {"OFF", "FAULT"} \/ IsAsleep THEN 0
          ELSE Older(warm, COLDSTART_DURATION)

Sends == phase # "Silent" /\ counter' = Following(counter, CounterRange)

\* The command arrives, and so does the answer.
Exchange ==
  /\ Sends
  /\ RxMaster(FrameToSend)
  /\ Hear(last_status')
  /\ CountWarm
  /\ missed' = 0 /\ deaf' = FALSE
  /\ UNCHANGED calm

LoseCommand ==
  /\ CanLose
  /\ Sends
  /\ Idle
  /\ HearNothing
  /\ CountWarm
  /\ missed' = IF missed < 2 THEN missed + 1 ELSE missed
  /\ UNCHANGED <<deaf, calm>>

LoseAnswer ==
  /\ CanLose
  /\ Sends
  /\ RxMaster(FrameToSend)
  /\ HearNothing
  /\ CountWarm
  /\ missed' = 0 /\ deaf' = TRUE
  /\ UNCHANGED calm

CutShort ==
  /\ CanLose
  /\ Sends
  /\ RxShort
  /\ Hear(last_status')
  /\ CountWarm
  /\ missed' = IF missed < 2 THEN missed + 1 ELSE missed
  /\ UNCHANGED <<deaf, calm>>

StaySilent ==
  /\ phase = "Silent"
  /\ IF slots + 1 = SilentSlots THEN Enter("Cold")
                                ELSE phase' = phase /\ slots' = slots + 1
  /\ Idle
  /\ CountWarm
  /\ UNCHANGED <<counter, echo, missed, deaf, calm>>

\* The master starts over without the silence.
ResetMaster ==
  /\ ~calm
  /\ Enter("Cold") /\ counter' = 0 /\ echo' = 0
  /\ Idle
  /\ CountWarm /\ deaf' = TRUE
  /\ UNCHANGED <<missed, calm>>

CalmDown == ~calm /\ calm' = TRUE /\ UNCHANGED <<pumpVars, masterVars, warm, missed, deaf>>

Slot == Exchange \/ LoseCommand \/ LoseAnswer \/ CutShort \/ StaySilent

Next == Slot \/ ResetMaster \/ CalmDown

Spec == MasterInit /\ [][Next]_vars

\* The master keeps its cadence.
FairSpec == Spec /\ WF_vars(Slot)

-------------------------------------------------------------------------------
(* Properties                                                              *)

MasterTypeOK ==
  /\ TypeOK
  /\ phase \in {"Cold", "Ready", "Run", "Silent"}
  /\ slots \in Nat
  /\ phase = "Cold" => slots < ColdFrames
  /\ phase = "Silent" => slots < SilentSlots
  /\ counter \in 0..(CounterRange - 1) /\ echo \in 0..(EchoRange - 1)
  /\ warm \in 0..COLDSTART_DURATION
  /\ missed \in 0..2
  /\ {deaf, calm} \subseteq BOOLEAN

\* While the master hears the pump, what it is about to mirror is the seed the pump
\* waits for, and its counter is ahead by the commands lost: a pump in RUN accepts
\* the next frame after at most one loss (lin_pump.py:106-116, 200-205).
WatchdogInStep ==
  phase = "Run" /\ state = "RUN" /\ ~deaf =>
    /\ echo = echo_seed
    /\ missed = 0 => counter = expected_master_counter
    /\ missed = 1 => counter = Following(expected_master_counter, CounterRange)

\* A pump that is up and not about to find itself asleep has a master past its
\* coldstart, one that runs has a master that has got as far, unless that was
\* reset: neither loss nor a frame cut short starts the one anew while the other
\* runs on (lin_pump.py:74-82, 136-148).
NoHalfRestart ==
  ~deaf /\ ~IsAsleep =>
    /\ state \in {"PHASE2_READY", "RUN"} => phase # "Cold"
    /\ state = "RUN" => phase # "Ready"

\* The silence of the master is heard by the pump, and sleep takes all with it
\* (lin_pump.py:74-82).
SilenceIsShared ==
  /\ expected_master_counter = None => state = "OFF"
  /\ expected_master_counter # None /\ phase = "Silent" =>
       slots <= silence \/ SLEEP_RESET <= silence

\* Whatever the bus loses and whenever the master starts over, a pump that is up
\* has been up and listening for the whole 900 ms (lin_pump.py:118-148).
ColdstartIsFull ==
  ~IsAsleep =>
    /\ state = "COLDSTART" => coldstart_age = warm
    /\ state \in {"PHASE2_READY", "RUN"} => warm = COLDSTART_DURATION

MasterInv ==
  /\ MasterTypeOK
  /\ WatchdogInStep
  /\ NoHalfRestart
  /\ SilenceIsShared
  /\ ColdstartIsFull

\* A running pump faults only if two commands in a row or an answer were lost, or
\* the master was reset: one lost command is forgiven (lin_pump.py:109-114).
FaultNeedsACause ==
  [][state = "RUN" /\ state' = "FAULT" => missed = 2 \/ deaf]_vars

\* Once nothing is lost any more, the pump comes to run and stays at it, out of a
\* fault by way of its sleep; or else a coldstart that fell short has both stuck for
\* good, for the early phase 2 is answered as a good one is
\* (lin_pump.py:74-82, 118-165).
EventuallyRuns == calm ~> ([](state = "RUN") \/ [](state = "COLDSTART" /\ phase = "Run"))
=====================================================================================
