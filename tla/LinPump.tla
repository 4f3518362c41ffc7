----------------------------------- MODULE LinPump -----------------------------------
(***************************************************************************)
(* The auxiliary oil pump on its LIN bus, as lin_pump.py simulates it.     *)
(* Time passes in slots, the 25 ms at which a master sends, and is kept in *)
(* ages: a slot brings a frame (RxMaster, RxShort) or none (Idle).         *)
(*                                                                         *)
(* A definition commented "Variant" is a plausible mistake in the one that *)
(* follows it, used by the sensitivity runs only.                          *)
(***************************************************************************)
EXTENDS Naturals

CONSTANTS COLDSTART_DURATION,   \* 36 slots, 900 ms
          SLEEP_RESET,          \* 200 slots, 5 s
          CounterRange,         \* 16
          EchoRange,            \* 256
          None                  \* no counter expected yet

VARIABLES state,
          coldstart_age,        \* since coldstart_started, read in COLDSTART only
          silence,              \* since last_master
          expected_master_counter,
          echo_seed, out_counter,
          last_status           \* the 0x32 frame

pumpVars == <<state, coldstart_age, silence, expected_master_counter,
              echo_seed, out_counter, last_status>>

PumpState == {"OFF", "COLDSTART", "PHASE2_READY", "RUN", "FAULT"}

\* Byte 0, 2, 6 and 7; bytes 3 to 5 are constants of a running pump.
PumpStatus == [ok : BOOLEAN, running : BOOLEAN, echo : 0..(EchoRange - 1),
               counter : 0..(CounterRange - 1)]

\* What make_master_frame varies: byte 0 with 2, byte 6 and byte 7.
MasterFrame == [command : {"phase1", "phase2", "run"}, echo : 0..(EchoRange - 1),
                counter : 0..(CounterRange - 1)]

ASSUME PumpAssumption ==
  /\ COLDSTART_DURATION \in Nat \ {0} /\ SLEEP_RESET \in Nat \ {0}
  /\ CounterRange \in Nat \ {0, 1, 2} /\ EchoRange \in Nat \ {0, 1}
  /\ None \notin Nat

NewStatus == [ok |-> TRUE, running |-> FALSE, echo |-> 0, counter |-> 0]
Watchdog  == [NewStatus EXCEPT !.ok = FALSE]

Init ==
  /\ state = "OFF"
  /\ coldstart_age = 0 /\ silence = 0
  /\ expected_master_counter = None
  /\ echo_seed = 0 /\ out_counter = 0
  /\ last_status = NewStatus

\* (n + 1) & 0x0F and (n + 1) & 0xFF.
Following(n, range) == IF n + 1 = range THEN 0 ELSE n + 1

Older(age, bound) == IF age < bound THEN age + 1 ELSE age

\* Before the first frame there is no silence to measure.
IsAsleep == expected_master_counter # None /\ silence + 1 >= SLEEP_RESET

\* The pump as _maybe_sleep_reset leaves it for a frame that arrives now.
Awake ==
  IF IsAsleep
  THEN [state |-> "OFF", expected |-> None, echo |-> 0, counter |-> 0]
  ELSE [state |-> state, expected |-> expected_master_counter,
        echo |-> echo_seed, counter |-> out_counter]

\* Variant: the answer is made up before the seed moves on.
AnswerWithOldSeed(p, running) ==
  /\ echo_seed' = Following(p.echo, EchoRange)
  /\ out_counter' = Following(p.counter, CounterRange)
  /\ last_status' = [ok |-> TRUE, running |-> running,
                     echo |-> p.echo, counter |-> out_counter']

\* An answer with the next seed and counter; a quiet one leaves both alone.
Answer(p, running) ==
  /\ echo_seed' = Following(p.echo, EchoRange)
  /\ out_counter' = Following(p.counter, CounterRange)
  /\ last_status' = [ok |-> TRUE, running |-> running,
                     echo |-> echo_seed', counter |-> out_counter']

Quiet(p, status) ==
  echo_seed' = p.echo /\ out_counter' = p.counter /\ last_status' = status

Fault(p) == state' = "FAULT" /\ Quiet(p, Watchdog)

\* Variant: no frame may be missing.
IsVeryNext(p, f) == p.expected # None => f.counter = p.expected

\* One missed frame is tolerated.
IsNext(p, f) ==
  p.expected # None => f.counter \in {p.expected, Following(p.expected, CounterRange)}

Start(p, f) ==
  /\ p.state \in {"OFF", "FAULT"}
  /\ IF f.command = "phase1"
     THEN state' = "COLDSTART" /\ Answer(p, FALSE)
     ELSE state' = p.state /\ Quiet(p, Watchdog)
  /\ coldstart_age' = 0

\* Variant: phase 2 is taken up at once.
ColdstartUntimed(p, f) ==
  /\ p.state = "COLDSTART"
  /\ coldstart_age' = Older(coldstart_age, COLDSTART_DURATION)
  /\ state' = IF f.command = "phase2" THEN "PHASE2_READY" ELSE p.state
  /\ IF f.command = "run" THEN Quiet(p, NewStatus) ELSE Answer(p, FALSE)

\* A premature phase 2 is answered as phase 1 is; a run command quietly.
Coldstart(p, f) ==
  /\ p.state = "COLDSTART"
  /\ coldstart_age' = Older(coldstart_age, COLDSTART_DURATION)
  /\ state' = IF f.command = "phase2" /\ coldstart_age + 1 >= COLDSTART_DURATION
              THEN "PHASE2_READY" ELSE p.state
  /\ IF f.command = "run" THEN Quiet(p, NewStatus) ELSE Answer(p, FALSE)

\* The first run frame may carry any echo.
BeginRun(p, f) ==
  /\ p.state = "PHASE2_READY"
  /\ \/ f.command = "run"    /\ state' = "RUN" /\ Answer(p, TRUE)
     \/ f.command = "phase2" /\ state' = p.state /\ Answer(p, FALSE)
     \/ f.command = "phase1" /\ Fault(p)
  /\ coldstart_age' = 0

KeepRunning(p, f) ==
  /\ p.state = "RUN"
  /\ IF f.command = "run" /\ f.echo = p.echo
     THEN state' = p.state /\ Answer(p, TRUE)
     ELSE Fault(p)
  /\ coldstart_age' = 0

RxMaster(f) ==
  LET p == Awake IN
  /\ silence' = 0
  /\ IF IsNext(p, f)
     THEN /\ expected_master_counter' = Following(f.counter, CounterRange)
          /\ Start(p, f) \/ Coldstart(p, f) \/ BeginRun(p, f) \/ KeepRunning(p, f)
     ELSE /\ Fault(p)
          /\ expected_master_counter' = p.expected
          /\ coldstart_age' = 0

NoFrame ==
  /\ silence' = IF expected_master_counter = None THEN 0 ELSE Older(silence, SLEEP_RESET)
  /\ coldstart_age' = IF state = "COLDSTART"
                      THEN Older(coldstart_age, COLDSTART_DURATION) ELSE 0
  /\ UNCHANGED <<state, expected_master_counter, echo_seed, out_counter>>

\* A frame that is not eight bytes long does not count as one.
RxShort == last_status' = Watchdog /\ NoFrame

Idle == NoFrame /\ UNCHANGED last_status

TypeOK ==
  /\ state \in PumpState
  /\ coldstart_age \in 0..COLDSTART_DURATION
  /\ silence \in 0..SLEEP_RESET
  /\ expected_master_counter \in 0..(CounterRange - 1) \cup {None}
  /\ echo_seed \in 0..(EchoRange - 1)
  /\ out_counter \in 0..(CounterRange - 1)
  /\ last_status \in PumpStatus
======================================================================================
