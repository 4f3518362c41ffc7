CONSTANTS
  COLDSTART_DURATION = 3
  SLEEP_RESET = 5
  CounterRange = 5
  EchoRange = 4
  None = None
  ColdFrames = 5
  SilentSlots = 5

SPECIFICATION FairSpec

INVARIANT MasterInv

PROPERTIES
  FaultNeedsACause
  EventuallyRuns
