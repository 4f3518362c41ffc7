CONSTANTS
  TimeRange = 8
  kSolenoidLoopMs = 2
  kFaultPollMs = 3
  Deltas <- OrLate
  hit_ma <- Hit
  hold_ma <- Hold
  Masks <- SomeMasks
  Faults <- SomeFaults

SPECIFICATION FairSpec

INVARIANT DriverInv

PROPERTIES
  BatchesKeepTheirCadence
  EveryFaultIsPublished
