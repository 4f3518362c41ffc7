CONSTANTS
  Table <- kClutchTable
  pre_fill_ms = 2
  torque_cut_ack_ms = 3
  overlap_ms = 4
  torque_restore_ms = 2
  pre_fill_pct = 30
  engage_pulse_ms = 2
  disengage_pulse_ms = 2
  engage_budget_ms = 4
  disengage_budget_ms = 4
  kSolenoidLoopMs = 2
  kFaultPollMs = 6
  kCadence20msMs = 3
  kCadence100msMs = 6
  kVcuStaleThresholdMs = 7
  MaxAge = 8
  ShiftCountRange = 2
  Deltas <- OnTime
  GearRequests <- ParkRequests
  Readings <- Locked
  DriverFaults <- NoFaults

SPECIFICATION FairSpec

PROPERTY ReleaseIsEnergised
