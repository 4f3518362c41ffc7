CONSTANTS
  Table <- kClutchTable
  pre_fill_ms = 3
  torque_cut_ack_ms = 5
  overlap_ms = 12
  torque_restore_ms = 3
  pre_fill_pct = 30
  engage_pulse_ms = 2
  disengage_pulse_ms = 2
  engage_budget_ms = 4
  disengage_budget_ms = 4
  kSolenoidLoopMs = 1
  kFaultPollMs = 10
  kCadence20msMs = 2
  kCadence100msMs = 10
  kVcuStaleThresholdMs = 10
  MaxAge = 12
  ShiftCountRange = 1
  VehicleInfoMs = 2
  Deltas <- OnTime
  GearRequests <- ShiftRequests
  Readings <- Driving
  DriverFaults <- NoFaults

SPECIFICATION HandshakeSpec

INVARIANTS
  HandshakeInv

PROPERTIES
  OverlapMeansTorqueIsCut
  RequestReachesGear
  EnabledFollowsGear
