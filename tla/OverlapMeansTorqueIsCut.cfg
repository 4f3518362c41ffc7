CONSTANTS
  Table <- kClutchTable
  pre_fill_ms = 6
  torque_cut_ack_ms = 10
  overlap_ms = 24
  torque_restore_ms = 6
  pre_fill_pct = 30
  engage_pulse_ms = 2
  disengage_pulse_ms = 2
  engage_budget_ms = 4
  disengage_budget_ms = 4
  kSolenoidLoopMs = 2
  kFaultPollMs = 20
  kCadence20msMs = 4
  kCadence100msMs = 20
  kVcuStaleThresholdMs = 40
  MaxAge = 41
  ShiftCountRange = 1
  VehicleInfoMs = 20
  Deltas <- OnTime
  GearRequests <- ThirdGear
  Readings <- Driving
  DriverFaults <- NoFaults

SPECIFICATION HandshakeSpec

PROPERTY OverlapMeansTorqueIsCut
