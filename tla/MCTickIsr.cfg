CONSTANTS
  Table <- kClutchTable
  pre_fill_ms = 2
  torque_cut_ack_ms = 2
  overlap_ms = 3
  torque_restore_ms = 2
  pre_fill_pct = 30
  kSolenoidLoopMs = 2
  kVcuStaleThresholdMs = 2
  MaxAge = 3
  ShiftCountRange = 1
  Deltas <- OrLate
  Requests <- SomeGears

SPECIFICATION FairSpec

INVARIANT IsrInv

PROPERTIES
  OneElementPerBatch
  RequestIsServed
