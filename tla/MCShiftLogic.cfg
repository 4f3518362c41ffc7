CONSTANTS
  Table <- kClutchTable
  pre_fill_ms = 3
  torque_cut_ack_ms = 5
  overlap_ms = 12
  torque_restore_ms = 3
  pre_fill_pct = 30
  MaxAge = 12
  Deltas <- MCDeltas
  Requests <- MCRequests

SPECIFICATION FairSpec

INVARIANT IInv

PROPERTIES
  OneStepAtATime
  StepRunsToItsEnd
  OneElementAtATime
  DrainOnlyUnderCut
  AbortRestoresGear
  RampNeverFallsBack
  RequestIsServed
  TorqueComesBack
  WalksTheGearGraph
