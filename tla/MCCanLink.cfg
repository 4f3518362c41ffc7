CONSTANTS
  DecodeRange = 2
  MaxSettings = 2
  MaxUnderway = 2
  MaxSkipped = 1
  Arguments <- Extremes

SPECIFICATION FairSpec

INVARIANT CanInv

PROPERTIES
  Mirrors
  EventuallyInStep
