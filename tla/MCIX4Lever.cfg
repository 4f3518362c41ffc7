CONSTANTS
  Positions <- SomePositions
  Encoders <- OneEncoder
  Masks <- SomeMasks
  FailRange = 2

SPECIFICATION FairSpec

INVARIANT LeverInv

PROPERTIES
  GearMovesWithTheLever
  GapsAreCounted
  EventuallyFollows
