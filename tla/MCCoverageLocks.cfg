SPECIFICATION FairSpec
CONSTANTS
  splitA = splitA
  splitB = splitB
  Request <- MCRequest
  MaxGeneration = 3
CHECK_DEADLOCK FALSE
INVARIANTS
  OnlyInversionDeadlocks
  PagesAreUsedOnce
PROPERTIES
  CorrectionsLandOnCurrent
  LatestIsPromoted
  LocksImplementStore
  EveryTransactionEnds
