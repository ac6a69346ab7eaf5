SPECIFICATION FairSpec
CONSTANTS
  audit = audit
  feedA = feedA
  feedB = feedB
  Reader <- MCReader
  Feed <- MCFeed
  MaxGeneration = 2
  MaxRevision = 1
  MaxLegacyRevision = 2
CHECK_DEADLOCK FALSE
INVARIANTS
  PagesAreEffective
PROPERTIES
  ReadsAreAtomic
  EveryRequestEnds
