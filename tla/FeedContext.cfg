CONSTANTS
  all = all
  filtered = filtered
  None = None
  Articles <- MCArticles
  Generations <- MCParted
  Corrected <- MCCorrected
  Groups <- MCGroups
  Feeds <- MCFeeds
  FeedArticles <- MCFeedArticles
  Default = all
  Start = all
  PageSize = 2
  MaxRevision = 3
  MaxOthers = 1
  MaxReads = 2
  MaxSplits = 1
  MaxFailures = 1
SPECIFICATION Spec
INVARIANTS
  ProjectionWasServed
PROPERTIES
  CorrectionsStayInContext
  ConflictLeavesNoDuplicates
