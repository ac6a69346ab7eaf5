CONSTANTS
  all = all
  filtered = filtered
  None = None
  Articles <- MCFourLater
  Groups <- MCGroups
  Generations <- MCFallenApart
  Corrected <- MCApart
  Feeds <- MCFeeds
  FeedArticles <- MCFourLaterFeedArticles
  Default = all
  Start = all
  PageSize = 1
  MaxRevision = 0
  MaxOthers = 0
  MaxReads = 1
  MaxSplits = 1
  MaxFailures = 0
SPECIFICATION Spec
INVARIANTS
  ProjectionIsReal
