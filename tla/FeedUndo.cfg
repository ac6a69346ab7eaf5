CONSTANTS
  all = all
  filtered = filtered
  None = None
  Articles <- MCFourArticles
  Generations <- MCFourJoined
  Corrected <- MCFourCorrected
  Groups <- MCGroups
  Feeds <- MCFeeds
  FeedArticles <- MCFourFeedArticles
  Default = all
  Start = filtered
  PageSize = 1
  MaxRevision = 4
  MaxOthers = 1
  MaxReads = 0
  MaxSplits = 1
  MaxFailures = 0
SPECIFICATION FairSpec
PROPERTIES
  CorrectionsEnd
  UndoRejoins
CHECK_DEADLOCK FALSE
