CONSTANTS
  all = all
  filtered = filtered
  None = None
  Articles <- MCArticles
  Generations <- MCJoined
  Corrected <- MCUncorrected
  Groups <- MCGroups
  Feeds <- MCFeeds
  FeedArticles <- MCFeedArticles
  Default = all
  Start = all
  PageSize = 1
  MaxRevision = 1
  MaxOthers = 0
  MaxReads = 1
  MaxSplits = 1
  MaxFailures = 0
SPECIFICATION Spec
PROPERTIES
  CurrentCardIsSplit
