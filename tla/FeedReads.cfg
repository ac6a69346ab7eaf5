CONSTANTS
  all = all
  filtered = filtered
  None = None
  Articles <- MCArticles
  Generations <- MCRegrouped
  Corrected <- MCUncorrected
  Groups <- MCGroups
  Feeds <- MCFeeds
  FeedArticles <- MCFeedArticles
  Default = all
  Start = all
  PageSize = 1
  MaxRevision = 1
  MaxOthers = 1
  MaxReads = 2
  MaxSplits = 0
  MaxFailures = 1
SPECIFICATION FairSpec
PROPERTIES
  AnswersOfThisFeed
  FeedCatchesUp
  ReadsEnd
