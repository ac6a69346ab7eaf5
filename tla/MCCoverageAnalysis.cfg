CONSTANTS
  Article <- MCArticle
  Kind <- MCKind
  Groupings <- MCGroupings
  Judgements <- MCJudgements
SPECIFICATION FairSpec
INVARIANTS
  GroupsHold
  KeepsPromise
  UnchangedGroupKeepsId
PROPERTY EveryAnalysisIsNamed
