CONSTANTS
  Article <- MCArticle
  Kind <- MCKind
  Analyses <- MCAnalyses
  RequiredShadows = 1
  ReviewWindow = 1
  Retention = 0
  MinArticles = 1
  RatioNum = 1
  RatioDen = 2
  MaxGeneration = 3
  MaxTime = 1
  MaxRevision = 2
  MaxLegacyRevision = 3
SPECIFICATION Spec
PROPERTY CurrentIsPreserved
