CONSTANTS
  r1 = r1
  r2 = r2
  k1 = k1
  o2 = o2
  Records <- MCRecords
  Keys <- MCKeys
  Old <- MCOld
  KeyOf <- MCKeyOf
  Orders <- MCOrders
  OldEvent <- MCOldEvent
  Snapshots <- MCSnapshots
  MaxPublications = 2
  MaxOwnerActs = 1
  MaxHints = 0
  MaxFailures = 1
SPECIFICATION FairSpec
INVARIANT CursorIsStored
PROPERTIES
  DisappearanceNeverResolves
  FeedReflected
  IncidentsSettle
