SPECIFICATION CatalogSpec
CONSTANTS
  t1 = t1
  x1 = x1
  k1 = k1
  k2 = k2
  r1 = r1
  y1 = y1
  y2 = y2
  Tables <- MCTables
  Columns <- MCColumns
  KeyRows <- MCKeyRows
  Relations <- MCRelations
  TableOf <- MCTableOf
  RelationOf <- MCRelationOf
  Syncs <- MCSyncs
  MaxSyncs = 3
  MaxChanges = 3
CHECK_DEADLOCK FALSE
SYMMETRY Symmetry
INVARIANTS
  CatalogTypeOK
  LoneSyncHeals
  ReportsTellTheStory
  DisagreementMeansCrossing
