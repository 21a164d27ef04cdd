SPECIFICATION FairSpec
CONSTANTS
  IncludeMeta <- MCIncludeMeta
  ExcludeMeta = {"fax"}
  Alike <- MCAlike
  Documents <- MCDocuments
  MaxFiles = 2
  Hard = "none"
CHECK_DEADLOCK FALSE
INVARIANT TypeOK
INVARIANT SuspendedByOpenElements
INVARIANT BoundaryAtHand
INVARIANT IndexedAsWritten
PROPERTY EveryFileEnds
