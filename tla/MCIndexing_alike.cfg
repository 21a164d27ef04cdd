SPECIFICATION FairSpec
CONSTANTS
  IncludeMeta <- MCIncludeMeta
  ExcludeMeta = {"fax"}
  Alike <- MCAlike
  Documents <- MCDocuments
  MaxFiles = 2
  Hard = "alike"
CHECK_DEADLOCK FALSE
INVARIANT IndexedAsWritten
