\* Every distribution of four words over three files, of which two are indexed
\* in a first run and the third is added by an incremental run: at most two
\* partial indices are merged.
CONSTANTS
  d1 = d1
  d2 = d2
  d3 = d3
  Words = {1, 2, 3, 4}
  Docs = {d1, d2, d3}
  Walks <- TwoRuns
  MaxOccurs = 1
  Threshold = 2
  FilesMax = 3
  PercentMax = 60
  GivenStop = {}
SPECIFICATION FairSpec
INVARIANTS TypeOK CountsAgree WordsInOrder NoFileTwice
PROPERTIES StoreSpec EveryRunEnds
CHECK_DEADLOCK FALSE
