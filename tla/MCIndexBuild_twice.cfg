\* A file named without its directory, then named again to an incremental run.
CONSTANTS
  d1 = d1
  d2 = d2
  d3 = d3
  Words = {1, 2, 3}
  Docs = {d1, d2, d3}
  Walks <- SameAgain
  MaxOccurs = 1
  Threshold = 2
  FilesMax = 3
  PercentMax = 100
  GivenStop = {}
SPECIFICATION Spec
INVARIANT NoFileTwice
CHECK_DEADLOCK FALSE
