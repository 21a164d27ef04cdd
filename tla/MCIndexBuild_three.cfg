\* One run over three files, each of which may make a partial index.
CONSTANTS
  d1 = d1
  d2 = d2
  d3 = d3
  Words = {1, 2}
  Docs = {d1, d2, d3}
  Walks <- OneRun
  MaxOccurs = 1
  Threshold = 1
  FilesMax = 3
  PercentMax = 100
  GivenStop = {}
SPECIFICATION Spec
INVARIANT CountsAgree
CHECK_DEADLOCK FALSE
