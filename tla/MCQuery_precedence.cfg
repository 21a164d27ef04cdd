SPECIFICATION Spec
CONSTANTS
  Operators = {"and", "or"}
  QueryWords = {"a", "c", "d", "m"}
  Wildcards = {}
  StopWords = {}
  Matches <- MCMatches
  MetaIds <- MCMetaIds
  Indices <- MCIndices
  NumFiles = 4
  FilesMax = 3
  PercentMax = 101
  MaxTokens = 5
  WordsNear = 2
INVARIANT QueriesMeanWhatTheySay
