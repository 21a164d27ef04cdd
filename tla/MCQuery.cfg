SPECIFICATION Spec
CONSTANTS
  Operators = {"and", "or", "near", "not", "(", ")", "="}
  QueryWords = {"a", "s", "m"}
  Wildcards = {"b"}
  StopWords = {"s"}
  Matches <- MCMatches
  MetaIds <- MCMetaIds
  Indices <- MCIndices
  NumFiles = 4
  FilesMax = 3
  PercentMax = 101
  MaxTokens = 6
  WordsNear = 2
INVARIANT LookAheadFits
INVARIANT AcceptsTheGrammar
INVARIANT MeaningKept
INVARIANT NotNearMissesNone
