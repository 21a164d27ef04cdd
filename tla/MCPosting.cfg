SPECIFICATION Spec
CONSTANTS
  Half = 4
  ShortMod = 64
  LongMod = 256
  Strides = {1, 16, 40}
  FileStrides = {1, 4}
  MetaIds = {0, 5}
  Ranks = {1, 18}
  MaxOccurs = 3
  Readers = {TRUE, FALSE}
INVARIANT EntriesAreWhatOccurred
INVARIANT ReadsWhatWasWritten
INVARIANT SizeIsNumberOfEntries
INVARIANT FirstPositionsReadBack
