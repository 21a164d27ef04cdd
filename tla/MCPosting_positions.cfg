SPECIFICATION Spec
CONSTANTS
  Half = 4
  ShortMod = 64
  LongMod = 256
  Strides = {1, 2}
  FileStrides = {1, 4}
  MetaIds = {0}
  Ranks = {1, 18}
  MaxOccurs = 3
  Readers = {TRUE}
INVARIANT PositionsReadBack
