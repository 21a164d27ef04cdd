SPECIFICATION Spec
CONSTANTS
  Threads = {1, 2}
  QueryWords = {"hoping", "feed"}
CHECK_DEADLOCK FALSE
INVARIANT ReturnsTheStem
