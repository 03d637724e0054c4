SPECIFICATION HandleFairSpec
CONSTANTS
  i1 = i1
  i2 = i2
  Iterators = {i1, i2}
  Filter <- MCFilter
  Waits = {w1, w2}
  MaxChunks = 2
INVARIANTS ParkedSeesNothing IteratorsExact WaitsAgree
PROPERTY ReadersFinish
CHECK_DEADLOCK FALSE
