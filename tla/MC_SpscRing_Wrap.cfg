SPECIFICATION RingSpec
CONSTANTS
  Capacity = 3
  PosMod = 8
  MaxBatch = 3
  MaxSamples = 14
INVARIANTS
  StreamIsContiguous
CHECK_DEADLOCK FALSE
