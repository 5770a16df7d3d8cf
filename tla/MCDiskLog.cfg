SPECIFICATION Spec
CONSTANTS
  Size = 3
  InputSizes = {1, 2, 4}
  Chunk = 2
  MaxLen = 2
  MaxSerial = 7
  MaxFaults = 2
INVARIANTS TypeOK RingHoldsLast OutputComplete
CHECK_DEADLOCK FALSE
