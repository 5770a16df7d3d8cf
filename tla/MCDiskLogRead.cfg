SPECIFICATION Spec
CONSTANTS
  Size = 3
  InputSizes = {2}
  Chunk = 2
  MaxLen = 3
  MaxSerial = 4
  MaxFaults = 0
INVARIANT ReadSizeReturned
CHECK_DEADLOCK FALSE
