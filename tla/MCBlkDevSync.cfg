SPECIFICATION Spec
CONSTANTS
  NBufs = 2
  BlkSize = 2
  NBlocks = 3
  Beyond <- MCBeyond
  Values = {0, 1, 2}
  Ff = 0
  HoldTime = 2
  Period = 1
  Requests <- MCRequests
  MaxFaults = 1
INVARIANT SyncDurable
CHECK_DEADLOCK FALSE
