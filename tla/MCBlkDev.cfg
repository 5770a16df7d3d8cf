SPECIFICATION LiveSpec
CONSTANTS
  NBufs = 2
  BlkSize = 2
  NBlocks = 3
  Beyond <- MCBeyond
  Values = {0, 1, 2}
  Ff = 0
  HoldTime = 2
  Period = 1
  Requests <- MCRequests
  MaxFaults = 1
INVARIANTS TypeOK ListsPartition OneBufferPerBlock CleanMatchesFlash OldestFirst CleanSyncDurable
PROPERTY Transparent
PROPERTY WrittenBack
CHECK_DEADLOCK FALSE
