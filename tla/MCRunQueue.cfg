SPECIFICATION LiveSpec
CONSTANTS
  nq = 2
  Threads = {t1, t2}
  Jobs = {j1, j2, j3}
  Copied = {j1}
  Urgent = {j2}
  NoJob = NoJob
  MaxResets = 1
INVARIANTS TypeOK NodesConserved NoLostWakeup JobAccounting BufferLifetime NoUseAfterFree
PROPERTY AcceptedJobsRun
CHECK_DEADLOCK FALSE
