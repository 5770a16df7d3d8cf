SPECIFICATION Spec
CONSTANTS
  nq = 2
  Threads = {t1}
  Jobs = {j1, j2}
  Copied = {j1}
  Urgent = {}
  NoJob = NoJob
  MaxResets = 0
INVARIANT AcceptedJobKept
CHECK_DEADLOCK FALSE
