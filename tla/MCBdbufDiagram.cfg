SPECIFICATION Spec
CONSTANTS
  t1 = t1
  t2 = t2
  t3 = t3
  d1 = d1
  w1 = w1
  Tasks = {t1, t2}
  Devs = {d1}
  NoDev = NoDev
  None = None
  GroupCount = 1
  MaxBdsPerGroup = 2
  MediaBlocks = 3
  Workers = {w1}
  MaxWriteBlocks = 1
  MaxReadAhead = 2
  BlockHold = 1
  SemMax = 1
  Budgets <- DiagramBudgets
PROPERTY FollowsDiagram
SYMMETRY Sym
CHECK_DEADLOCK FALSE
