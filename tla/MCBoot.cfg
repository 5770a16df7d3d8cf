SPECIFICATION Spec
CONSTANTS
  f1 = f1
  f2 = f2
  f3 = f3
  Firmwares = {f1, f2, f3}
  Devid <- MCDevid
  None = None
  Junk = Junk
  Blocks = 2
  TryCnt = 1
  Budgets <- MCBudgets
  Words <- MCWords
  Size <- MCSize
  Number <- MCNumber
  MaxLen = 64
  MaxKeySize = 64
INVARIANTS BootsIntact SuccessMeansInstalled FlushedReturn
PROPERTY EventuallyBoots
CHECK_DEADLOCK FALSE
