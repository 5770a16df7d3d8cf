SPECIFICATION Spec
CONSTANTS
  Tasks = {t1, t2}
  Values = {a, b}
  Blank = Blank
  Cells = 2
  Other = Other
  Budgets <- MCBudgets
SYMMETRY Sym
INVARIANTS HandlesCounted ContentKept
PROPERTY OldOrNew
CHECK_DEADLOCK FALSE
