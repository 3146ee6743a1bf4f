SPECIFICATION Spec
CONSTANTS
  first = first
  second = second
  Write = {first, second}
  Hard = {1, 2}
  Budgets <- MCBudgets
INVARIANTS TypeOK DownInv
PROPERTIES KeptDown PauseFollowed QuotaReaches
CHECK_DEADLOCK FALSE
