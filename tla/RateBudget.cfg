\* Two callers: one rolls the day under the refund of the other. RefundsOwnDay is violated.
SPECIFICATION BudgetSpec
CONSTANTS
  Callers = {c1, c2}
  daily = 3
  Days = 3
  MaxStarts = 2
INVARIANT RefundsOwnDay
CHECK_DEADLOCK FALSE
