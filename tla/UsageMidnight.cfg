\* Two requests at once, one of them under way when the month changes.
SPECIFICATION Spec
CONSTANTS
  r1 = r1
  r2 = r2
  r3 = r3
  Requests = {r1, r2}
  FreeLimit = 2
  ProLimit = 2
  CostCap = 1
  Costs = {1}
  MonthOf <- TwoDayMonths
  LastDay = 3
  MaxCost = 2
  QuietMidnight = FALSE
SYMMETRY Symmetry
INVARIANT MonthlyLimit
