\* Two requests at a time over two months of two days; none under way at midnight.
SPECIFICATION Spec
CONSTANTS
  r1 = r1
  r2 = r2
  r3 = r3
  Requests = {r1, r2}
  FreeLimit = 2
  ProLimit = 2
  CostCap = 1
  Costs = {1}
  MonthOf <- TwoDayMonths
  LastDay = 3
  MaxCost = 2
  QuietMidnight = TRUE
SYMMETRY Symmetry
INVARIANTS TypeOK Limits MeterIsExact
PROPERTY MeterIsAllowance
