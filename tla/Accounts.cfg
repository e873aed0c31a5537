\* Two requests at a time, of any kind but the calendar's own (a deletion makes the same write), with and without Redis.
SPECIFICATION Spec
CONSTANTS
  p1 = p1
  p2 = p2
  Procs = {p1, p2}
  MaxAccounts = 1
  Details = {none, some}
  NoDetails = none
  Kinds = {"google", "magic", "patch", "terms", "delete"}
SYMMETRY Symmetry
INVARIANTS TypeOK PlanIsNeverInvented
PROPERTIES PlanIsStripesUncached AcceptedIsStored
