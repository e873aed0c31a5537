\* Profile edits beside billing: the finding about the cached plan.
SPECIFICATION Spec
CONSTANTS
  p1 = p1
  p2 = p2
  Procs = {p1, p2}
  MaxAccounts = 1
  Details = {none, some}
  NoDetails = none
  Kinds = {"google", "patch"}
SYMMETRY Symmetry
PROPERTY PlanIsStripes
