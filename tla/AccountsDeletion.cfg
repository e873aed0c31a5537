\* An account deletes itself: the finding about the savepoint.
SPECIFICATION Spec
CONSTANTS
  p1 = p1
  p2 = p2
  Procs = {p1, p2}
  MaxAccounts = 1
  Details = {none, some}
  NoDetails = none
  Kinds = {"google", "delete"}
SYMMETRY Symmetry
PROPERTY DeletionIsPermanent
