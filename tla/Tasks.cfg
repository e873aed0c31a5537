\* Two mutations at once on two tasks, with and without Redis, one failure.
SPECIFICATION Spec
CONSTANTS
  p1 = p1
  p2 = p2
  t1 = t1
  t2 = t2
  a = a
  b = b
  Nil = Nil
  Procs = {p1, p2}
  Ids = {t1, t2}
  Titles = {a, b}
  MaxMutations = 3
  MaxFaults = 1
SYMMETRY Symmetry
INVARIANTS TypeOK CopiesAreRows NoOrphans SyncedIsTrue LinksAreLive
PROPERTIES CompletedIsKept RemovedStaysRemoved TitleByItsEdit
