SPECIFICATION ServicesSpec
CONSTANTS
  p1 = p1
  p2 = p2
  t1 = t1
  t2 = t2
  d1 = d1
  u1 = u1
  s1 = s1
  e1 = e1
  w1 = w1
  w2 = w2
  f1 = f1
  Reminded = {t1}
  Starts = {7, 16}
  LastInstant = 17
  Period = 3
  Ttl = 2
  SweepSpan = 2
  Devices = {d1}
  People = {u1}
  Owner = u1
  MaxMoves = 1
  SweepFaults = 1
  Sessions = {s1}
  Parts = 2
  Week = 2
  Offset = 0
  LastPart = 3
  StreakDays = 1
  PeakCount = 1
  GoalCount = 1
  BreakMinutes = 2
  ShieldCount = 1
  Thresholds <- MCThresholds
  MaxActs = 1
  SmartFaults = 1
  Mirrored = {e1}
  LastVersion = 2
  CalendarFaults = 1
  Listable = {1, 2, 3}
  Variants <- MCVariants
  Filters <- MCFilters
  Sorts <- MCSorts
  ProjectWords <- MCWords
  PageSize = 2
  BlankTerm = 0
  BadDate = 5
  QueryChanges = 1
  ChatThreshold = 2
  ChatKeep = 1
  ChatExchanges = 3
  ChatFaults = 1
  Drawings = {1, 2}
  Folders = {f1}
  DocTasks = {w1}
  Todos = {w2}
  Contents <- MCContents
  MaxCanvases = 1
  FreeScene = 0
  ProScene = 1
  MaxMutations = 4
  ContentFaults = 1
  Emails = {u1}
  AccessLife = 1
  RefreshLife = 3
  LinkLife = 2
  RateLimit <- MCLimit
  RateWindow <- MCWindow
  Lives = {1, 3}
  Early = 1
  Margin = 0
  LastMinute = 3
  MaxVisits = 3
  SignInFaults = 1
  Nil = Nil
  Never = Never
  Procs = {p1, p2}
  Ids = {t1, t2}
  Estimates = {6}
  Dues = {15, 26}
  Drags <- MCDrags
  Nows = {0, 7}
  MaxEdits = 3
  Horizon = 36
  Day = 12
  WorkDays = {0, 2}
  HoursStart = 2
  HoursEnd = 10
  Window = 24
  Stride = 2
  SlotLen = 4
  MaxBlock = 16
  MinBlock = 2
SYMMETRY Symmetry
CONSTRAINT Bounds
INVARIANTS
  TypesOK NoDoubleBooking  RemindedOnce RemindedInTime PushedIsStored
  ToldOnce TokenIsHonest UnpushedStays PagesShowEverything NothingForgotten
  OneTaskPerTodo DocumentsHold SignInHolds
PROPERTIES HandPlacedStays PlansArePlacements
\* A calendar, a conversation or a document may be left as it is.
CHECK_DEADLOCK FALSE
