\* Two requests at once in two workers, a listing that lags, no failure.
SPECIFICATION Spec
CONSTANTS
  p1 = p1
  p2 = p2
  hostA = hostA
  hostB = hostB
  NoProc = NoProc
  Procs = {p1, p2}
  Hosts = {hostA, hostB}
  HostOf <- TwoHosts
  MaxSubs = 2
  Plans = {monthly}
  Kinds = {"checkout", "event"}
  TrialOn = FALSE
  MaxFailures = 0
  ListingLags = TRUE
INVARIANTS RefundOnlyDuplicates DuplicatesRefunded
