\* One request at a time, two plans, a trial, one failure at any point.
SPECIFICATION FairSpec
CONSTANTS
  p1 = p1
  p2 = p2
  hostA = hostA
  hostB = hostB
  NoProc = NoProc
  Procs = {p1}
  Hosts = {hostA}
  HostOf <- OneHost
  MaxSubs = 2
  Plans = {monthly, yearly}
  Kinds = {"checkout", "status", "cancel", "event"}
  TrialOn = TRUE
  MaxFailures = 1
  ListingLags = FALSE
INVARIANTS TypeOK InStep ProWasEarned
PROPERTY DuplicatesEnd
