\* Two checkouts at once in two workers, for different plans, with a trial.
SPECIFICATION FairSpec
CONSTANTS
  p1 = p1
  p2 = p2
  hostA = hostA
  hostB = hostB
  NoProc = NoProc
  Procs = {p1, p2}
  Hosts = {hostA, hostB}
  HostOf <- TwoHosts
  MaxSubs = 2
  Plans = {monthly, yearly}
  Kinds = {"checkout"}
  TrialOn = TRUE
  MaxFailures = 0
  ListingLags = FALSE
INVARIANT OneOpenCheckout
PROPERTY RowIsReleased
