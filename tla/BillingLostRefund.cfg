\* One request at a time and one failure: the finding about the lost refund.
SPECIFICATION Spec
CONSTANTS
  p1 = p1
  p2 = p2
  hostA = hostA
  hostB = hostB
  NoProc = NoProc
  Procs = {p1}
  Hosts = {hostA}
  HostOf <- OneHost
  MaxSubs = 2
  Plans = {monthly}
  Kinds = {"checkout", "event"}
  TrialOn = FALSE
  MaxFailures = 1
  ListingLags = FALSE
INVARIANT DuplicatesRefunded
