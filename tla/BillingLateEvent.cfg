\* Two webhooks at once: the finding about the plan left behind.
SPECIFICATION Spec
CONSTANTS
  p1 = p1
  p2 = p2
  hostA = hostA
  hostB = hostB
  NoProc = NoProc
  Procs = {p1, p2}
  Hosts = {hostA, hostB}
  HostOf <- TwoHosts
  MaxSubs = 1
  Plans = {monthly}
  Kinds = {"checkout", "event"}
  TrialOn = FALSE
  MaxFailures = 0
  ListingLags = FALSE
INVARIANT InStep
