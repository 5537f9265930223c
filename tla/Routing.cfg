\* Two instances on one host, two requests, one change of status, one failure.
SPECIFICATION FairSpec
CONSTANTS
  x1 = x1
  x2 = x2
  x3 = x3
  h1 = h1
  h2 = h2
  Requests = {r1, r2}
  Instances = {x1, x2}
  Hosts = {h1}
  HostOf <- OneHost
  MaxAttempts = 2
  LongRequests = FALSE
  Faults = {"crash", "redis_error"}
  MaxFaults = 1
  MaxMoves = 1
INVARIANTS TypeOK NeverOvercounts DrainedIsZero
PROPERTY GhostsExpire
