\* One request over three instances on two hosts that come and go.
SPECIFICATION Spec
CONSTANTS
  x1 = x1
  x2 = x2
  x3 = x3
  h1 = h1
  h2 = h2
  Requests = {r1}
  Instances = {x1, x2, x3}
  Hosts = {h1, h2}
  HostOf <- TwoHosts
  MaxAttempts = 3
  LongRequests = TRUE
  Faults = {}
  MaxFaults = 0
  MaxMoves = 3
INVARIANT NoSpuriousFailure
