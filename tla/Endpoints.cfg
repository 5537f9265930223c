CONSTANTS
  Keys = {k1, k2}
  Endpoints = {e1, e2}
  Clients = {c1}
  Admins = {a1, a2}
  Faults = {"redis_error", "crash"}
  MaxFaults = 2
SPECIFICATION FairEndpointSpec
INVARIANT Fresh
PROPERTY StaleEnds
