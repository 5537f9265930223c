\* Two requests, two flushers, two failures.
SPECIFICATION FairSpec
CONSTANTS
  r1 = r1
  r2 = r2
  e1 = e1
  e2 = e2
  Requests = {r1, r2}
  Endpoints = {e1, e2}
  EndpointOf <- Apart
  Flushers = {loop, other}
  Loop = loop
  MaxAttempts = 2
  Faults = {"long_request", "unreported", "overtaking", "db_error", "abandoned"}
  MaxFaults = 2
CHECK_DEADLOCK FALSE
INVARIANTS NoneLost RowsTrue
PROPERTY InflightDrains
