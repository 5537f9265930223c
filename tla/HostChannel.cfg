\* One machine, one refresh, one administrator's request, one failure.
SPECIFICATION FairSpec
CONSTANTS
  Rows = {1, 2}
  Sids = {1, 2}
  Models = {m1}
  Refreshers = {r1}
  Admins = {a1}
  Task <- Anything
  Faults = {"drop", "halt", "change", "poll_error", "db_error", "crash"}
  MaxFaults = 1
CHECK_DEADLOCK FALSE
INVARIANTS TypeOK NeverLost
PROPERTIES NoEviction  Heals
