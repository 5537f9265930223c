\* One workload on three hosts, one mover of each kind, one failure.
SPECIFICATION FairSpec
CONSTANTS
  w1 = w1
  m1 = m1
  m2 = m2
  m3 = m3
  m4 = m4
  Hosts = {1, 2, 3}
  Slots = {1, 2, 3, 4, 5, 6, 7, 8, 9, 10}
  Loads = {w1}
  Priority <- Ephemeral
  Room <- OneBig
  Movers = {m1, m2, m3, m4}
  Kind <- EveryKind
  Claim <- Claims
  Need <- Needs
  Together <- Singles
  Faults = {"host_error", "redis_error", "timeout", "crash"}
  MaxFaults = 1
CHECK_DEADLOCK FALSE
INVARIANTS TypeOK LeaseKnown 
PROPERTIES OnlyLower Recovers
