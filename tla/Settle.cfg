\* One replica, overlapping transactions, pushes that land before the settle window ends.
SPECIFICATION FairSpec
CONSTANTS
  Intents = {i1}
  Aliases = {a}
  ReplicaCounts = {0, 1}
  Controls = {c1}
  Clients = {c1, u}
  Overlap = TRUE
  Hosts = {h1, h2}
  Slots = {k1, k2}
  PushDelay = "settle"
  Faults = {"host_error", "instance_failure"}
  MaxFaults = 1
INVARIANT NoDuplicates
PROPERTIES RetiredIsFinal Converges
