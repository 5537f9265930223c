\* Two replicas that share the lock; one of them may crash or be shut down.
SPECIFICATION FairSpec
CONSTANTS
  Intents = {i1}
  Aliases = {a}
  ReplicaCounts = {0, 1}
  Controls = {c1, c2}
  Clients = {c1, c2, u}
  Overlap = FALSE
  Hosts = {h1}
  Slots = {k1}
  PushDelay = "none"
  Faults = {"crash"}
  MaxFaults = 1
INVARIANT LockExclusive
PROPERTIES  DeletionCompletes
