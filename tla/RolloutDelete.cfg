\* An immediate update, and a deletion while it is under way.
SPECIFICATION Spec
CONSTANTS
  Hosts = {1, 2}
  Slots = {1, 2, 3, 4}
  Replicas = 2
  Strategies = {"immediate"}
  Deletable = {"immediate"}
  MaxEdits = 1
  Faults = {}
  MaxFaults = 0
CHECK_DEADLOCK FALSE
INVARIANT NoLeak
