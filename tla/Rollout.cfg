\* Two replicas on two of three hosts, either strategy, one version change.
SPECIFICATION FairSpec
CONSTANTS
  Hosts = {1, 2, 3}
  Slots = {1, 2, 3, 4, 5}
  Replicas = 2
  Strategies = {"rolling", "immediate"}
  Deletable = {"rolling"}
  MaxEdits = 1
  Faults = {"stop_error", "create_error", "slow", "capacity", "crash", "pass_error", "instance_failure"}
  MaxFaults = 2
CHECK_DEADLOCK FALSE
INVARIANTS TypeOK NoLeak
PROPERTIES ServiceKept UpdateCompletes DeletionCompletes
