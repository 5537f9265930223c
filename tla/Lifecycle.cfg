\* One replica, prompt pushes, two intents for one alias, every kind of failure.
SPECIFICATION Spec
CONSTANTS
  Intents = {i1, i2}
  Aliases = {a}
  ReplicaCounts = {0, 1}
  Controls = {c1}
  Clients = {c1, u}
  Overlap = FALSE
  Hosts = {h1, h2}
  Slots = {k1, k2}
  PushDelay = "none"
  Faults = {"crash", "host_error", "instance_failure", "pass_error", "capacity"}
  MaxFaults = 1
INVARIANTS TypeOK NoLeak 
PROPERTIES ImplementsLifecycle 
