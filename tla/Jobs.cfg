\* Two jobs on one of two hosts; answers precede the end, events keep their order.
SPECIFICATION FairSpec
CHECK_DEADLOCK FALSE
CONSTANTS
  Jobs = {j1, j2}
  Hosts = {h1, h2}
  CacheLimit = 1
  Races = {"unreachable", "crash", "remove_host"}
INVARIANTS TypeOK  Enriched
 
