SPECIFICATION FairSpec
CONSTANTS
  Ids = {1, 2, 3, 4, 5}
  Grants <- MCGrants
  Call = 1
  Reopen = 3
  StartupPolicy = "best-effort"
  Revoke = TRUE
  Chaos = {"call", "write", "cohort", "poll", "drop", "rotate", "crash", "stop"}
  Budget = 1
INVARIANTS
  TypeOK
  ServedAlive
PROPERTIES
  Recovers
