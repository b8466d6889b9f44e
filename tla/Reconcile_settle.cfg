SPECIFICATION FairSpec
CONSTANTS
  Specs <- MCSpecs
  ClassSpecs <- MCClassSpecs
  Stores = {"s"}
  Docs = {1, 2, 3}
  View <- MCView
  Uids = {1, 2}
  Chaos = {"make", "spec", "delete", "class", "put", "touch", "call", "crash"}
  Budget = 2
INVARIANTS
  TypeOK
  NothingMissed
  HealthyReadsReady
PROPERTIES
  Converges
  Quiet
  NothingLeftBehind
CHECK_DEADLOCK FALSE
