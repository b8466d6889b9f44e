SPECIFICATION FairSpec
CONSTANTS
  Specs <- MCSpecs
  ClassSpecs <- MCClassSpecs
  Stores = {"s"}
  Docs = {1, 2, 3}
  View <- MCView
  Uids = {1, 2}
  Chaos = {"call", "put"}
  Budget = 1
PROPERTY BackoffHeld
CHECK_DEADLOCK FALSE
