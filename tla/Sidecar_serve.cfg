SPECIFICATION Spec
CONSTANTS
  Docs = {1, 2, 3}
  Valid = {1, 2}
  N = 2
  Texts <- MCTexts
  Text <- MCText
  NoDoc = NoDoc
  None = None
  Missing = Missing
  Empty = Empty
  Foreign = Foreign
  StartupPolicy = "allow-cached"
  OnDelete = "retain"
  OnDrift = "fail"
  Native = TRUE
  Canary = TRUE
  TlsReload = TRUE
  Tasks = {t1, t2}
  Chaos = {"put", "delete", "widen", "narrow", "crash", "write", "fetch", "rotate", "watch", "tamper", "stop"}
  Budget = 4
INVARIANT TypeOK
INVARIANT Provenance
INVARIANT DiskIsBelief
PROPERTY ImplementsServed
PROPERTY HeldPodKeepsItsFiles
CHECK_DEADLOCK FALSE
