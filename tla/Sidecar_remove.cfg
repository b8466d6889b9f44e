SPECIFICATION FairSpec
CONSTANTS
  Docs = {1, 2}
  Valid = {1, 2}
  N = 2
  Texts <- MCTexts
  Text <- MCText
  NoDoc = NoDoc
  None = None
  Missing = Missing
  Empty = Empty
  Foreign = Foreign
  StartupPolicy = "best-effort"
  OnDelete = "remove"
  OnDrift = "warn"
  Native = TRUE
  Canary = TRUE
  TlsReload = TRUE
  Tasks = {t1}
  Chaos = {"put", "delete", "widen", "crash", "write", "fetch", "rotate", "watch"}
  Budget = 3
PROPERTY DeletionHolds
