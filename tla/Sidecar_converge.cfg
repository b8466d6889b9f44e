SPECIFICATION FairSpec
CONSTANTS
  Docs = {1, 2}
  Valid = {1, 2}
  N = 2
  Texts <- MCTexts
  Text <- MCText
  NoDoc = NoDoc
  None = None
  Missing = Missing
  Empty = Empty
  Foreign = Foreign
  StartupPolicy = "require-fresh"
  OnDelete = "fail"
  OnDrift = "repair"
  Native = TRUE
  Canary = TRUE
  TlsReload = TRUE
  Tasks = {t1}
  Chaos = {"put", "delete", "widen", "crash", "write", "fetch", "rotate", "watch", "tamper"}
  Budget = 3
PROPERTY Converges
PROPERTY FailStaysDown
