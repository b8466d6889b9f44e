SPECIFICATION Spec
CONSTANTS
  Vols = {1, 2}
  Keys = {1}
  Key <- OneKey
  Questions = {1, 2}
  Question <- Own
  Docs = {1, 2, 3}
  View <- Whole
  Bad = Bad
  NoFile = NoFile
  NoDir = NoDir
  None = None
  Asked = Asked
  Native = FALSE
  Watches = {w1, w2}
  Chaos = {"put", "revert", "leave", "lost", "fetch", "write", "restart", "drop"}
  Budget = 2
SYMMETRY Symmetric
INVARIANT TypeOK
INVARIANT MountedHasOwnFile
INVARIANT OneWatch
INVARIANT NobodyLeftBehind
CHECK_DEADLOCK FALSE
