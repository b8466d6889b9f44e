SPECIFICATION LocalSpec
CONSTANTS
  Vols = {1, 2}
  Keys = {1}
  Key <- OneKey
  Questions = {1}
  Question <- OneKey
  Docs = {1}
  View <- Whole
  Bad = Bad
  NoFile = NoFile
  NoDir = NoDir
  None = None
  Asked = Asked
  Native = FALSE
  Watches = {w1, w2}
  Chaos = {"leave", "lost", "fetch", "write", "restart", "drop"}
  Budget = 1
PROPERTY EverybodyLeaves
CHECK_DEADLOCK FALSE
