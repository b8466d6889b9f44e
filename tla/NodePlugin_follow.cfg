SPECIFICATION FairSpec
CONSTANTS
  Vols = {1, 2}
  Keys = {1}
  Key <- OneKey
  Questions = {1}
  Question <- OneKey
  Docs = {1, 2, 3, 4}
  View <- Apart
  Bad = Bad
  NoFile = NoFile
  NoDir = NoDir
  None = None
  Asked = Asked
  Native = TRUE
  Watches = {w1}
  Chaos = {"put", "lost", "drop"}
  Budget = 1
PROPERTY ReadersFollow
CHECK_DEADLOCK FALSE
