SPECIFICATION FairSpec
CONSTANTS
  Paths <- MCPaths
  Number <- MCNumber
  Replicas = {r1}
  Namespaces = {"a", "b"}
  Asked <- MCAsked
  Lively <- MCLively
  Installs <- MCInstalls
  Rolled <- MCRolled
  Classes <- MCClasses
  Budget = 2
INVARIANTS
  TypeOK
  PinsHold
  GatesHold
  AgentStarts
  NeverSilentlyWithout
  CacheWasTrue
PROPERTIES
  OnceOnly
  EditsReach
CHECK_DEADLOCK FALSE
