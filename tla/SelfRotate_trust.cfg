SPECIFICATION FairSpec
CONSTANTS
  r1 = r1
  r2 = r2
  Replicas = {r1, r2}
  None = None
  Authorities = {1, 2, 3, 4}
  Budget = 1
  Chaos = {"crash", "fail", "slow"}
INVARIANT TypeOK
INVARIANT OneRotator
INVARIANT EveryReplicaTrusted
INVARIANT NoticesNews
PROPERTY Heals
