SPECIFICATION FairSpec
CONSTANTS
  r1 = r1
  r2 = r2
  Replicas = {r1, r2}
  None = None
  Term = 15
  Renew = 5
  Poll = 5
  Call = 1
  Skew = 1
  Ahead <- Apart
  Cap = 18
INVARIANT TypeOK
INVARIANT OverlapIsBounded
INVARIANT OneInGoodStanding
PROPERTY SomeoneLeads
