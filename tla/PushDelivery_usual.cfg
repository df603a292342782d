SPECIFICATION FairSpec
CONSTANTS
  t1 = t1
  t2 = t2
  r1 = r1
  r2 = r2
  Tasks = {t1, t2}
  Requests = {r1, r2}
  NoOne = NoOne
  NoDelivery = NoDelivery
  NoTask = NoTask
  MaxSends = 2
  MaxAttempts = 2
  Deployments <- Usual
INVARIANT TypeOK
INVARIANT NoOverlap
INVARIANT StillDelivered
PROPERTY NothingIsLost
