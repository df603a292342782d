SPECIFICATION FairSpec
CONSTANTS
  t1 = t1
  t2 = t2
  w1 = w1
  w2 = w2
  Tasks = {t1, t2}
  Processes = {w1, w2}
  NoOne = NoOne
  NoMessage = NoMessage
  NoTask = NoTask
  MaxReceive = 2
  MaxSends = 2
  Deployments <- Dependable
INVARIANT TypeOK
INVARIANT ReadyIsCovered
PROPERTY NothingIsLost
