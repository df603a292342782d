SPECIFICATION FairSpec
CONSTANTS
  t1 = t1
  t2 = t2
  r1 = r1
  r2 = r2
  r3 = r3
  default = default
  other = other
  Tasks = {t1, t2}
  Requests = {r1, r2, r3}
  Backends = {default, other}
  NoTask = NoTask
  Default = default
  Deployments <- Usual
INVARIANT TypeOK
INVARIANT LetInAsConfigured
PROPERTY AnswersTruthfully
PROPERTY Answered
