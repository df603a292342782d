SPECIFICATION Spec
CONSTANTS
  t1 = t1
  t2 = t2
  w1 = w1
  w2 = w2
  c1 = c1
  q1 = q1
  q2 = q2
  Tasks = {t1, t2}
  Workers = {w1, w2}
  Callers = {c1}
  Admins = {}
  Recoverers = {q1, q2}
  Purgers = {}
  NoTask = NoTask
  NoOne = NoOne
  Urgent = {t1}
  Delayed = {t2}
  RowLocks = TRUE
  AllowRetry = TRUE
  AdminActions = {}
  MaxAttempts = 2
  MarkFailed = {FALSE}
  Premature = FALSE
  SignalRaises = FALSE
  MaxCrashes = 2
  MaxRetries = 1
  Rank <- MCRank
SYMMETRY Symmetry
INVARIANT TypeOK
INVARIANT OneRunner
PROPERTY AttemptsKept
PROPERTY SuccessIsFinal
PROPERTY ImplementsQueue
