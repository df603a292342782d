SPECIFICATION FairSpec
CONSTANTS
  t1 = t1
  t2 = t2
  w1 = w1
  w2 = w2
  q1 = q1
  p1 = p1
  Tasks = {t1, t2}
  Workers = {w1, w2}
  Callers = {}
  Admins = {}
  Recoverers = {q1}
  Purgers = {p1}
  NoTask = NoTask
  NoOne = NoOne
  Urgent = {t1}
  Delayed = {t2}
  RowLocks = TRUE
  AllowRetry = FALSE
  AdminActions = {}
  MaxAttempts = 2
  MarkFailed = {FALSE, TRUE}
  Premature = TRUE
  SignalRaises = FALSE
  MaxCrashes = 1
  MaxRetries = 1
  Rank <- MCRank
INVARIANT WithinAttempts
PROPERTY OnlyCompletedPurged
PROPERTY Completes
