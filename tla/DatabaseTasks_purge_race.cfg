SPECIFICATION Spec
CONSTANTS
  c1 = c1
  p1 = p1
  t1 = t1
  w1 = w1
  Tasks = {t1}
  Workers = {w1}
  Callers = {c1}
  Admins = {}
  Recoverers = {}
  Purgers = {p1}
  NoTask = NoTask
  NoOne = NoOne
  Urgent = {t1}
  Delayed = {}
  RowLocks = TRUE
  AllowRetry = TRUE
  AdminActions = {}
  MaxAttempts = 2
  MarkFailed = {FALSE}
  Premature = FALSE
  SignalRaises = FALSE
  MaxCrashes = 0
  MaxRetries = 1
  Rank <- MCRank
SYMMETRY Symmetry
PROPERTY OnlyCompletedPurged
