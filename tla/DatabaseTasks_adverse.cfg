SPECIFICATION Spec
CONSTANTS
  t1 = t1
  c1 = c1
  a1 = a1
  q1 = q1
  p1 = p1
  Tasks = {t1}
  Workers = {}
  Callers = {c1}
  Admins = {a1}
  Recoverers = {q1}
  Purgers = {p1}
  NoTask = NoTask
  NoOne = NoOne
  Urgent = {t1}
  Delayed = {t1}
  RowLocks = FALSE
  AllowRetry = TRUE
  AdminActions = {"run", "retry", "requeue"}
  MaxAttempts = 2
  MarkFailed = {FALSE, TRUE}
  Premature = TRUE
  SignalRaises = TRUE
  MaxCrashes = 1
  MaxRetries = 1
  Rank <- MCRank
SYMMETRY Symmetry
INVARIANT FinishedWhenCompleted
PROPERTY RunsWhatItClaimed
