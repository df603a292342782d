SPECIFICATION FairSpec
CONSTANTS
  p1 = p1
  p2 = p2
  p3 = p3
  Pids = {p1, p2, p3}
  NoPid = NoPid
  MaxFailures = 1
  MaxWorkers = 3
  Commands <- Usual
INVARIANT TypeOK
INVARIANT SlotsKept
INVARIANT NothingCut
INVARIANT CrashReported
INVARIANT OutageTold
PROPERTY Stops
PROPERTY StaysStaffed
