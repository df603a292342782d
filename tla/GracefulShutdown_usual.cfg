SPECIFICATION FairSpec
CONSTANTS
  INT = INT
  TERM = TERM
  Signals = {INT, TERM}
  Overlaps = {TRUE, FALSE}
  MaxSignals = 4
  MaxTasks = 2
INVARIANT TypeOK
INVARIANT OneTimer
INVARIANT LeftInPeace
PROPERTY EndsWhenTold
CHECK_DEADLOCK FALSE
