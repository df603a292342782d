SPECIFICATION FairSpec
CONSTANTS
  INT = INT
  TERM = TERM
  Signals = {INT, TERM}
  Overlaps = {TRUE}
  MaxSignals = 2
  MaxTasks = 2
PROPERTY SecondSignalExits
CHECK_DEADLOCK FALSE
