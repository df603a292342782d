SPECIFICATION FairSpec
CONSTANTS
  e1 = e1
  e2 = e2
  Executors = {e1, e2}
  NoThread = NoThread
  Commands <- Usual
INVARIANT TypeOK
INVARIANT WithinMaxTasks
INVARIANT SlotsAccounted
INVARIANT ReportsWhatItDid
PROPERTY Stops
