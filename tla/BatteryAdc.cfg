SPECIFICATION FairSpec
CONSTANTS
  Task = {t1, t2}
  NULL = NULL
INVARIANTS
  OneAdcOwner
  InitFindsNoUnit
  ReadyMeansMeasured
PROPERTIES
  LeavingEndsWorker
  WorkerReports
