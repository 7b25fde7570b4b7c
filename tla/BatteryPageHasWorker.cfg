SPECIFICATION Spec
CONSTANTS
  Task = {t1, t2}
  NULL = NULL
INVARIANT PageHasWorker
