SPECIFICATION LiveSpec
CONSTANTS
  w1 = w1
  w2 = w2
  NewJobs <- MCNewJobs
  Workers = {w1, w2}
  WorkerId <- MCSharedId
  NoWorker = NoWorker
  Kind <- MCKind
  LeaseDuration = 2
  JobMaxAttempts = 2
  MaxDelay = 0
  RenewUntil = 1
  EnqueueUntil = 0
INVARIANTS
    RowsAreConsistent
PROPERTIES
    RowsAreFinal ImplementsLifecycle EveryJobEnds
CHECK_DEADLOCK FALSE
