SPECIFICATION Spec
CONSTANTS
  w1 = w1
  w2 = w2
  NewJobs <- MCOneJob
  Workers = {w1}
  WorkerId <- MCOneWorkerId
  NoWorker = NoWorker
  Kind <- MCOneWorkerKind
  LeaseDuration = 1
  JobMaxAttempts = 2
  MaxDelay = 0
  RenewUntil = 0
  EnqueueUntil = 1
INVARIANTS ReenqueueReturnsExisting
CHECK_DEADLOCK FALSE
