\* One worker, one consumer, nothing but a consumer that throws once.
CONSTANTS
  NumMsgs = 1
  NumConsumers = 1
  Workers = {w1}
  Admins = {}
  Poison = {}
  MaxAttempts = 5
  BatchSize = 25
  SlowWorkers = FALSE
  StoreFaults = FALSE
  MaxCrashes = 0
  MaxRecoveries = 0
SPECIFICATION Spec
INVARIANT PublishedMeansHandled
CHECK_DEADLOCK FALSE
