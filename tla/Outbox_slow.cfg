\* Runs may outlast their leases, two recoveries may race, store statements may fail.
CONSTANTS
  NumMsgs = 1
  NumConsumers = 2
  Workers = {w1, w2}
  Admins = {a1, a2}
  Poison = {}
  MaxAttempts = 2
  BatchSize = 2
  SlowWorkers = TRUE
  StoreFaults = TRUE
  MaxCrashes = 1
  MaxRecoveries = 1
SPECIFICATION Spec
INVARIANTS
  AtMostOncePerRecovery
CHECK_DEADLOCK FALSE
