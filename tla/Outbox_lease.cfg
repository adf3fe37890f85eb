\* Runs end within their leases; one administrator; store statements succeed.
CONSTANTS
  NumMsgs = 2
  NumConsumers = 2
  Workers = {w1, w2}
  Admins = {a1}
  Poison = {2}
  MaxAttempts = 3
  BatchSize = 2
  SlowWorkers = FALSE
  StoreFaults = FALSE
  MaxCrashes = 1
  MaxRecoveries = 1
SPECIFICATION FairSpec
INVARIANTS
  TypeOK
  AtMostOncePerRecovery
  ExclusiveClaim
  PublishedMeansRecorded
  OnlyPoisonDies
PROPERTIES
  LifecycleSpec
  EventuallySettled
CHECK_DEADLOCK FALSE
