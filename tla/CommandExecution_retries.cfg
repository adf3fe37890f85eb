\* Three calls of two services, any keys and 0..2 events: retries, strangers and calls without a key.
CONSTANTS
  r1 = r1
  r2 = r2
  r3 = r3
  k1 = k1
  k2 = k2
  s1 = s1
  s2 = s2
  Requests = {r1, r2, r3}
  Keys = {k1, k2}
  Services = {s1, s2}
  NoKey = NoKey
  Nobody = Nobody
  MaxEvents = 2
  MaxCrashes = 1
SPECIFICATION MCSpec
INVARIANTS
  TypeOK
  OncePerKey
  ReplayIsTheCommitted
PROPERTIES
  IdempotentSpec
  EveryRequestAnswered
CHECK_DEADLOCK FALSE
