\* Two concurrent calls of one service.
CONSTANTS
  Requests = {r1, r2}
  Keys = {k1, k2}
  Services = {s1}
  NoKey = NoKey
  Nobody = Nobody
  MaxEvents = 2
  MaxCrashes = 1
SPECIFICATION Spec
INVARIANTS
  EventCarriesItsKey
CHECK_DEADLOCK FALSE
