\* Two commands at a time, four in all; two members seeded, one id to invite or rehire.
CONSTANTS
  Members = {m1, m2, m3}
  Founders = {m1, m2}
  Works = {w1}
  Approvals = {a1}
  Calls = {c1, c2}
  Nobody = Nobody
  Attempts = 3
  MaxCommands = 4
SYMMETRY Interchangeable
SPECIFICATION Spec
INVARIANTS
  TypeOK
  DecidedOnce
  ActiveIsEmployed
  RevocationAccounted
PROPERTIES
  LifecycleSpec
CHECK_DEADLOCK FALSE
