\* One worker, one clock; a due date that passes; one delivery or tick that dies.
CONSTANTS
  Works = {w1}
  Approvals = {a1}
  Members = {m1}
  Nobody = Nobody
  Workers = {worker}
  Clock = Clock
  Dues = {0}
  Lag = 1
  MaxTime = 1
  MaxEvents = 3
  MaxFaults = 1
SPECIFICATION Spec
INVARIANTS
  TypeOK
  RowsConverge
  AttentionCurrent
PROPERTIES
  OverdueShown
CHECK_DEADLOCK FALSE
