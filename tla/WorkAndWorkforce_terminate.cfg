\* TerminateMember beside the creation or the reassignment of a work item.
CONSTANTS
  Members = {m1, m2}
  Founders = {m1, m2}
  Works = {w1}
  Approvals = {a1}
  Calls = {c1, c2}
  Nobody = Nobody
  Attempts = 3
  MaxCommands = 3
SPECIFICATION Spec
INVARIANTS
  TerminatedOwnsNothing
CHECK_DEADLOCK FALSE
