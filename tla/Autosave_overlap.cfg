\* Three saves, and two flushes beside those of the timer.
CONSTANTS
  MaxSaves = 3
  MaxLeaves = 2
SPECIFICATION Spec
INVARIANTS
  TypeOK
  NothingDropped
  FlushLands
PROPERTIES
  EverySaveTried
CHECK_DEADLOCK FALSE
