\* Users at two calls, two runs of an import of two rows, in several proportions.
CONSTANTS
  Calls = {u1, u2, i1, i2}
  Importers = {i1, i2}
  Scenarios <- SomeScenarios
  Foreseen = 2
  Kinds = {"party", "contact", "location", "reverseLocation", "reverseParty"}
  Rows = {1, 2}
  Located = {1}
SPECIFICATION Spec
SYMMETRY Interchangeable
INVARIANTS
  TypeOK
  ApprovedIsMerged
  OneEntityPerRow
  ImportedComplete
  ReversalDone
PROPERTIES
  MergedIsFinal
CHECK_DEADLOCK FALSE
