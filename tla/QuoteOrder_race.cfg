\* Two transactions at a time over two quotes, from an empty store.
CONSTANTS
  Quotes = {q1, q2}
  Calls = {c1, c2}
  Payloads <- SmallPayloads
  Discounts = {0, 2}
  NoQuote = NoQuote
  MaxCommands = 5
SPECIFICATION Spec
INVARIANTS
  TypeOK
  TotalsAgree
  NumbersDense
PROPERTIES
  LifecycleSpec
  EditsExact
CHECK_DEADLOCK FALSE
SYMMETRY Symmetric
