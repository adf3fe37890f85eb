\* Conversions and cancellations of two submitted quotes, three transactions at a time.
CONSTANTS
  Quotes = {q1, q2}
  Calls = {c1, c2, c3}
  Payloads <- SmallPayloads
  Discounts = {0, 2}
  NoQuote = NoQuote
  MaxCommands = 5
SPECIFICATION SpecFromSubmitted
INVARIANTS
  OrdersMatch
  NumbersDense
CHECK_DEADLOCK FALSE
SYMMETRY CallSymmetry
