---------------------------- MODULE MCQuoteOrder ----------------------------
(* QuoteOrder on a small instance.                                         *)
EXTENDS QuoteOrder, TLC

\* One line worth 1, one worth 4 after its discount, one that is refused.
SmallPayloads == {[quantity |-> 1, unitPrice |-> 1, discount |-> 0],
                  [quantity |-> 2, unitPrice |-> 3, discount |-> 2],
                  [quantity |-> 1, unitPrice |-> 1, discount |-> 2]}

\* Both quotes were created, given a line and submitted: three commands each.
QuoteAt == CHOOSE f \in [Quotes -> 1..Cardinality(Quotes)] : \A p, q \in Quotes : p # q => f[p] # f[q]
LineOf(q) == [id |-> QuoteAt[q], quote |-> q, number |-> 1, total |-> 4]
Submitted ==
  /\ status = [q \in Quotes |-> "submitted"]
  /\ quoteNumber = QuoteAt
  /\ lines = {LineOf(q) : q \in Quotes}
  /\ totals = [q \in Quotes |-> TotalsOf({LineOf(q)}, 0)]
  /\ version = [q \in Quotes |-> 2]
  /\ orders = {}
  /\ op = [c \in Calls |-> "CreateQuote"] /\ pc = [c \in Calls |-> "idle"]
  /\ on = [c \in Calls |-> NoQuote] /\ line = [c \in Calls |-> 0]
  /\ amount = [c \in Calls |-> 0] /\ read = [c \in Calls |-> Unread]
  /\ listed = [c \in Calls |-> {}] /\ number = [c \in Calls |-> 0]
  /\ lineIds = Cardinality(Quotes) /\ commands = 0

SpecFromSubmitted == Submitted /\ [][Next]_vars

CallSymmetry == Permutations(Calls)
Symmetric == CallSymmetry \union Permutations(Quotes)
=============================================================================
