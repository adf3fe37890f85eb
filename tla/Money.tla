------------------------------- MODULE Money -------------------------------
(* Whole centavos (money.ts): what a line and a quote are worth, and what  *)
(* is refused.  bigint amounts do not overflow.                            *)
EXTENDS Integers, FiniteSetsExt

\* computeLineTotalCentavos: a whole quantity of at least 1, nothing negative.
LineTotal(quantity, unitPrice, discount) == quantity * unitPrice - discount
\* Plausible bug: a discount larger than the line is worth goes through.
LineUnchecked(quantity, unitPrice, discount) == quantity >= 1 /\ unitPrice >= 0 /\ discount >= 0
LineAccepted(quantity, unitPrice, discount) ==
  quantity >= 1 /\ unitPrice >= 0 /\ discount >= 0 /\ LineTotal(quantity, unitPrice, discount) >= 0

\* computeQuoteTotals over a set of line rows.
Subtotal(rows) == MapThenSumSet(LAMBDA row : row.total, rows)
Total(rows, headerDiscount) == Subtotal(rows) - headerDiscount

TotalsAccepted(rows, headerDiscount) == headerDiscount >= 0 /\ Total(rows, headerDiscount) >= 0

\* The three money columns of a quote row.
TotalsOf(rows, headerDiscount) ==
  [subtotal |-> Subtotal(rows), discount |-> headerDiscount, total |-> Total(rows, headerDiscount)]
=============================================================================
