----------------------------- MODULE QuoteOrder -----------------------------
(***************************************************************************)
(* Quotes, their lines and their orders (CommercialCommandService over     *)
(* PrismaOsCommercialStore).  Every command is one READ COMMITTED          *)
(* transaction: each statement reads what is committed when it runs, plus  *)
(* the transaction's own write; the quote row carries a version, and the   *)
(* last statement, an update where id and version match, decides between   *)
(* commit and CONFLICT.  The update, the event rows and the commit are one *)
(* step, Commit: from the update on the transaction holds the row's lock.  *)
(*                                                                         *)
(* One organization; its party and owner checks can only refuse a command, *)
(* and any refusal is Fail.                                                *)
(***************************************************************************)
EXTENDS Money, FiniteSets

CONSTANTS
  Quotes,       \* ids of quotes
  Calls,        \* concurrent transactions
  Payloads,     \* [quantity, unitPrice, discount] a line may be given
  Discounts,    \* header discounts
  NoQuote,      \* no quote
  MaxCommands   \* bound on commands started

ASSUME QuoteAssumption ==
  /\ IsFiniteSet(Quotes) /\ NoQuote \notin Quotes
  /\ Payloads \subseteq [quantity : Nat, unitPrice : Nat, discount : Nat]
  /\ Discounts \subseteq Nat
  /\ MaxCommands \in Nat

VARIABLES
  \* committed rows
  status,    \* status[q], "none" before the quote is created
  quoteNumber, \* quoteNumber[q]
  totals,    \* totals[q]: [subtotal, discount, total]
  version,   \* version[q]
  lines,     \* [id, quote, number, total]
  orders,    \* [number, quote, status, totals, version]
  \* each transaction
  op, pc,    \* its command and the next statement, "idle" between commands
  on,        \* the quote it is about
  line,      \* id of the line it is about
  amount,    \* line total or header discount asked for
  read,      \* what it keeps of the quote or order it read: [version, totals]
  listed,    \* the lines listQuoteLines returned
  number,    \* the number it computed (max + 1 or count + 1), or the order's
  \* bounds
  lineIds,   \* line ids handed out
  commands   \* commands started

quoteRows == <<status, quoteNumber, totals, version>>
rows == <<quoteRows, lines, orders>>
local == <<op, pc, on, line, amount, read, listed, number>>
bounds == <<lineIds, commands>>
vars == <<rows, local, bounds>>

LineEdits == {"AddQuoteLine", "UpdateQuoteLine", "RemoveQuoteLine"}
QuoteOps == {"CreateQuote", "AddQuoteLine", "UpdateQuote", "SubmitQuote", "CancelQuote", "CreateOrder"}
Ops == QuoteOps \union LineEdits \union {"CancelOrder"}
Statements == {"idle", "line", "quote", "order", "number", "write", "list", "count", "insert", "commit"}

Amounts == {LineTotal(p.quantity, p.unitPrice, p.discount) :
              p \in {x \in Payloads : LineAccepted(x.quantity, x.unitPrice, x.discount)}}

LinesOf(q) == {row \in lines : row.quote = q}
OrdersOf(q) == {o \in orders : o.quote = q}

Created == {q \in Quotes : status[q] # "none"}
Unread == [version |-> 0, totals |-> TotalsOf({}, 0)]

Init ==
  /\ status = [q \in Quotes |-> "none"]
  /\ quoteNumber = [q \in Quotes |-> 0]
  /\ totals = [q \in Quotes |-> TotalsOf({}, 0)]
  /\ version = [q \in Quotes |-> 0]
  /\ lines = {} /\ orders = {}
  /\ op = [c \in Calls |-> "CreateQuote"]
  /\ pc = [c \in Calls |-> "idle"]
  /\ on = [c \in Calls |-> NoQuote]
  /\ line = [c \in Calls |-> 0]
  /\ amount = [c \in Calls |-> 0]
  /\ read = [c \in Calls |-> Unread]
  /\ listed = [c \in Calls |-> {}]
  /\ number = [c \in Calls |-> 0]
  /\ lineIds = 0 /\ commands = 0

Goto(c, s) == pc' = [pc EXCEPT ![c] = s]

-----------------------------------------------------------------------------
(* A command arrives: its kind and its payload.                            *)

Begin(c, o, first) ==
  /\ pc[c] = "idle"
  /\ commands < MaxCommands
  /\ commands' = commands + 1
  /\ op' = [op EXCEPT ![c] = o]
  /\ Goto(c, first)
  /\ UNCHANGED <<rows, read, listed, number>>

First(o) == IF o = "CreateQuote" THEN "count" ELSE "quote"
Asked(o) == CASE o = "AddQuoteLine" -> Amounts [] o = "UpdateQuote" -> Discounts [] OTHER -> {0}

StartOnQuote(c) == \E o \in QuoteOps, q \in Quotes : \E a \in Asked(o) :
  /\ (o = "CreateQuote") <=> (q \notin Created)
  /\ o = "CreateQuote" => \A d \in Calls : op[d] = "CreateQuote" /\ pc[d] # "idle" => on[d] # q
  /\ Begin(c, o, First(o))
  /\ on' = [on EXCEPT ![c] = q]
  /\ amount' = [amount EXCEPT ![c] = a]
  /\ line' = [line EXCEPT ![c] = IF o = "AddQuoteLine" THEN lineIds + 1 ELSE 0]
  /\ lineIds' = lineIds + (IF o = "AddQuoteLine" THEN 1 ELSE 0)

StartOnLine(c) == \E o \in {"UpdateQuoteLine", "RemoveQuoteLine"}, row \in lines :
  \E a \in IF o = "UpdateQuoteLine" THEN Amounts ELSE {0} :
    /\ Begin(c, o, "line")
    /\ line' = [line EXCEPT ![c] = row.id]
    /\ amount' = [amount EXCEPT ![c] = a]
    /\ UNCHANGED <<on, lineIds>>

StartOnOrder(c) == \E o \in orders :
  /\ Begin(c, "CancelOrder", "order")
  /\ on' = [on EXCEPT ![c] = o.quote]
  /\ UNCHANGED <<line, amount, lineIds>>

-----------------------------------------------------------------------------
(* The statements.                                                         *)

\* getQuoteLineInOrg: the line names the quote.
ReadLine(c) ==
  /\ pc[c] = "line"
  /\ \E row \in lines : row.id = line[c] /\ on' = [on EXCEPT ![c] = row.quote]
  /\ Goto(c, "quote")
  /\ UNCHANGED <<rows, bounds, op, line, amount, read, listed, number>>

\* Plausible bug: requireDraftQuote lets a submitted quote through.
AllowedLoose(o) == CASE o = "CreateOrder" -> {"submitted"}
                     [] OTHER -> {"draft", "submitted"}
\* requireDraftQuote, and the checks of cancelQuote and createOrder.
Allowed(o) == CASE o = "CancelQuote" -> {"draft", "submitted"}
                [] o = "CreateOrder" -> {"submitted"}
                [] OTHER -> {"draft"}

AfterQuote(o) == CASE o = "AddQuoteLine" -> "number"
                   [] o \in {"UpdateQuoteLine", "RemoveQuoteLine"} -> "write"
                   [] o \in {"CancelQuote", "CreateOrder"} -> "order"
                   [] OTHER -> "list"

ReadQuote(c) ==
  /\ pc[c] = "quote"
  /\ status[on[c]] \in Allowed(op[c])
  /\ read' = [read EXCEPT ![c] = [version |-> version[on[c]], totals |-> totals[on[c]]]]
  /\ Goto(c, AfterQuote(op[c]))
  /\ UNCHANGED <<rows, bounds, op, on, line, amount, listed, number>>

\* getOrderForQuote or getOrderInOrg.
OrderPasses(o, found) ==
  CASE o = "CancelQuote" -> \A x \in found : x.status # "open"
    [] o = "CreateOrder" -> found = {}
    [] OTHER -> \E x \in found : x.status = "open"

ReadOrder(c) ==
  /\ pc[c] = "order"
  /\ OrderPasses(op[c], OrdersOf(on[c]))
  /\ IF op[c] = "CancelOrder"
     THEN \E x \in OrdersOf(on[c]) :
            /\ x.status = "open"
            /\ number' = [number EXCEPT ![c] = x.number]
            /\ read' = [read EXCEPT ![c] = [version |-> x.version, totals |-> x.totals]]
     ELSE UNCHANGED <<number, read>>
  /\ Goto(c, IF op[c] = "CreateOrder" THEN "list" ELSE "commit")
  /\ UNCHANGED <<rows, bounds, op, on, line, amount, listed>>

\* nextQuoteLineNumber: one more than the last line of the quote has.
ReadLineNumber(c) ==
  /\ pc[c] = "number"
  /\ \E n \in 1..(lineIds + 1) :
       /\ \A row \in LinesOf(on[c]) : row.number < n
       /\ n = 1 \/ \E row \in LinesOf(on[c]) : row.number = n - 1
       /\ number' = [number EXCEPT ![c] = n]
  /\ Goto(c, "write")
  /\ UNCHANGED <<rows, bounds, op, on, line, amount, read, listed>>

\* The row locks of another transaction's uncommitted line write.
LineLocked(c) == \E d \in Calls \ {c} :
  /\ pc[d] \in {"list", "commit"} /\ op[d] \in LineEdits
  /\ \/ line[d] = line[c]
     \/ op[c] = "AddQuoteLine" /\ op[d] = "AddQuoteLine" /\ on[d] = on[c] /\ number[d] = number[c]

\* insertQuoteLine needs a free (quote, number); update and delete need the row.
WriteLine(c) ==
  /\ pc[c] = "write"
  /\ ~LineLocked(c)
  /\ IF op[c] = "AddQuoteLine"
     THEN \A row \in LinesOf(on[c]) : row.number # number[c]
     ELSE \E row \in lines : row.id = line[c]
  /\ Goto(c, "list")
  /\ UNCHANGED <<rows, bounds, op, on, line, amount, read, listed, number>>

\* A set of line rows as the transaction's own write leaves it.
Written(c, set) ==
  CASE op[c] = "AddQuoteLine" ->
         set \union {[id |-> line[c], quote |-> on[c], number |-> number[c], total |-> amount[c]]}
    [] op[c] = "UpdateQuoteLine" ->
         {IF row.id = line[c] THEN [row EXCEPT !.total = amount[c]] ELSE row : row \in set}
    [] op[c] = "RemoveQuoteLine" -> {row \in set : row.id # line[c]}
    [] OTHER -> set

NeedsLines == {"SubmitQuote", "CreateOrder"}

ListLines(c) ==
  /\ pc[c] = "list"
  /\ listed' = [listed EXCEPT ![c] = Written(c, LinesOf(on[c]))]
  /\ op[c] \in NeedsLines => LinesOf(on[c]) # {}
  /\ Goto(c, IF op[c] = "CreateOrder" THEN "count" ELSE "commit")
  /\ UNCHANGED <<rows, bounds, op, on, line, amount, read, number>>

\* countQuotesForOrg and countOrdersForOrg.
Count(c) ==
  /\ pc[c] = "count"
  /\ number' = [number EXCEPT ![c] =
                  1 + IF op[c] = "CreateOrder" THEN Cardinality(orders) ELSE Cardinality(Created)]
  /\ Goto(c, "insert")
  /\ UNCHANGED <<rows, bounds, op, on, line, amount, read, listed>>

\* Plausible bug: no unique index on the numbers.
NumbersUnchecked(o) == {}
\* insertQuote and insertOrder: unique (organization, number).
NumbersTaken(o) == IF o = "CreateOrder" THEN {x.number : x \in orders} ELSE {quoteNumber[q] : q \in Created}
NumberHeld(c) == \E d \in Calls \ {c} : pc[d] = "commit" /\ op[d] = op[c] /\ number[d] = number[c]

Insert(c) ==
  /\ pc[c] = "insert"
  /\ number[c] \notin NumbersTaken(op[c])
  /\ ~NumberHeld(c)
  /\ Goto(c, "commit")
  /\ UNCHANGED <<rows, bounds, op, on, line, amount, read, listed, number>>

-----------------------------------------------------------------------------
(* The last statement and the commit.                                      *)

Reset(c) ==
  /\ Goto(c, "idle")
  /\ op' = [op EXCEPT ![c] = "CreateQuote"]
  /\ on' = [on EXCEPT ![c] = NoQuote]
  /\ line' = [line EXCEPT ![c] = 0]
  /\ amount' = [amount EXCEPT ![c] = 0]
  /\ read' = [read EXCEPT ![c] = Unread]
  /\ listed' = [listed EXCEPT ![c] = {}]
  /\ number' = [number EXCEPT ![c] = 0]

\* Plausible bug: the update forgets its version (where id alone).
VersionIgnored(c) == TRUE
\* updateQuote: only where the version is the one that was read.
VersionHolds(c) == version[on[c]] = read[c].version
\* Plausible bug: an update that leaves the version as it was.
BumpForgotten(c) == version
Bumped(c) == [version EXCEPT ![on[c]] = read[c].version + 1]

\* Plausible bug: an edit of a line forgets the header discount.
DiscountForgotten(c) == IF op[c] = "UpdateQuote" THEN amount[c] ELSE 0
\* The discount the totals are computed with.
DiscountOf(c) == IF op[c] = "UpdateQuote" THEN amount[c] ELSE read[c].totals.discount

CommitTotals(c) ==
  /\ op[c] \in LineEdits \union {"UpdateQuote"}
  /\ VersionHolds(c)
  /\ TotalsAccepted(listed[c], DiscountOf(c))
  /\ totals' = [totals EXCEPT ![on[c]] = TotalsOf(listed[c], DiscountOf(c))]
  /\ version' = Bumped(c)
  /\ lines' = Written(c, lines)
  /\ UNCHANGED <<status, quoteNumber, orders>>

CommitStatus(c) ==
  /\ op[c] \in {"SubmitQuote", "CancelQuote"}
  /\ VersionHolds(c)
  /\ status' = [status EXCEPT ![on[c]] = IF op[c] = "SubmitQuote" THEN "submitted" ELSE "cancelled"]
  /\ version' = Bumped(c)
  /\ UNCHANGED <<quoteNumber, totals, lines, orders>>

OrderRow(n, q, s, t, v) == [number |-> n, quote |-> q, status |-> s, totals |-> t, version |-> v]

CommitOrder(c) ==
  /\ op[c] = "CreateOrder"
  /\ VersionHolds(c)
  /\ orders' = orders \union {OrderRow(number[c], on[c], "open", read[c].totals, 0)}
  /\ status' = [status EXCEPT ![on[c]] = "accepted"]
  /\ version' = Bumped(c)
  /\ UNCHANGED <<quoteNumber, totals, lines>>

CommitQuote(c) ==
  /\ op[c] = "CreateQuote"
  /\ status' = [status EXCEPT ![on[c]] = "draft"]
  /\ quoteNumber' = [quoteNumber EXCEPT ![on[c]] = number[c]]
  /\ UNCHANGED <<totals, version, lines, orders>>

\* updateOrder: only where the version is the one that was read.
CommitOrderCancelled(c) ==
  /\ op[c] = "CancelOrder"
  /\ \E o \in orders :
       /\ o.number = number[c] /\ o.version = read[c].version
       /\ orders' = (orders \ {o}) \union {OrderRow(o.number, o.quote, "cancelled", o.totals, read[c].version + 1)}
  /\ UNCHANGED <<quoteRows, lines>>

Commit(c) ==
  /\ pc[c] = "commit"
  /\ CommitTotals(c) \/ CommitStatus(c) \/ CommitOrder(c) \/ CommitQuote(c) \/ CommitOrderCancelled(c)
  /\ Reset(c)
  /\ UNCHANGED bounds

\* Any throw, CONFLICT, refused authority, broken connection or crash: rollback.
Fail(c) ==
  /\ pc[c] # "idle"
  /\ Reset(c)
  /\ UNCHANGED <<rows, bounds>>

Step(c) ==
  \/ StartOnQuote(c) \/ StartOnLine(c) \/ StartOnOrder(c)
  \/ ReadLine(c) \/ ReadQuote(c) \/ ReadOrder(c) \/ ReadLineNumber(c)
  \/ WriteLine(c) \/ ListLines(c) \/ Count(c) \/ Insert(c)
  \/ Commit(c) \/ Fail(c)

Next == \E c \in Calls : Step(c)

Spec == Init /\ [][Next]_vars

-----------------------------------------------------------------------------
Stages == {"none", "draft", "submitted", "accepted", "cancelled"}

\* What the money columns hold is TotalsAgree's and OrdersMatch's business.
TypeOK ==
  /\ status \in [Quotes -> Stages]
  /\ quoteNumber \in [Quotes -> Nat]
  /\ DOMAIN totals = Quotes
  /\ version \in [Quotes -> Nat]
  /\ lines \subseteq [id : 1..lineIds, quote : Quotes, number : Nat, total : Nat]
  /\ IsFiniteSet(orders)
  /\ \A o \in orders : o.number \in Nat /\ o.quote \in Quotes /\ o.status \in {"open", "cancelled"} /\ o.version \in Nat
  /\ op \in [Calls -> Ops]
  /\ pc \in [Calls -> Statements]
  /\ on \in [Calls -> Quotes \union {NoQuote}]
  /\ line \in [Calls -> 0..lineIds]
  /\ amount \in [Calls -> Nat]
  /\ DOMAIN read = Calls
  /\ listed \in [Calls -> SUBSET [id : 1..lineIds, quote : Quotes, number : Nat, total : Nat]]
  /\ number \in [Calls -> Nat]
  /\ lineIds \in Nat /\ commands \in 0..MaxCommands

(* recalculateQuoteTotals lists the lines one statement before it updates   *)
(* the quote.  Whatever other commands commit in between, the money of a    *)
(* quote is the sum of the lines it has, less its discount, not negative.   *)
TotalsAgree == \A q \in Quotes :
  totals[q] = TotalsOf(LinesOf(q), totals[q].discount) /\ totals[q].total >= 0

(* createOrder checks the quote and looks for its order before it inserts,  *)
(* and no index forbids two orders of a quote: racing conversions, cancels  *)
(* and edits leave one order exactly for each accepted quote, with its      *)
(* money, and none for any other.                                           *)
OrdersMatch == \A q \in Quotes :
  /\ \A o, p \in OrdersOf(q) : o = p
  /\ \A o \in OrdersOf(q) : o.totals = totals[q]
  /\ OrdersOf(q) # {} <=> status[q] = "accepted"

(* Numbers are computed as count + 1 under a unique index, so one duplicate *)
(* or one gap would stop every later createQuote or createOrder: they are   *)
(* 1..count, each once.                                                     *)
NumbersDense ==
  /\ {quoteNumber[q] : q \in Created} = 1..Cardinality(Created)
  /\ {o.number : o \in orders} = 1..Cardinality(orders)

\* What the line c writes was worth, and what it is worth afterwards.
WorthBefore(c) == IF op[c] \in {"UpdateQuoteLine", "RemoveQuoteLine"}
                  THEN {row.total : row \in {r \in LinesOf(on[c]) : r.id = line[c]}} ELSE {0}
WorthAfter(c) == IF op[c] \in {"AddQuoteLine", "UpdateQuoteLine"} THEN amount[c] ELSE 0

EditMovesMoney(c) ==
  /\ WorthBefore(c) # {}
  /\ \A was \in WorthBefore(c) : totals'[on[c]].subtotal = totals[on[c]].subtotal - was + WorthAfter(c)
  /\ totals'[on[c]].discount = IF op[c] = "UpdateQuote" THEN amount[c] ELSE totals[on[c]].discount
  /\ totals'[on[c]].total = totals'[on[c]].subtotal - totals'[on[c]].discount

(* The totals are computed from what was listed and read earlier.  Yet an   *)
(* edit that commits moves the subtotal by what its own line is worth more  *)
(* or less, a discount changes the discount only: no edit takes in, undoes  *)
(* or forgets part of another.                                              *)
EditsExact == [][\A c \in Calls : Commit(c) /\ op[c] \in LineEdits \union {"UpdateQuote"} => EditMovesMoney(c)]_vars

Lifecycle == INSTANCE QuoteLifecycle WITH
  content <- [q \in Quotes |-> [lines |-> LinesOf(q), discount |-> totals[q].discount]],
  placed <- [q \in Quotes |-> {[worth |-> o.totals.total, status |-> o.status] : o \in OrdersOf(q)}]

(* Interleaved transactions over rows do what QuoteLifecycle does with a    *)
(* document: edits in draft only, content on submission, one order worth    *)
(* what was submitted.                                                      *)
LifecycleSpec == Lifecycle!Spec
=============================================================================
