-------------------------- MODULE QuoteOrderProofs --------------------------
(***************************************************************************)
(* Proofs about QuoteOrder, for any number of quotes, transactions and     *)
(* commands.  The argument is the one optimistic locking rests on: as long *)
(* as the version a transaction has read is the version of the quote, the  *)
(* quote, its status, its money and its lines are what the transaction has *)
(* read, because every commit that changes any of them raises the version. *)
(***************************************************************************)
EXTENDS QuoteOrder, FiniteSetTheorems, FunctionTheorems, WellFoundedInduction, TLAPS

Versioned == Ops \ {"CreateQuote", "CancelOrder"}
Creating(c) == op[c] = "CreateQuote" /\ pc[c] # "idle"
Adding(c) == op[c] = "AddQuoteLine" /\ pc[c] # "idle"
HasRead(c) == op[c] \in Versioned /\ pc[c] \notin {"idle", "line", "quote"}
HasListed(c) == op[c] \in Versioned \ {"CancelQuote"} /\ pc[c] \in {"count", "insert", "commit"}

\* Where a command may stand.
Placed(c) ==
  /\ pc[c] \notin {"idle", "line"} => on[c] \in Quotes
  /\ pc[c] = "line" => op[c] \in {"UpdateQuoteLine", "RemoveQuoteLine"}
  /\ pc[c] = "order" => op[c] \in {"CancelQuote", "CreateOrder", "CancelOrder"}
  /\ pc[c] \in {"count", "insert"} => op[c] \in {"CreateQuote", "CreateOrder"}
  /\ op[c] = "CancelOrder" => pc[c] \in {"order", "commit"}
  /\ op[c] = "CreateQuote" => pc[c] \in {"idle", "count", "insert", "commit"}

\* The quote a command creates is not there yet; one it has read is.
Existing(c) ==
  /\ Creating(c) => status[on[c]] = "none"
  /\ HasRead(c) => status[on[c]] # "none"

\* Version unchanged: the quote is as it was read, and as its lines were listed.
Fresh(c) ==
  /\ HasRead(c) =>
       /\ read[c].version \in Nat
       /\ read[c].version <= version[on[c]]
       /\ VersionHolds(c) => read[c].totals = totals[on[c]] /\ status[on[c]] \in Allowed(op[c])
  /\ HasListed(c) /\ VersionHolds(c) =>
       /\ listed[c] = Written(c, LinesOf(on[c]))
       /\ op[c] \in NeedsLines => LinesOf(on[c]) # {}

\* The line a command writes belongs to its quote, a new one to nobody.
OwnLine(c) ==
  /\ Adding(c) => line[c] >= 1 /\ \A row \in lines : row.id # line[c]
  /\ op[c] \in {"UpdateQuoteLine", "RemoveQuoteLine"} /\ pc[c] \notin {"idle", "line"} =>
       \A row \in lines : row.id = line[c] => row.quote = on[c]

\* The order a command cancels was open when it read it.
OwnOrder(c) == op[c] = "CancelOrder" /\ pc[c] = "commit" => read[c].version = 0

CallOK(c) == Placed(c) /\ Existing(c) /\ Fresh(c) /\ OwnLine(c) /\ OwnOrder(c)

Apart == \A c, d \in Calls : c # d =>
  /\ Creating(c) /\ Creating(d) => on[c] # on[d]
  /\ Adding(c) => line[c] # line[d]

RowIds == \A r, s \in lines : r.id = s.id => r.quote = s.quote
OrderVersions == \A o \in orders : o.status = "open" <=> o.version = 0

IInv ==
  /\ TypeOK /\ TotalsAgree /\ OrdersMatch
  /\ RowIds /\ OrderVersions /\ Apart
  /\ \A c \in Calls : CallOK(c)

-----------------------------------------------------------------------------
(* Types.                                                                  *)

LEMMA AmountsNat == Amounts \subseteq Nat
<1> SUFFICES ASSUME NEW p \in Payloads, LineAccepted(p.quantity, p.unitPrice, p.discount)
             PROVE  LineTotal(p.quantity, p.unitPrice, p.discount) \in Nat
  BY DEF Amounts
<1>1. p.quantity \in Nat /\ p.unitPrice \in Nat /\ p.discount \in Nat
  BY QuoteAssumption
<1> DEFINE gross == p.quantity * p.unitPrice
<1>2. gross \in Int
  BY <1>1
<1>3. LineTotal(p.quantity, p.unitPrice, p.discount) = gross - p.discount
  BY DEF LineTotal
<1>4. gross - p.discount >= 0
  BY <1>3 DEF LineAccepted
<1> HIDE DEF gross
<1> QED BY <1>1, <1>2, <1>3, <1>4

LEMMA CreatedFinite == Cardinality(Created) \in Nat
  BY QuoteAssumption, FS_Subset, FS_CardinalityType DEF Created

LEMMA ResetTypes ==
  ASSUME TypeOK, NEW c \in Calls, Reset(c), UNCHANGED bounds
  PROVE  /\ op' \in [Calls -> Ops] /\ pc' \in [Calls -> Statements]
         /\ on' \in [Calls -> Quotes \union {NoQuote}]
         /\ line' \in [Calls -> 0..lineIds']
         /\ amount' \in [Calls -> Nat] /\ number' \in [Calls -> Nat]
         /\ DOMAIN read' = Calls
         /\ listed' \in [Calls -> SUBSET [id : 1..lineIds', quote : Quotes, number : Nat, total : Nat]]
         /\ lineIds' \in Nat /\ commands' \in 0..MaxCommands
  BY DEF TypeOK, Reset, Goto, Ops, QuoteOps, Statements, bounds

(* The rows a transaction's own write leaves are rows. *)
LEMMA WrittenTypes ==
  ASSUME TypeOK, NEW c \in Calls, on[c] \in Quotes,
         op[c] = "AddQuoteLine" => line[c] >= 1,
         NEW set \in SUBSET [id : 1..lineIds, quote : Quotes, number : Nat, total : Nat]
  PROVE  Written(c, set) \subseteq [id : 1..lineIds, quote : Quotes, number : Nat, total : Nat]
<1>1. CASE op[c] = "AddQuoteLine"
  <2>1. [id |-> line[c], quote |-> on[c], number |-> number[c], total |-> amount[c]]
          \in [id : 1..lineIds, quote : Quotes, number : Nat, total : Nat]
    BY <1>1 DEF TypeOK
  <2> QED BY <1>1, <2>1 DEF Written
<1>2. CASE op[c] = "UpdateQuoteLine"
  <2>1. \A row \in set : [row EXCEPT !.total = amount[c]] \in [id : 1..lineIds, quote : Quotes, number : Nat, total : Nat]
    BY DEF TypeOK
  <2> QED BY <1>2, <2>1 DEF Written
<1>3. CASE op[c] \notin {"AddQuoteLine", "UpdateQuoteLine"}
  BY <1>3 DEF Written
<1> QED BY <1>1, <1>2, <1>3

LineSet == [id : 1..lineIds, quote : Quotes, number : Nat, total : Nat]

(* Types of a transaction's own variables, and of the line ids. *)
LocalTypes ==
  /\ op \in [Calls -> Ops] /\ pc \in [Calls -> Statements]
  /\ on \in [Calls -> Quotes \union {NoQuote}]
  /\ line \in [Calls -> 0..lineIds]
  /\ amount \in [Calls -> Nat] /\ number \in [Calls -> Nat]
  /\ DOMAIN read = Calls
  /\ listed \in [Calls -> SUBSET LineSet]
  /\ lineIds \in Nat /\ commands \in 0..MaxCommands

RowTypes ==
  /\ status \in [Quotes -> Stages]
  /\ quoteNumber \in [Quotes -> Nat]
  /\ DOMAIN totals = Quotes
  /\ version \in [Quotes -> Nat]
  /\ lines \subseteq LineSet
  /\ IsFiniteSet(orders)
  /\ \A o \in orders : o.number \in Nat /\ o.quote \in Quotes /\ o.status \in {"open", "cancelled"} /\ o.version \in Nat

LEMMA TypesSplit == TypeOK <=> LocalTypes /\ RowTypes
  BY DEF TypeOK, LocalTypes, RowTypes, LineSet

LEMMA TypesJoin == ASSUME LocalTypes', RowTypes' PROVE TypeOK'
  BY DEF TypeOK, LocalTypes, RowTypes, LineSet

LEMMA StartTypes ==
  ASSUME TypeOK, NEW c \in Calls, StartOnQuote(c) \/ StartOnLine(c) \/ StartOnOrder(c)
  PROVE  TypeOK'
<1> USE DEF TypeOK
<1>1. UNCHANGED <<rows, read, listed, number>> /\ commands' \in 0..MaxCommands
  BY QuoteAssumption DEF StartOnQuote, StartOnLine, StartOnOrder, Begin
<1>2. pc' \in [Calls -> Statements] /\ op' \in [Calls -> Ops]
  <2>1. CASE StartOnQuote(c)
    BY <2>1 DEF StartOnQuote, Begin, First, Goto, Statements, Ops
  <2>2. CASE StartOnLine(c) \/ StartOnOrder(c)
    BY <2>2 DEF StartOnLine, StartOnOrder, Begin, Goto, Statements, Ops, QuoteOps, LineEdits
  <2> QED BY <2>1, <2>2
<1>3. on' \in [Calls -> Quotes \union {NoQuote}]
  BY DEF StartOnQuote, StartOnLine, StartOnOrder
<1>4. lineIds' \in Nat /\ lineIds <= lineIds'
  BY DEF StartOnQuote, StartOnLine, StartOnOrder
<1>5. line' \in [Calls -> 0..lineIds']
  BY <1>4 DEF StartOnQuote, StartOnLine, StartOnOrder
<1>6. amount' \in [Calls -> Nat]
  <2>1. \A o : Asked(o) \subseteq Nat
    BY AmountsNat, QuoteAssumption DEF Asked
  <2>2. CASE StartOnQuote(c)
    BY <2>1, <2>2 DEF StartOnQuote
  <2>3. CASE StartOnLine(c)
    BY AmountsNat, <2>3 DEF StartOnLine
  <2>4. CASE StartOnOrder(c)
    BY <2>4 DEF StartOnOrder
  <2> QED BY <2>2, <2>3, <2>4
<1>7. [id : 1..lineIds, quote : Quotes, number : Nat, total : Nat]
        \subseteq [id : 1..lineIds', quote : Quotes, number : Nat, total : Nat]
  BY <1>4
<1>8. lines' \subseteq [id : 1..lineIds', quote : Quotes, number : Nat, total : Nat]
  BY <1>1, <1>7 DEF rows
<1>9. listed' \in [Calls -> SUBSET [id : 1..lineIds', quote : Quotes, number : Nat, total : Nat]]
  BY <1>1, <1>7
<1>10. LocalTypes'
  BY <1>1, <1>2, <1>3, <1>4, <1>5, <1>6, <1>9 DEF LocalTypes, LineSet
<1>11. RowTypes'
  BY <1>1, <1>8 DEF RowTypes, LineSet, rows, quoteRows
<1> QED BY <1>10, <1>11, TypesJoin

Statement(c) ==
  \/ ReadLine(c) \/ ReadQuote(c) \/ ReadOrder(c) \/ ReadLineNumber(c)
  \/ WriteLine(c) \/ ListLines(c) \/ Count(c) \/ Insert(c)

LEMMA StatementTypes ==
  ASSUME TypeOK, NEW c \in Calls, CallOK(c), Statement(c)
  PROVE  TypeOK'
<1> USE DEF TypeOK
<1>1. UNCHANGED <<rows, bounds, op, line, amount>>
  BY DEF Statement, ReadLine, ReadQuote, ReadOrder, ReadLineNumber, WriteLine, ListLines, Count, Insert
<1>2. pc' \in [Calls -> Statements]
  BY DEF Statement, ReadLine, ReadQuote, ReadOrder, ReadLineNumber, WriteLine, ListLines, Count, Insert,
         Goto, AfterQuote, Statements
<1>3. on' \in [Calls -> Quotes \union {NoQuote}]
  BY DEF Statement, ReadLine, ReadQuote, ReadOrder, ReadLineNumber, WriteLine, ListLines, Count, Insert
<1>4. DOMAIN read' = Calls
  BY DEF Statement, ReadLine, ReadQuote, ReadOrder, ReadLineNumber, WriteLine, ListLines, Count, Insert
<1>5. number' \in [Calls -> Nat]
  <2>1. CASE Count(c)
    <3>1. Cardinality(orders) \in Nat
      BY FS_CardinalityType
    <3> QED BY <2>1, <3>1, CreatedFinite DEF Count
  <2>2. CASE ReadOrder(c)
    BY <2>2 DEF ReadOrder, OrdersOf
  <2>3. CASE ReadLineNumber(c)
    BY <2>3 DEF ReadLineNumber
  <2>4. CASE UNCHANGED number
    BY <2>4
  <2> QED BY <2>1, <2>2, <2>3, <2>4 DEF Statement, ReadLine, ReadQuote, WriteLine, ListLines, Insert
<1>6. listed' \in [Calls -> SUBSET [id : 1..lineIds, quote : Quotes, number : Nat, total : Nat]]
  <2>1. CASE ListLines(c)
    <3>1. on[c] \in Quotes /\ (op[c] = "AddQuoteLine" => line[c] >= 1)
      BY <2>1 DEF ListLines, CallOK, Placed, OwnLine, Adding
    <3>2. LinesOf(on[c]) \in SUBSET [id : 1..lineIds, quote : Quotes, number : Nat, total : Nat]
      BY DEF LinesOf
    <3> QED BY <2>1, <3>1, <3>2, WrittenTypes DEF ListLines
  <2>2. CASE UNCHANGED listed
    BY <2>2
  <2> QED BY <2>1, <2>2 DEF Statement, ReadLine, ReadQuote, ReadOrder, ReadLineNumber, WriteLine, Count, Insert
<1> QED BY <1>1, <1>2, <1>3, <1>4, <1>5, <1>6 DEF rows, quoteRows, bounds

LEMMA CommitTypes ==
  ASSUME TypeOK, NEW c \in Calls, CallOK(c), Commit(c)
  PROVE  TypeOK'
<1>0. LocalTypes /\ RowTypes
  BY TypesSplit
<1> USE <1>0 DEF RowTypes, LineSet
<1>1. pc[c] = "commit" /\ Reset(c) /\ UNCHANGED bounds /\ lineIds' = lineIds
  BY DEF Commit, bounds
<1>2. on[c] \in Quotes
  BY <1>1 DEF CallOK, Placed
<1>3. LocalTypes'
  BY <1>1, ResetTypes DEF LocalTypes, LineSet
<1>4. CASE CommitTotals(c)
  <2>1. read[c].version \in Nat
    BY <1>1, <1>4 DEF CommitTotals, CallOK, Fresh, HasRead, Versioned, LineEdits, Ops, QuoteOps
  <2>2. op[c] = "AddQuoteLine" => line[c] >= 1
    BY <1>1 DEF CallOK, OwnLine, Adding
  <2>3. lines' \subseteq [id : 1..lineIds, quote : Quotes, number : Nat, total : Nat]
    <3>1. lines \in SUBSET [id : 1..lineIds, quote : Quotes, number : Nat, total : Nat]
      OBVIOUS
    <3>2. Written(c, lines) \subseteq [id : 1..lineIds, quote : Quotes, number : Nat, total : Nat]
      BY ONLY TypeOK, c \in Calls, <1>2, <2>2, <3>1, WrittenTypes
    <3> QED BY <1>4, <3>2 DEF CommitTotals
  <2>4. version' \in [Quotes -> Nat]
    BY <1>2, <1>4, <2>1 DEF CommitTotals, Bumped
  <2> QED BY <1>1, <1>3, <1>4, <2>3, <2>4, TypesJoin DEF CommitTotals, RowTypes, LineSet
<1>5. CASE CommitStatus(c)
  <2>1. read[c].version \in Nat
    BY <1>1, <1>5 DEF CommitStatus, CallOK, Fresh, HasRead, Versioned, Ops, QuoteOps
  <2>2. version' \in [Quotes -> Nat] /\ status' \in [Quotes -> Stages]
    BY <1>2, <1>5, <2>1 DEF CommitStatus, Bumped, Stages
  <2> QED BY <1>1, <1>3, <1>5, <2>2, TypesJoin DEF CommitStatus, RowTypes, LineSet
<1>6. CASE CommitOrder(c)
  <2>1. read[c].version \in Nat
    BY <1>1, <1>6 DEF CommitOrder, CallOK, Fresh, HasRead, Versioned, Ops, QuoteOps
  <2>2. version' \in [Quotes -> Nat] /\ status' \in [Quotes -> Stages]
    BY <1>2, <1>6, <2>1 DEF CommitOrder, Bumped, Stages
  <2>3. IsFiniteSet(orders')
    BY <1>6, FS_AddElement DEF CommitOrder
  <2>4. \A o \in orders' : o.number \in Nat /\ o.quote \in Quotes /\ o.status \in {"open", "cancelled"} /\ o.version \in Nat
    BY <1>0, <1>2, <1>6 DEF CommitOrder, OrderRow, LocalTypes
  <2> QED BY <1>1, <1>3, <1>6, <2>2, <2>3, <2>4, TypesJoin DEF CommitOrder, RowTypes, LineSet
<1>7. CASE CommitQuote(c)
  <2>1. status' \in [Quotes -> Stages] /\ quoteNumber' \in [Quotes -> Nat]
    BY <1>0, <1>2, <1>7 DEF CommitQuote, Stages, LocalTypes
  <2> QED BY <1>1, <1>3, <1>7, <2>1, TypesJoin DEF CommitQuote, RowTypes, LineSet
<1>8. CASE CommitOrderCancelled(c)
  <2>1. PICK o \in orders : /\ o.version = read[c].version
                            /\ orders' = (orders \ {o}) \union {OrderRow(o.number, o.quote, "cancelled", o.totals, read[c].version + 1)}
    BY <1>8 DEF CommitOrderCancelled
  <2>2. IsFiniteSet(orders')
    BY <2>1, FS_AddElement, FS_RemoveElement
  <2>3. \A x \in orders' : x.number \in Nat /\ x.quote \in Quotes /\ x.status \in {"open", "cancelled"} /\ x.version \in Nat
    BY <2>1 DEF OrderRow
  <2> QED BY <1>1, <1>3, <1>8, <2>2, <2>3, TypesJoin DEF CommitOrderCancelled, RowTypes, LineSet, quoteRows
<1> QED BY <1>4, <1>5, <1>6, <1>7, <1>8 DEF Commit

LEMMA FailTypes ==
  ASSUME TypeOK, NEW c \in Calls, Fail(c)
  PROVE  TypeOK'
<1>1. LocalTypes'
  BY ResetTypes DEF Fail, LocalTypes, LineSet
<1>2. RowTypes'
  BY DEF Fail, TypeOK, RowTypes, LineSet, rows, quoteRows, bounds
<1> QED BY <1>1, <1>2, TypesJoin

LEMMA TypesStep ==
  ASSUME IInv, [Next]_vars
  PROVE  TypeOK'
<1>1. ASSUME NEW c \in Calls, Step(c) PROVE TypeOK'
  BY <1>1, StartTypes, StatementTypes, CommitTypes, FailTypes DEF Step, Statement, IInv
<1>2. CASE UNCHANGED vars
  BY <1>2 DEF vars, rows, quoteRows, local, bounds, IInv, TypeOK
<1> QED BY <1>1, <1>2 DEF Next

-----------------------------------------------------------------------------
(* A step of c and the rows: versions only grow, and a quote whose version  *)
(* stays where it was keeps its status, its money and its lines.            *)
RowsMove(c) ==
  /\ \A q \in Quotes : version[q] <= version'[q]
  /\ \A q \in Quotes : status[q] # "none" => status'[q] # "none"
  /\ \A q \in Quotes : status[q] = "none" /\ status'[q] # "none" => Creating(c) /\ q = on[c]
  /\ \A q \in Quotes : status[q] # "none" /\ version'[q] = version[q] =>
       status'[q] = status[q] /\ totals'[q] = totals[q] /\ LinesOf(q)' = LinesOf(q)
  /\ \A row \in lines' :
       \/ \E old \in lines : old.id = row.id /\ old.quote = row.quote
       \/ Adding(c) /\ row.id = line[c]

LocalSame(d) ==
  /\ op'[d] = op[d] /\ pc'[d] = pc[d] /\ on'[d] = on[d] /\ line'[d] = line[d]
  /\ amount'[d] = amount[d] /\ read'[d] = read[d] /\ listed'[d] = listed[d] /\ number'[d] = number[d]

LEMMA QuietRows == ASSUME TypeOK, NEW c \in Calls, UNCHANGED rows PROVE RowsMove(c)
  BY DEF RowsMove, rows, quoteRows, TypeOK, LinesOf

(* What c does leaves what d relies on: if it touched d's quote, the version *)
(* d has read is no longer the quote's.                                      *)
LEMMA OtherCall ==
  ASSUME IInv, TypeOK', NEW c \in Calls, NEW d \in Calls, c # d, RowsMove(c), LocalSame(d)
  PROVE  CallOK(d)'
<1>0. CallOK(d) /\ TypeOK
  BY DEF IInv
<1>1. Placed(d)'
  BY <1>0 DEF CallOK, Placed, LocalSame
<1>2. Existing(d)'
  <2>1. ASSUME Creating(d) PROVE status'[on[d]] = "none"
    <3>1. on[d] \in Quotes /\ status[on[d]] = "none"
      BY <1>0, <2>1 DEF CallOK, Placed, Existing, Creating
    <3>2. ~(Creating(c) /\ on[d] = on[c])
      BY <2>1 DEF IInv, Apart
    <3> QED BY <3>1, <3>2 DEF RowsMove
  <2>2. ASSUME HasRead(d) PROVE status'[on[d]] # "none"
    <3>1. on[d] \in Quotes /\ status[on[d]] # "none"
      BY <1>0, <2>2 DEF CallOK, Placed, Existing, HasRead
    <3> QED BY <3>1 DEF RowsMove
  <2> QED BY <2>1, <2>2 DEF Existing, Creating, HasRead, LocalSame
<1>3. Fresh(d)'
  <2>1. ASSUME HasRead(d) PROVE
          /\ on[d] \in Quotes /\ status[on[d]] # "none"
          /\ read[d].version \in Nat /\ version[on[d]] \in Nat /\ version'[on[d]] \in Nat
          /\ read[d].version <= version[on[d]] /\ version[on[d]] <= version'[on[d]]
    BY <1>0, <2>1 DEF CallOK, Placed, Existing, Fresh, HasRead, RowsMove, TypeOK
  <2>2. HasRead(d)' => HasRead(d)
    BY DEF HasRead, LocalSame
  <2>3. HasListed(d)' => HasListed(d) /\ HasRead(d)
    BY DEF HasListed, HasRead, LocalSame
  <2>4. ASSUME HasRead(d), VersionHolds(d)'
        PROVE  /\ VersionHolds(d)
               /\ status'[on[d]] = status[on[d]] /\ totals'[on[d]] = totals[on[d]]
               /\ LinesOf(on[d])' = LinesOf(on[d])
    <3>1. read[d].version = version[on[d]] /\ version'[on[d]] = version[on[d]]
      BY <2>1, <2>4 DEF VersionHolds, LocalSame
    <3>2. {row \in lines' : row.quote = on[d]} = LinesOf(on[d])
      BY <2>1, <2>4, <3>1 DEF RowsMove, LinesOf
    <3> QED BY <2>1, <2>4, <3>1, <3>2 DEF VersionHolds, RowsMove, LocalSame, LinesOf
  <2>5. ASSUME HasRead(d)', VersionHolds(d)'
        PROVE  read'[d].totals = totals'[on'[d]] /\ status'[on'[d]] \in Allowed(op'[d])
    BY <1>0, <2>2, <2>4, <2>5 DEF CallOK, Fresh, LocalSame
  <2>6. ASSUME HasListed(d)', VersionHolds(d)'
        PROVE  /\ listed'[d] = Written(d, LinesOf(on[d]))'
               /\ op'[d] \in NeedsLines => LinesOf(on[d])' # {}
    <3>1. HasListed(d) /\ VersionHolds(d) /\ LinesOf(on[d])' = LinesOf(on[d])
      BY <2>3, <2>4, <2>6
    <3>2. Written(d, LinesOf(on[d]))' = Written(d, LinesOf(on[d]))
      BY <3>1 DEF Written, LocalSame
    <3> QED BY <1>0, <3>1, <3>2 DEF CallOK, Fresh, LocalSame
  <2>7. HasRead(d)' => read'[d].version \in Nat /\ read'[d].version <= version'[on'[d]]
    BY <2>1, <2>2 DEF LocalSame
  <2> QED BY <2>5, <2>6, <2>7 DEF Fresh
<1>4. OwnLine(d)'
  <2>1. Adding(c) => line[c] # line[d]
    BY DEF IInv, Apart
  <2> QED BY <1>0, <2>1 DEF CallOK, OwnLine, Adding, RowsMove, LocalSame
<1>5. OwnOrder(d)'
  BY <1>0 DEF CallOK, OwnOrder, LocalSame
<1> QED BY <1>1, <1>2, <1>3, <1>4, <1>5 DEF CallOK

-----------------------------------------------------------------------------
(* What a commit does to the rows.                                         *)

(* Listing a quote's lines and then writing, or writing and then listing,   *)
(* is the same; the other quotes' lines are not touched.                    *)
LEMMA WrittenLines ==
  ASSUME TypeOK, NEW c \in Calls, CallOK(c), pc[c] = "commit", lines' = Written(c, lines),
         op[c] \in LineEdits \union {"UpdateQuote"}
  PROVE  /\ \A q \in Quotes : q = on[c] => LinesOf(q)' = Written(c, LinesOf(q))
         /\ \A q \in Quotes \ {on[c]} : LinesOf(q)' = LinesOf(q)
         /\ \A row \in lines' : \/ \E old \in lines : old.id = row.id /\ old.quote = row.quote
                                \/ Adding(c) /\ row.id = line[c] /\ row.quote = on[c]
<1> DEFINE new == [id |-> line[c], quote |-> on[c], number |-> number[c], total |-> amount[c]]
           up(row) == IF row.id = line[c] THEN [row EXCEPT !.total = amount[c]] ELSE row
           here(set) == {row \in set : row.quote = on[c]}
<1>1. \A row \in lines : up(row).id = row.id /\ up(row).quote = row.quote
  BY DEF TypeOK
<1>2. op[c] \in {"UpdateQuoteLine", "RemoveQuoteLine"} => \A row \in lines : row.id = line[c] => row.quote = on[c]
  BY DEF CallOK, OwnLine
<1>3. /\ here(lines') = Written(c, here(lines))
      /\ \A q \in Quotes \ {on[c]} : {row \in lines' : row.quote = q} = LinesOf(q)
      /\ \A row \in lines' : \/ \E old \in lines : old.id = row.id /\ old.quote = row.quote
                             \/ Adding(c) /\ row.id = line[c] /\ row.quote = on[c]
  <2>1. CASE op[c] = "AddQuoteLine"
    <3>1. lines' = lines \union {new} /\ Written(c, here(lines)) = here(lines) \union {new} /\ Adding(c)
      BY <2>1 DEF Written, Adding
    <3>2. new.quote = on[c] /\ new.id = line[c]
      OBVIOUS
    <3> HIDE DEF new
    <3> QED BY <3>1, <3>2 DEF LinesOf
  <2>2. CASE op[c] = "UpdateQuoteLine"
    <3>1. lines' = {up(row) : row \in lines} /\ Written(c, here(lines)) = {up(row) : row \in here(lines)}
      BY <2>2 DEF Written
    <3>2. \A row \in lines : row.quote # on[c] => up(row) = row
      BY <1>2, <2>2
    <3> HIDE DEF up
    <3>3. here(lines') = {up(row) : row \in here(lines)}
      BY <1>1, <3>1
    <3>4. \A q \in Quotes \ {on[c]} : {row \in lines' : row.quote = q} = LinesOf(q)
      <4> SUFFICES ASSUME NEW q \in Quotes, q # on[c] PROVE {row \in lines' : row.quote = q} = {row \in lines : row.quote = q}
        BY DEF LinesOf
      <4>1. ASSUME NEW row \in lines, row.quote = q PROVE row \in lines'
        <5>1. up(row) = row
          BY <3>2, <4>1
        <5> QED BY <3>1, <5>1
      <4>2. ASSUME NEW row \in lines', row.quote = q PROVE row \in lines
        <5>1. PICK old \in lines : row = up(old)
          BY <3>1
        <5>2. old.quote = q
          BY <1>1, <4>2, <5>1
        <5> QED BY <3>2, <5>1, <5>2
      <4> QED BY <4>1, <4>2
    <3>5. \A row \in lines' : \E old \in lines : old.id = row.id /\ old.quote = row.quote
      BY <1>1, <3>1
    <3> QED BY <3>1, <3>3, <3>4, <3>5
  <2>3. CASE op[c] = "RemoveQuoteLine"
    <3>1. lines' = {row \in lines : row.id # line[c]} /\ Written(c, here(lines)) = {row \in here(lines) : row.id # line[c]}
      BY <2>3 DEF Written
    <3> QED BY <1>2, <2>3, <3>1 DEF LinesOf
  <2>4. CASE op[c] = "UpdateQuote"
    <3>1. lines' = lines /\ Written(c, here(lines)) = here(lines)
      BY <2>4 DEF Written
    <3> QED BY <3>1 DEF LinesOf
  <2> QED BY <2>1, <2>2, <2>3, <2>4 DEF LineEdits
<1>4. here(lines) = LinesOf(on[c])
  BY DEF LinesOf
<1>5. \A q \in Quotes : q = on[c] => LinesOf(q)' = Written(c, LinesOf(q))
  <2> SUFFICES ASSUME NEW q \in Quotes, q = on[c] PROVE LinesOf(q)' = Written(c, LinesOf(on[c]))
    OBVIOUS
  <2>1. LinesOf(q)' = here(lines')
    BY DEF LinesOf
  <2> QED BY <1>3, <1>4, <2>1
<1> QED BY <1>3, <1>5 DEF LinesOf


(* A commit checks the version it has read: what it relies on still holds. *)
LEMMA CommitRelies ==
  ASSUME IInv, NEW c \in Calls, pc[c] = "commit", op[c] \in Versioned, VersionHolds(c)
  PROVE  /\ on[c] \in Quotes /\ status[on[c]] \in Allowed(op[c]) /\ status[on[c]] # "none"
         /\ read[c].totals = totals[on[c]]
         /\ version[on[c]] \in Nat /\ Bumped(c) = [version EXCEPT ![on[c]] = version[on[c]] + 1]
         /\ op[c] # "CancelQuote" =>
              /\ listed[c] = Written(c, LinesOf(on[c]))
              /\ op[c] \in NeedsLines => LinesOf(on[c]) # {}
<1>1. CallOK(c) /\ TypeOK
  BY DEF IInv
<1>2. HasRead(c) /\ (op[c] # "CancelQuote" => HasListed(c))
  BY DEF HasRead, HasListed
<1>3. on[c] \in Quotes
  BY <1>1 DEF CallOK, Placed
<1> QED BY <1>1, <1>2, <1>3 DEF CallOK, Existing, Fresh, TypeOK, VersionHolds, Bumped

LEMMA CommitRows ==
  ASSUME IInv, NEW c \in Calls, Commit(c)
  PROVE  RowsMove(c) /\ RowIds'
<1>0. pc[c] = "commit" /\ CallOK(c) /\ TypeOK /\ RowIds /\ on[c] \in Quotes
  BY DEF Commit, IInv, CallOK, Placed
<1>1. CASE CommitTotals(c)
  <2>1. op[c] \in Versioned
    BY <1>1 DEF CommitTotals, Versioned, LineEdits, Ops, QuoteOps
  <2>2. /\ status' = status /\ version' = [version EXCEPT ![on[c]] = version[on[c]] + 1]
        /\ totals' = [totals EXCEPT ![on[c]] = TotalsOf(listed[c], DiscountOf(c))]
        /\ version[on[c]] \in Nat
    BY <1>0, <1>1, <2>1, CommitRelies DEF CommitTotals
  <2>3. /\ \A q \in Quotes \ {on[c]} : LinesOf(q)' = LinesOf(q)
        /\ \A row \in lines' : \/ \E old \in lines : old.id = row.id /\ old.quote = row.quote
                               \/ Adding(c) /\ row.id = line[c] /\ row.quote = on[c]
    BY <1>0, <1>1, WrittenLines DEF CommitTotals
  <2>4. \A q \in Quotes : version[q] <= version'[q] /\ (version'[q] = version[q] => q # on[c])
    BY <1>0, <2>2 DEF TypeOK
  <2>5. RowsMove(c)
    <3>1. \A q \in Quotes \ {on[c]} : totals'[q] = totals[q]
      BY <1>0, <2>2 DEF TypeOK
    <3> QED BY <2>2, <2>3, <2>4, <3>1 DEF RowsMove
  <2>6. RowIds'
    <3> SUFFICES ASSUME NEW r \in lines', NEW s \in lines', r.id = s.id PROVE r.quote = s.quote
      BY DEF RowIds
    <3>1. Adding(c) => \A row \in lines : row.id # line[c]
      BY <1>0 DEF CallOK, OwnLine
    <3> QED BY <1>0, <2>3, <3>1 DEF RowIds
  <2> QED BY <2>5, <2>6
<1>2. CASE CommitStatus(c) \/ CommitOrder(c)
  <2>1. op[c] \in Versioned /\ VersionHolds(c)
    BY <1>2 DEF CommitStatus, CommitOrder, Versioned, LineEdits, Ops, QuoteOps
  <2>2. /\ version' = [version EXCEPT ![on[c]] = version[on[c]] + 1]
        /\ version[on[c]] \in Nat /\ status[on[c]] # "none"
        /\ lines' = lines /\ totals' = totals
    BY <1>0, <1>2, <2>1, CommitRelies DEF CommitStatus, CommitOrder
  <2>3. \E s \in Stages \ {"none"} : status' = [status EXCEPT ![on[c]] = s]
    BY <1>2 DEF CommitStatus, CommitOrder, Stages
  <2>4. \A q \in Quotes : version[q] <= version'[q] /\ (version'[q] = version[q] => q # on[c])
    BY <1>0, <2>2 DEF TypeOK
  <2>5. \A q \in Quotes : LinesOf(q)' = LinesOf(q)
    BY <2>2 DEF LinesOf
  <2>6. \A q \in Quotes : (status'[q] = "none" <=> status[q] = "none") /\ (q # on[c] => status'[q] = status[q])
    BY <1>0, <2>2, <2>3 DEF TypeOK
  <2> QED BY <1>0, <2>2, <2>4, <2>5, <2>6 DEF RowsMove, RowIds
<1>3. CASE CommitQuote(c)
  <2>1. /\ status' = [status EXCEPT ![on[c]] = "draft"] /\ UNCHANGED <<totals, version, lines>>
        /\ Creating(c) /\ status[on[c]] = "none"
    BY <1>0, <1>3 DEF CommitQuote, Creating, CallOK, Existing
  <2>2. \A q \in Quotes : LinesOf(q)' = LinesOf(q)
    BY <2>1 DEF LinesOf
  <2> QED BY <1>0, <2>1, <2>2 DEF RowsMove, RowIds, TypeOK
<1>4. CASE CommitOrderCancelled(c)
  <2>1. UNCHANGED <<status, totals, version, lines>>
    BY <1>4 DEF CommitOrderCancelled, quoteRows
  <2>2. \A q \in Quotes : LinesOf(q)' = LinesOf(q)
    BY <2>1 DEF LinesOf
  <2> QED BY <1>0, <2>1, <2>2 DEF RowsMove, RowIds, TypeOK
<1> QED BY <1>1, <1>2, <1>3, <1>4 DEF Commit

(* The two invariants of the rows, through a commit. *)
LEMMA CommitTotalsAgree ==
  ASSUME IInv, NEW c \in Calls, Commit(c)
  PROVE  TotalsAgree'
<1>0. pc[c] = "commit" /\ CallOK(c) /\ TypeOK /\ TotalsAgree /\ on[c] \in Quotes
  BY DEF Commit, IInv, CallOK, Placed
<1>1. CASE CommitTotals(c)
  <2> SUFFICES ASSUME NEW q \in Quotes
               PROVE  totals'[q] = TotalsOf(LinesOf(q)', totals'[q].discount) /\ totals'[q].total >= 0
    BY Zenon DEF TotalsAgree
  <2>1. op[c] \in Versioned /\ op[c] # "CancelQuote"
    BY <1>1 DEF CommitTotals, Versioned, LineEdits, Ops, QuoteOps
  <2>2. listed[c] = Written(c, LinesOf(on[c]))
    BY <1>0, <1>1, <2>1, CommitRelies DEF CommitTotals
  <2>3. /\ \A p \in Quotes : p = on[c] => LinesOf(p)' = Written(c, LinesOf(p))
        /\ \A p \in Quotes \ {on[c]} : LinesOf(p)' = LinesOf(p)
    BY <1>0, <1>1, WrittenLines DEF CommitTotals
  <2>4. totals' = [totals EXCEPT ![on[c]] = TotalsOf(listed[c], DiscountOf(c))] /\ Total(listed[c], DiscountOf(c)) >= 0
    BY <1>1 DEF CommitTotals, TotalsAccepted
  <2>5. CASE q = on[c]
    <3>1. totals'[q] = TotalsOf(LinesOf(q)', DiscountOf(c))
      BY <1>0, <2>2, <2>3, <2>4, <2>5 DEF TypeOK
    <3> QED BY <2>2, <2>3, <2>4, <2>5, <3>1 DEF TotalsOf
  <2>6. CASE q # on[c]
    <3>1. totals'[q] = totals[q] /\ LinesOf(q)' = LinesOf(q)
      BY <1>0, <2>3, <2>4, <2>6 DEF TypeOK
    <3> QED BY <1>0, <3>1 DEF TotalsAgree
  <2> QED BY <2>5, <2>6
<1>2. CASE CommitStatus(c) \/ CommitOrder(c) \/ CommitQuote(c) \/ CommitOrderCancelled(c)
  <2>1. totals' = totals /\ lines' = lines
    BY <1>2 DEF CommitStatus, CommitOrder, CommitQuote, CommitOrderCancelled, quoteRows
  <2> QED BY <1>0, <2>1 DEF TotalsAgree, LinesOf
<1> QED BY <1>1, <1>2 DEF Commit


LEMMA CommitOrdersMatch ==
  ASSUME IInv, NEW c \in Calls, Commit(c)
  PROVE  OrdersMatch' /\ OrderVersions'
<1>0. pc[c] = "commit" /\ CallOK(c) /\ TypeOK /\ OrdersMatch /\ OrderVersions /\ on[c] \in Quotes
  BY DEF Commit, IInv, CallOK, Placed
<1>1. CASE CommitTotals(c)
  <2>1. op[c] \in Versioned /\ op[c] \notin {"CancelQuote", "CreateOrder"}
    BY <1>1 DEF CommitTotals, Versioned, LineEdits, Ops, QuoteOps
  <2>2. status[on[c]] = "draft"
    BY <1>0, <1>1, <2>1, CommitRelies DEF CommitTotals, Allowed
  <2>3. status' = status /\ orders' = orders /\ \A q \in Quotes \ {on[c]} : totals'[q] = totals[q]
    BY <1>0, <1>1 DEF CommitTotals, TypeOK
  <2>4. OrdersOf(on[c]) = {}
    BY <1>0, <2>2 DEF OrdersMatch
  <2> QED BY <1>0, <2>2, <2>3, <2>4 DEF OrdersMatch, OrdersOf, OrderVersions
<1>2. CASE CommitStatus(c)
  <2>1. op[c] \in Versioned /\ VersionHolds(c) /\ op[c] \in {"SubmitQuote", "CancelQuote"}
    BY <1>2 DEF CommitStatus, Versioned, LineEdits, Ops, QuoteOps
  <2>2. status[on[c]] \in {"draft", "submitted"}
    BY <1>0, <2>1, CommitRelies DEF Allowed
  <2>3. orders' = orders /\ totals' = totals
        /\ \A q \in Quotes : status'[q] = "accepted" <=> status[q] = "accepted"
    BY <1>0, <1>2, <2>2 DEF CommitStatus, TypeOK
  <2> QED BY <1>0, <2>3 DEF OrdersMatch, OrdersOf, OrderVersions
<1>3. CASE CommitOrder(c)
  <2>1. op[c] \in Versioned /\ VersionHolds(c) /\ op[c] = "CreateOrder"
    BY <1>3 DEF CommitOrder, Versioned, LineEdits, Ops, QuoteOps
  <2>2. status[on[c]] = "submitted" /\ read[c].totals = totals[on[c]]
    BY <1>0, <2>1, CommitRelies DEF Allowed
  <2> DEFINE new == OrderRow(number[c], on[c], "open", read[c].totals, 0)
  <2>3. new.quote = on[c] /\ new.totals = totals[on[c]] /\ new.status = "open" /\ new.version = 0
    BY <2>2 DEF OrderRow
  <2>4. orders' = orders \union {new} /\ totals' = totals /\ status' = [status EXCEPT ![on[c]] = "accepted"]
    BY <1>3 DEF CommitOrder
  <2> HIDE DEF new
  <2>5. OrdersOf(on[c]) = {}
    BY <1>0, <2>2 DEF OrdersMatch
  <2>6. \A q \in Quotes : OrdersOf(q)' = IF q = on[c] THEN {new} ELSE OrdersOf(q)
    BY <2>3, <2>4, <2>5 DEF OrdersOf
  <2>7. \A q \in Quotes : status'[q] = IF q = on[c] THEN "accepted" ELSE status[q]
    BY <1>0, <2>4 DEF TypeOK
  <2>8. OrdersMatch'
    <3> SUFFICES ASSUME NEW q \in Quotes
                 PROVE  /\ \A o, p \in OrdersOf(q)' : o = p
                        /\ \A o \in OrdersOf(q)' : o.totals = totals[q]
                        /\ OrdersOf(q)' # {} <=> status'[q] = "accepted"
      BY <2>4 DEF OrdersMatch
    <3>1. CASE q = on[c]
      BY <2>3, <2>6, <2>7, <3>1
    <3>2. CASE q # on[c]
      BY <1>0, <2>6, <2>7, <3>2 DEF OrdersMatch
    <3> QED BY <3>1, <3>2
  <2>9. OrderVersions'
    BY <1>0, <2>3, <2>4 DEF OrderVersions
  <2> QED BY <2>8, <2>9
<1>4. CASE CommitQuote(c)
  <2>1. Creating(c)
    BY <1>0, <1>4 DEF CommitQuote, Creating
  <2>2. status[on[c]] = "none" /\ orders' = orders /\ totals' = totals
        /\ \A q \in Quotes : status'[q] = "accepted" <=> status[q] = "accepted"
    BY <1>0, <1>4, <2>1 DEF CommitQuote, TypeOK, CallOK, Existing
  <2> QED BY <1>0, <2>2 DEF OrdersMatch, OrdersOf, OrderVersions
<1>5. CASE CommitOrderCancelled(c)
  <2>1. PICK o \in orders : /\ o.number = number[c] /\ o.version = read[c].version
                            /\ orders' = (orders \ {o}) \union {OrderRow(o.number, o.quote, "cancelled", o.totals, read[c].version + 1)}
    BY <1>5 DEF CommitOrderCancelled
  <2>2. read[c].version = 0 /\ UNCHANGED <<status, totals>>
    BY <1>0, <1>5 DEF CommitOrderCancelled, CallOK, OwnOrder, quoteRows
  <2> DEFINE new == OrderRow(o.number, o.quote, "cancelled", o.totals, read[c].version + 1)
  <2>3. new.quote = o.quote /\ new.totals = o.totals /\ new.status = "cancelled" /\ new.version = 1
    BY <2>2 DEF OrderRow
  <2>4. orders' = (orders \ {o}) \union {new}
    BY <2>1
  <2> HIDE DEF new
  <2>5. OrdersOf(o.quote) = {o} /\ o.quote \in Quotes
    BY <1>0 DEF OrdersMatch, OrdersOf, TypeOK
  <2>6. \A q \in Quotes : OrdersOf(q)' = IF q = o.quote THEN {new} ELSE OrdersOf(q)
    BY <2>3, <2>4, <2>5 DEF OrdersOf
  <2>7. OrdersMatch'
    <3> SUFFICES ASSUME NEW q \in Quotes
                 PROVE  /\ \A x, y \in OrdersOf(q)' : x = y
                        /\ \A x \in OrdersOf(q)' : x.totals = totals[q]
                        /\ OrdersOf(q)' # {} <=> status[q] = "accepted"
      BY <2>2 DEF OrdersMatch
    <3>1. CASE q = o.quote
      BY <1>0, <2>3, <2>5, <2>6, <3>1 DEF OrdersMatch
    <3>2. CASE q # o.quote
      BY <1>0, <2>6, <3>2 DEF OrdersMatch
    <3> QED BY <3>1, <3>2
  <2>8. OrderVersions'
    BY <1>0, <2>3, <2>4 DEF OrderVersions
  <2> QED BY <2>7, <2>8
<1> QED BY <1>1, <1>2, <1>3, <1>4, <1>5 DEF Commit

-----------------------------------------------------------------------------
(* The transaction that takes the step.                                    *)

LEMMA ResetCall ==
  ASSUME TypeOK, NEW c \in Calls, Reset(c)
  PROVE  CallOK(c)' /\ pc'[c] = "idle" /\ line'[c] = 0
<1>1. pc'[c] = "idle" /\ op'[c] = "CreateQuote" /\ amount'[c] = 0 /\ line'[c] = 0
  BY DEF Reset, Goto, TypeOK
<1> QED BY <1>1 DEF CallOK, Placed, Existing, Fresh, OwnLine, OwnOrder, Creating, Adding, HasRead, HasListed

LEMMA StartCall ==
  ASSUME IInv, TypeOK', NEW c \in Calls, StartOnQuote(c) \/ StartOnLine(c) \/ StartOnOrder(c)
  PROVE  CallOK(c)' /\ Apart'
<1>0. TypeOK /\ Apart
  BY DEF IInv
<1>1. CASE StartOnQuote(c)
  <2>1. PICK o \in QuoteOps, q \in Quotes : \E a \in Asked(o) :
          /\ (o = "CreateQuote") <=> (q \notin Created)
          /\ o = "CreateQuote" => \A d \in Calls : op[d] = "CreateQuote" /\ pc[d] # "idle" => on[d] # q
          /\ Begin(c, o, First(o))
          /\ on' = [on EXCEPT ![c] = q]
          /\ amount' = [amount EXCEPT ![c] = a]
          /\ line' = [line EXCEPT ![c] = IF o = "AddQuoteLine" THEN lineIds + 1 ELSE 0]
    BY <1>1 DEF StartOnQuote
  <2>2. op'[c] = o /\ pc'[c] = First(o) /\ on'[c] = q /\ UNCHANGED rows
        /\ line'[c] = (IF o = "AddQuoteLine" THEN lineIds + 1 ELSE 0)
        /\ \A d \in Calls \ {c} : op'[d] = op[d] /\ pc'[d] = pc[d] /\ on'[d] = on[d] /\ line'[d] = line[d]
    BY <1>0, <2>1 DEF Begin, Goto, TypeOK
  <2>3. Placed(c)' /\ OwnOrder(c)'
    BY <2>2 DEF Placed, OwnOrder, First, QuoteOps, TypeOK
  <2>4. Existing(c)' /\ Fresh(c)'
    BY <2>1, <2>2 DEF Existing, Fresh, Creating, Created, HasRead, HasListed, First, Versioned, rows, quoteRows
  <2>5. OwnLine(c)'
    <3>1. \A row \in lines : row.id # lineIds + 1
      BY <1>0 DEF TypeOK
    <3> QED BY <1>0, <2>2, <3>1 DEF OwnLine, Adding, rows, QuoteOps, TypeOK
  <2>6. Apart'
    <3>1. \A d \in Calls : line[d] \in 0..lineIds /\ lineIds \in Nat
      BY <1>0 DEF TypeOK
    <3>2. \A d \in Calls \ {c} : Adding(d) => line[d] # 0
      BY DEF IInv, CallOK, OwnLine
    <3> QED BY <1>0, <2>1, <2>2, <3>1, <3>2 DEF Apart, Creating, Adding
  <2> QED BY <2>3, <2>4, <2>5, <2>6 DEF CallOK
<1>2. CASE StartOnLine(c)
  <2>1. PICK o \in {"UpdateQuoteLine", "RemoveQuoteLine"}, row \in lines :
          Begin(c, o, "line") /\ line' = [line EXCEPT ![c] = row.id] /\ UNCHANGED <<on, lineIds>>
    BY <1>2 DEF StartOnLine
  <2>2. op'[c] = o /\ pc'[c] = "line" /\ UNCHANGED <<rows, on>> /\ line'[c] = row.id
        /\ \A d \in Calls \ {c} : op'[d] = op[d] /\ pc'[d] = pc[d] /\ line'[d] = line[d]
    BY <1>0, <2>1 DEF Begin, Goto, TypeOK
  <2>3. CallOK(c)'
    BY <2>2 DEF CallOK, Placed, Existing, Fresh, OwnLine, OwnOrder, Creating, Adding, HasRead, HasListed, TypeOK
  <2>4. Apart'
    <3>1. \A d \in Calls : Adding(d) => line[d] # row.id
      BY DEF IInv, CallOK, OwnLine
    <3> QED BY <1>0, <2>2, <3>1 DEF Apart, Creating, Adding
  <2> QED BY <2>3, <2>4
<1>3. CASE StartOnOrder(c)
  <2>1. PICK o \in orders : Begin(c, "CancelOrder", "order") /\ on' = [on EXCEPT ![c] = o.quote] /\ UNCHANGED <<line, amount, lineIds>>
    BY <1>3 DEF StartOnOrder
  <2>2. op'[c] = "CancelOrder" /\ pc'[c] = "order" /\ UNCHANGED <<rows, line>> /\ on'[c] = o.quote
        /\ \A d \in Calls \ {c} : op'[d] = op[d] /\ pc'[d] = pc[d] /\ on'[d] = on[d]
    BY <1>0, <2>1 DEF Begin, Goto, TypeOK
  <2>3. CallOK(c)'
    <3>1. o.quote \in Quotes
      BY <1>0 DEF TypeOK
    <3> QED BY <2>2, <3>1 DEF CallOK, Placed, Existing, Fresh, OwnLine, OwnOrder, Creating, Adding, HasRead, HasListed,
               Versioned, TypeOK
  <2>4. Apart'
    BY <1>0, <2>2 DEF Apart, Creating, Adding
  <2> QED BY <2>3, <2>4
<1> QED BY <1>1, <1>2, <1>3


LEMMA StatementCall ==
  ASSUME IInv, TypeOK', NEW c \in Calls, Statement(c)
  PROVE  CallOK(c)'
<1>0. TypeOK /\ CallOK(c) /\ RowIds
  BY DEF IInv
<1>1. UNCHANGED <<rows, bounds, op, line, amount>>
  BY DEF Statement, ReadLine, ReadQuote, ReadOrder, ReadLineNumber, WriteLine, ListLines, Count, Insert
<1>2. UNCHANGED <<status, totals, version, lines, orders>>
  BY <1>1 DEF rows, quoteRows
<1> USE DEF TypeOK
<1>3. CASE ReadLine(c)
  <2>1. PICK row \in lines : row.id = line[c] /\ on' = [on EXCEPT ![c] = row.quote]
    BY <1>3 DEF ReadLine
  <2>2. pc[c] = "line" /\ pc'[c] = "quote" /\ on'[c] = row.quote /\ row.quote \in Quotes
        /\ op[c] \in {"UpdateQuoteLine", "RemoveQuoteLine"}
    BY <1>0, <1>3, <2>1 DEF ReadLine, Goto, CallOK, Placed
  <2>3. OwnLine(c)'
    BY <1>0, <1>1, <1>2, <2>1, <2>2 DEF OwnLine, Adding, RowIds
  <2>4. Placed(c)' /\ Existing(c)' /\ Fresh(c)' /\ OwnOrder(c)'
    BY <1>0, <1>1, <2>2 DEF CallOK, Placed, Existing, Fresh, OwnOrder, Creating, HasRead, HasListed
  <2> QED BY <2>3, <2>4 DEF CallOK
<1>4. CASE ReadQuote(c)
  <2>1. pc[c] = "quote" /\ pc'[c] = AfterQuote(op[c]) /\ on' = on /\ on[c] \in Quotes
        /\ status[on[c]] \in Allowed(op[c])
        /\ read'[c] = [version |-> version[on[c]], totals |-> totals[on[c]]]
    BY <1>0, <1>4 DEF ReadQuote, Goto, CallOK, Placed
  <2>2. op[c] \notin {"CreateQuote", "CancelOrder"}
    BY <1>0, <2>1 DEF CallOK, Placed
  <2>3. status[on[c]] # "none" /\ version[on[c]] \in Nat
    <3>1. "none" \notin Allowed(op[c])
      BY DEF Allowed
    <3> QED BY <1>0, <2>1, <3>1
  <2>4. pc'[c] \in {"number", "write", "order", "list"}
        /\ (pc'[c] = "order" => op[c] \in {"CancelQuote", "CreateOrder"})
    BY <2>1 DEF AfterQuote
  <2>5. Placed(c)' /\ Existing(c)' /\ OwnOrder(c)'
    BY <1>0, <1>1, <1>2, <2>1, <2>2, <2>3, <2>4 DEF CallOK, Placed, Existing, OwnOrder, Creating
  <2>6. Fresh(c)'
    <3>1. read'[c].version = version[on[c]] /\ read'[c].totals = totals[on[c]]
      BY <2>1
    <3> QED BY <1>1, <1>2, <2>1, <2>3, <2>4, <3>1 DEF Fresh, HasListed, VersionHolds
  <2>7. OwnLine(c)'
    BY <1>0, <1>1, <1>2, <2>1, <2>2, <2>4 DEF CallOK, OwnLine, Adding
  <2> QED BY <2>5, <2>6, <2>7 DEF CallOK
<1>5. CASE ReadOrder(c)
  <2>1. pc[c] = "order" /\ on' = on /\ listed' = listed /\ pc'[c] = (IF op[c] = "CreateOrder" THEN "list" ELSE "commit")
        /\ op[c] \in {"CancelQuote", "CreateOrder", "CancelOrder"}
        /\ (op[c] # "CancelOrder" => read' = read)
    BY <1>0, <1>5 DEF ReadOrder, Goto, CallOK, Placed
  <2>2. Placed(c)' /\ Existing(c)' /\ OwnLine(c)'
    BY <1>0, <1>1, <1>2, <2>1 DEF CallOK, Placed, Existing, OwnLine, Creating, Adding, HasRead
  <2>3. Fresh(c)'
    BY <1>0, <1>1, <1>2, <2>1 DEF CallOK, Fresh, HasRead, HasListed, VersionHolds, Versioned
  <2>4. OwnOrder(c)'
    <3>1. ASSUME op[c] = "CancelOrder" PROVE read'[c].version = 0
      <4>1. PICK x \in OrdersOf(on[c]) : x.status = "open" /\ read' = [read EXCEPT ![c] = [version |-> x.version, totals |-> x.totals]]
        BY <1>5, <3>1 DEF ReadOrder
      <4>2. x.version = 0
        BY <4>1 DEF IInv, OrderVersions, OrdersOf
      <4> QED BY <4>1, <4>2
    <3> QED BY <1>1, <3>1 DEF OwnOrder
  <2> QED BY <2>2, <2>3, <2>4 DEF CallOK
<1>6. CASE ReadLineNumber(c) \/ WriteLine(c) \/ Count(c) \/ Insert(c)
  <2>1. /\ on' = on /\ read' = read /\ listed' = listed
        /\ \/ pc[c] = "number" /\ pc'[c] = "write" /\ op[c] \notin {"CreateQuote", "CancelOrder"}
           \/ pc[c] = "write" /\ pc'[c] = "list" /\ op[c] \notin {"CreateQuote", "CancelOrder"}
           \/ pc[c] = "count" /\ pc'[c] = "insert" /\ op[c] \in {"CreateQuote", "CreateOrder"}
           \/ pc[c] = "insert" /\ pc'[c] = "commit" /\ op[c] \in {"CreateQuote", "CreateOrder"}
    BY <1>0, <1>6 DEF ReadLineNumber, WriteLine, Count, Insert, Goto, CallOK, Placed
  <2>2. Placed(c)' /\ Existing(c)' /\ OwnOrder(c)' /\ OwnLine(c)'
    BY <1>0, <1>1, <1>2, <2>1 DEF CallOK, Placed, Existing, OwnLine, OwnOrder, Creating, Adding, HasRead
  <2>3. (HasRead(c)' => HasRead(c)) /\ (HasListed(c)' => HasListed(c))
    BY <1>0, <1>1, <2>1 DEF HasRead, HasListed
  <2>4. LinesOf(on[c])' = LinesOf(on[c]) /\ (HasListed(c)' => Written(c, LinesOf(on[c]))' = Written(c, LinesOf(on[c])))
    <3>1. LinesOf(on[c])' = LinesOf(on[c])
      BY <1>2, <2>1 DEF LinesOf
    <3>2. HasListed(c)' => op[c] # "AddQuoteLine"
      BY <1>1, <2>1 DEF HasListed
    <3> QED BY <1>1, <2>1, <3>1, <3>2 DEF Written
  <2>5. Fresh(c)'
    BY <1>0, <1>1, <1>2, <2>1, <2>3, <2>4 DEF CallOK, Fresh, VersionHolds
  <2> QED BY <2>2, <2>5 DEF CallOK
<1>7. CASE ListLines(c)
  <2>1. /\ pc[c] = "list" /\ pc'[c] = (IF op[c] = "CreateOrder" THEN "count" ELSE "commit")
        /\ on' = on /\ read' = read /\ number' = number
        /\ listed'[c] = Written(c, LinesOf(on[c]))
        /\ op[c] \in NeedsLines => LinesOf(on[c]) # {}
    BY <1>7 DEF ListLines, Goto
  <2>2. op[c] \notin {"CreateQuote", "CancelOrder"}
    BY <1>0, <2>1 DEF CallOK, Placed
  <2>3. Placed(c)' /\ Existing(c)' /\ OwnOrder(c)' /\ OwnLine(c)'
    BY <1>0, <1>1, <1>2, <2>1, <2>2 DEF CallOK, Placed, Existing, OwnLine, OwnOrder, Creating, Adding, HasRead
  <2>4. HasRead(c)' => HasRead(c)
    BY <1>0, <1>1, <2>1 DEF HasRead
  <2>5. LinesOf(on[c])' = LinesOf(on[c]) /\ Written(c, LinesOf(on[c]))' = Written(c, LinesOf(on[c]))
    <3>1. LinesOf(on[c])' = LinesOf(on[c])
      BY <1>2, <2>1 DEF LinesOf
    <3> QED BY <1>1, <2>1, <3>1 DEF Written
  <2>6. Fresh(c)'
    BY <1>0, <1>1, <1>2, <2>1, <2>4, <2>5 DEF CallOK, Fresh, VersionHolds
  <2> QED BY <2>3, <2>6 DEF CallOK
<1> QED BY <1>3, <1>4, <1>5, <1>6, <1>7 DEF Statement

LEMMA StatementApart ==
  ASSUME IInv, NEW c \in Calls, Statement(c)
  PROVE  Apart'
<1>1. UNCHANGED <<op, line>> /\ (pc[c] = "line" \/ on' = on)
  BY DEF Statement, ReadLine, ReadQuote, ReadOrder, ReadLineNumber, WriteLine, ListLines, Count, Insert
<1>2. pc[c] # "idle" /\ \A d \in Calls : pc'[d] = "idle" <=> pc[d] = "idle"
  BY DEF Statement, ReadLine, ReadQuote, ReadOrder, ReadLineNumber, WriteLine, ListLines, Count, Insert, Goto,
         AfterQuote, IInv, TypeOK
<1>3. pc[c] = "line" => ~Creating(c)
  BY DEF IInv, CallOK, Placed, Creating
<1>4. \A d \in Calls : on'[d] = on[d] \/ ~Creating(d)
  <2>1. CASE ReadLine(c)
    BY <1>3, <2>1 DEF ReadLine, IInv, TypeOK
  <2>2. CASE on' = on
    BY <2>2
  <2> QED BY <2>1, <2>2 DEF Statement, ReadQuote, ReadOrder, ReadLineNumber, WriteLine, ListLines, Count, Insert
<1>5. \A d \in Calls : (Creating(d)' <=> Creating(d)) /\ (Adding(d)' <=> Adding(d))
  BY <1>1, <1>2 DEF Creating, Adding
<1> QED BY <1>1, <1>4, <1>5 DEF IInv, Apart

LEMMA ResetApart ==
  ASSUME IInv, NEW c \in Calls, Reset(c)
  PROVE  Apart'
<1>1. pc'[c] = "idle" /\ line'[c] = 0
      /\ \A d \in Calls \ {c} : op'[d] = op[d] /\ pc'[d] = pc[d] /\ on'[d] = on[d] /\ line'[d] = line[d]
  BY DEF Reset, Goto, IInv, TypeOK
<1>2. \A d \in Calls : Adding(d) => line[d] # 0
  BY DEF IInv, CallOK, OwnLine
<1> QED BY <1>1, <1>2 DEF IInv, Apart, Creating, Adding

-----------------------------------------------------------------------------
(* The sum over a set of lines: MapThenSumSet takes the lines out one by    *)
(* one, and every order gives the same sum.                                 *)

Taken(s) == CHOOSE row \in s : TRUE

\* g is the sum of every subset of the set.
Summing(g, set) ==
  g = [s \in SUBSET set |-> IF s = {} THEN 0 ELSE Taken(s).total + g[s \ {Taken(s)}]]

Priced(set) == IsFiniteSet(set) /\ \A row \in set : row.total \in Int

\* Induction over the sizes of sets, as a fact about a set of numbers.
LEMMA EverySize ==
  ASSUME NEW Sizes, 0 \in Sizes, \A n \in Nat : n \in Sizes => n + 1 \in Sizes
  PROVE  Nat \subseteq Sizes
<1>1. SUFFICES ASSUME Nat \ Sizes # {} PROVE FALSE
  OBVIOUS
<1>2. PICK n \in Nat \ Sizes : \A m \in Nat \ Sizes : ~ (<<m, n>> \in OpToRel(<, Nat))
  <2>1. Nat \ Sizes \subseteq Nat
    OBVIOUS
  <2> QED BY <1>1, <2>1, NatLessThanWellFounded, WFMin
<1>3. n # 0 /\ n - 1 \in Nat
  OBVIOUS
<1>4. n - 1 \notin Sizes
  BY <1>3
<1>5. <<n - 1, n>> \in OpToRel(<, Nat)
  BY <1>3 DEF OpToRel
<1> QED BY <1>2, <1>3, <1>4, <1>5

LEMMA SubtotalIsAChoice ==
  ASSUME NEW set
  PROVE  Subtotal(set) = (CHOOSE g : Summing(g, set))[set]
BY DEF Subtotal, MapThenSumSet, MapThenFoldSet, Summing, Taken

LEMMA TakenSmaller ==
  ASSUME NEW set, IsFiniteSet(set), set # {}
  PROVE  /\ Taken(set) \in set
         /\ IsFiniteSet(set \ {Taken(set)})
         /\ Cardinality(set \ {Taken(set)}) = Cardinality(set) - 1
         /\ Cardinality(set) \in Nat \ {0}
<1>1. Taken(set) \in set
  BY DEF Taken
<1> QED BY <1>1, FS_RemoveElement, FS_CardinalityType, FS_EmptySet

LEMMA SummingExists ==
  ASSUME NEW set, Priced(set)
  PROVE  \E g \in [SUBSET set -> Int] : Summing(g, set)
<1> DEFINE Upto(n) == {s \in SUBSET set : Cardinality(s) <= n}
           Sum(g, s) == IF s = {} THEN 0 ELSE Taken(s).total + g[s \ {Taken(s)}]
           Sizes == {n \in Nat : \E g \in [Upto(n) -> Int] : \A s \in Upto(n) : g[s] = Sum(g, s)}
<1>0. \A s \in SUBSET set : IsFiniteSet(s) /\ Cardinality(s) \in Nat
  BY FS_Subset, FS_CardinalityType DEF Priced
<1>1. 0 \in Sizes
  <2>1. \A s \in Upto(0) : s = {}
    BY <1>0, FS_EmptySet
  <2>2. [s \in Upto(0) |-> 0] \in [Upto(0) -> Int] /\ \A s \in Upto(0) : [t \in Upto(0) |-> 0][s] = Sum([t \in Upto(0) |-> 0], s)
    BY <2>1
  <2> HIDE DEF Upto, Sum
  <2> QED BY <2>2
<1>2. ASSUME NEW n \in Nat, n \in Sizes PROVE n + 1 \in Sizes
  <2>1. PICK g \in [Upto(n) -> Int] : \A s \in Upto(n) : g[s] = Sum(g, s)
    BY <1>2
  <2> DEFINE h == [s \in Upto(n + 1) |-> Sum(g, s)]
  <2>2. ASSUME NEW s \in Upto(n + 1), s # {}
        PROVE  s \ {Taken(s)} \in Upto(n) /\ Taken(s).total \in Int
    BY <1>0, <2>2, TakenSmaller DEF Priced
  <2>3. ASSUME NEW s \in Upto(n + 1) PROVE Sum(g, s) \in Int
    BY <2>1, <2>2, <2>3
  <2>4. Upto(n) \subseteq Upto(n + 1)
    BY <1>0
  <2>5. ASSUME NEW s \in Upto(n) PROVE h[s] = g[s]
    <3>1. s \in Upto(n + 1)
      BY <2>4
    <3> HIDE DEF Upto, Sum
    <3> QED BY <2>1, <3>1
  <2>6. ASSUME NEW s \in Upto(n + 1) PROVE h[s] = Sum(h, s)
    <3>1. h[s] = Sum(g, s)
      OBVIOUS
    <3>2. CASE s = {}
      BY <3>1, <3>2
    <3>3. CASE s # {}
      <4>1. h[s \ {Taken(s)}] = g[s \ {Taken(s)}]
        BY <2>2, <2>5, <3>3
      <4> HIDE DEF h
      <4> QED BY <3>1, <3>3, <4>1
    <3> QED BY <3>2, <3>3
  <2>7. h \in [Upto(n + 1) -> Int]
    BY <2>3
  <2> HIDE DEF Upto, Sum, h
  <2> QED BY <2>6, <2>7
<1>3. Nat \subseteq Sizes
  <2> HIDE DEF Sizes
  <2> QED BY <1>1, <1>2, EverySize
<1>4. Cardinality(set) \in Nat /\ Upto(Cardinality(set)) = SUBSET set
  <2>1. \A s \in SUBSET set : Cardinality(s) <= Cardinality(set)
    BY FS_Subset DEF Priced
  <2> QED BY <1>0, <2>1
<1>5. PICK g \in [SUBSET set -> Int] : \A s \in SUBSET set : g[s] = Sum(g, s)
  <2> HIDE DEF Upto, Sum
  <2> QED BY <1>3, <1>4
<1>6. Summing(g, set)
  BY <1>5 DEF Summing
<1> QED BY <1>6

LEMMA SummingUnique ==
  ASSUME NEW set, Priced(set), NEW part \in SUBSET set,
         NEW g, Summing(g, set), NEW h, Summing(h, part)
  PROVE  g[part] = h[part]
<1> DEFINE Sizes == {n \in Nat : \A s \in SUBSET part : Cardinality(s) = n => g[s] = h[s]}
<1>0. \A s \in SUBSET part : IsFiniteSet(s) /\ Cardinality(s) \in Nat
  BY FS_Subset, FS_CardinalityType DEF Priced
<1>1. \A s \in SUBSET part :
        /\ g[s] = IF s = {} THEN 0 ELSE Taken(s).total + g[s \ {Taken(s)}]
        /\ h[s] = IF s = {} THEN 0 ELSE Taken(s).total + h[s \ {Taken(s)}]
  BY DEF Summing
<1>2. 0 \in Sizes
  BY <1>0, <1>1, FS_EmptySet
<1>3. ASSUME NEW n \in Nat, n \in Sizes PROVE n + 1 \in Sizes
  <2>1. ASSUME NEW s \in SUBSET part, Cardinality(s) = n + 1 PROVE g[s] = h[s]
    <3>1. s # {}
      BY <2>1, FS_EmptySet
    <3>2. s \ {Taken(s)} \in SUBSET part /\ Cardinality(s \ {Taken(s)}) = n
      BY <1>0, <2>1, <3>1, TakenSmaller
    <3>3. g[s \ {Taken(s)}] = h[s \ {Taken(s)}]
      BY <1>3, <3>2
    <3> QED BY <1>1, <3>1, <3>3
  <2> QED BY <2>1
<1>4. Nat \subseteq Sizes
  <2> HIDE DEF Sizes
  <2> QED BY <1>2, <1>3, EverySize
<1> QED BY <1>0, <1>4

LEMMA SubtotalOfNone == Subtotal({}) = 0
<1>1. Priced({})
  BY FS_EmptySet DEF Priced
<1>2. Summing(CHOOSE g : Summing(g, {}), {})
  BY <1>1, SummingExists
<1>3. (CHOOSE g : Summing(g, {}))[{}] = 0
  BY <1>2 DEF Summing
<1> QED BY <1>3, SubtotalIsAChoice

LEMMA SubtotalTakes ==
  ASSUME NEW set, Priced(set), set # {}
  PROVE  Subtotal(set) = Taken(set).total + Subtotal(set \ {Taken(set)})
<1> DEFINE rest == set \ {Taken(set)}
           Chosen(s) == CHOOSE g : Summing(g, s)
<1>1. Priced(rest)
  BY TakenSmaller DEF Priced
<1>2. Summing(Chosen(set), set) /\ Summing(Chosen(rest), rest)
  <2>1. (\E g : Summing(g, set)) /\ (\E g : Summing(g, rest))
    BY <1>1, SummingExists
  <2> QED BY <2>1
<1>3. Chosen(set)[set] = Taken(set).total + Chosen(set)[rest]
  BY <1>2 DEF Summing
<1>4. Chosen(set)[rest] = Chosen(rest)[rest]
  BY <1>2, SummingUnique
<1>5. Subtotal(set) = Chosen(set)[set] /\ Subtotal(rest) = Chosen(rest)[rest]
  BY SubtotalIsAChoice
<1> QED BY <1>3, <1>4, <1>5

LEMMA SubtotalIsInteger ==
  ASSUME NEW set, Priced(set)
  PROVE  Subtotal(set) \in Int
<1>1. PICK g \in [SUBSET set -> Int] : Summing(g, set)
  BY SummingExists
<1>2. Summing(CHOOSE f : Summing(f, set), set)
  BY <1>1
<1>3. g[set] = (CHOOSE f : Summing(f, set))[set]
  BY <1>1, <1>2, SummingUnique
<1> QED BY <1>1, <1>3, SubtotalIsAChoice

\* A line more is worth its total more, whichever was taken out first.
LEMMA SubtotalWithLine ==
  ASSUME NEW set, Priced(set), NEW row \in set
  PROVE  Subtotal(set) = row.total + Subtotal(set \ {row})
<1> DEFINE Splits(s) == \A r \in s : Subtotal(s) = r.total + Subtotal(s \ {r})
           Sizes == {n \in Nat : \A s \in SUBSET set : Cardinality(s) = n => Splits(s)}
<1>0. \A s \in SUBSET set : Priced(s) /\ Cardinality(s) \in Nat /\ Subtotal(s) \in Int
  <2>1. \A s \in SUBSET set : Priced(s)
    BY FS_Subset DEF Priced
  <2>2. \A s : Priced(s) => Subtotal(s) \in Int
    BY SubtotalIsInteger
  <2> QED BY <2>1, <2>2, FS_CardinalityType DEF Priced
<1>1. 0 \in Sizes
  BY <1>0, FS_EmptySet DEF Priced
<1>2. ASSUME NEW n \in Nat, n \in Sizes PROVE n + 1 \in Sizes
  <2>1. ASSUME NEW s \in SUBSET set, Cardinality(s) = n + 1, NEW r \in s
        PROVE  Subtotal(s) = r.total + Subtotal(s \ {r})
    <3> DEFINE t == Taken(s)
    <3>1. s # {} /\ t \in s /\ Priced(s) /\ IsFiniteSet(s)
      BY <1>0, TakenSmaller DEF Priced
    <3>2. Subtotal(s) = t.total + Subtotal(s \ {t})
      BY <3>1, SubtotalTakes
    <3>3. CASE r = t
      BY <3>2, <3>3
    <3>4. CASE r # t
      <4>1. Cardinality(s \ {t}) = n /\ Cardinality(s \ {r}) = n
        BY <2>1, <3>1, FS_RemoveElement
      <4>2. Subtotal(s \ {t}) = r.total + Subtotal((s \ {t}) \ {r})
        BY <1>2, <3>4, <4>1
      <4>3. Subtotal(s \ {r}) = t.total + Subtotal((s \ {r}) \ {t})
        BY <1>2, <3>1, <3>4, <4>1
      <4>4. Subtotal((s \ {t}) \ {r}) = Subtotal((s \ {r}) \ {t})
        <5>1. (s \ {t}) \ {r} = (s \ {r}) \ {t}
          OBVIOUS
        <5> QED BY <5>1
      <4>5. r.total \in Int /\ t.total \in Int /\ Subtotal((s \ {r}) \ {t}) \in Int
        BY <1>0, <3>1 DEF Priced
      <4> HIDE DEF t
      <4> QED BY <3>2, <4>2, <4>3, <4>4, <4>5
    <3> QED BY <3>3, <3>4
  <2> QED BY <2>1
<1>3. Nat \subseteq Sizes
  <2> HIDE DEF Sizes
  <2> QED BY <1>1, <1>2, EverySize
<1> QED BY <1>0, <1>3

LEMMA SubtotalNat ==
  ASSUME NEW set, IsFiniteSet(set), \A row \in set : row.total \in Nat
  PROVE  Subtotal(set) \in Nat
<1> DEFINE Sizes == {n \in Nat : \A s \in SUBSET set : Cardinality(s) = n => Subtotal(s) \in Nat}
<1>0. \A s \in SUBSET set : Priced(s) /\ Cardinality(s) \in Nat
  BY FS_Subset, FS_CardinalityType DEF Priced
<1>1. 0 \in Sizes
  BY <1>0, FS_EmptySet, SubtotalOfNone DEF Priced
<1>2. ASSUME NEW n \in Nat, n \in Sizes PROVE n + 1 \in Sizes
  <2>1. ASSUME NEW s \in SUBSET set, Cardinality(s) = n + 1 PROVE Subtotal(s) \in Nat
    <3>1. IsFiniteSet(s) /\ Priced(s) /\ s # {}
      BY <1>0, <2>1, FS_EmptySet DEF Priced
    <3>2. Taken(s) \in s /\ Cardinality(s \ {Taken(s)}) = n
      BY <2>1, <3>1, TakenSmaller
    <3>3. Subtotal(s \ {Taken(s)}) \in Nat /\ Taken(s).total \in Nat
      BY <1>2, <3>2
    <3> QED BY <3>1, <3>3, SubtotalTakes
  <2> QED BY <2>1
<1>3. Nat \subseteq Sizes
  <2> HIDE DEF Sizes
  <2> QED BY <1>1, <1>2, EverySize
<1> QED BY <1>0, <1>3

-----------------------------------------------------------------------------
(* The invariant.                                                          *)

LEMMA IInvInit == Init => IInv
<1> SUFFICES ASSUME Init PROVE IInv
  OBVIOUS
<1> USE DEF Init
<1>1. TypeOK
  BY QuoteAssumption, FS_EmptySet DEF TypeOK, Stages, Ops, QuoteOps, Statements
<1>2. \A q : LinesOf(q) = {} /\ OrdersOf(q) = {}
  BY DEF LinesOf, OrdersOf
<1>3. TotalsAgree
  <2>1. TotalsOf({}, 0).discount = 0 /\ TotalsOf({}, 0).total = 0
    BY SubtotalOfNone DEF TotalsOf, Total
  <2> QED BY <1>2, <2>1 DEF TotalsAgree
<1>4. OrdersMatch /\ RowIds /\ OrderVersions
  BY <1>2 DEF OrdersMatch, RowIds, OrderVersions
<1>5. Apart
  BY DEF Apart, Creating, Adding
<1>6. \A c \in Calls : CallOK(c)
  BY DEF CallOK, Placed, Existing, Fresh, OwnLine, OwnOrder, Creating, Adding, HasRead, HasListed
<1> QED BY <1>1, <1>3, <1>4, <1>5, <1>6 DEF IInv

LEMMA StutterCall ==
  ASSUME NEW c \in Calls, CallOK(c), UNCHANGED <<status, totals, version, lines>>,
         UNCHANGED <<op, pc, on, line, amount, read, listed, number>>
  PROVE  CallOK(c)'
<1>1. Placed(c)' /\ Existing(c)' /\ OwnLine(c)' /\ OwnOrder(c)'
  BY DEF CallOK, Placed, Existing, OwnLine, OwnOrder, Creating, Adding, HasRead
<1>2. LinesOf(on[c])' = LinesOf(on[c]) /\ Written(c, LinesOf(on[c]))' = Written(c, LinesOf(on[c]))
  BY DEF LinesOf, Written
<1>3. Fresh(c)'
  BY <1>2 DEF CallOK, Fresh, HasRead, HasListed, VersionHolds
<1> QED BY <1>1, <1>3 DEF CallOK

\* A transaction's own variables are its own.
LEMMA StepLeavesOthers ==
  ASSUME TypeOK, NEW c \in Calls, Step(c)
  PROVE  \A d \in Calls \ {c} : LocalSame(d)
<1> USE DEF TypeOK, LocalSame
<1>1. CASE StartOnQuote(c) \/ StartOnLine(c) \/ StartOnOrder(c)
  BY <1>1 DEF StartOnQuote, StartOnLine, StartOnOrder, Begin, Goto
<1>2. CASE Statement(c)
  BY <1>2 DEF Statement, ReadLine, ReadQuote, ReadOrder, ReadLineNumber, WriteLine, ListLines, Count, Insert, Goto
<1>3. CASE Reset(c)
  BY <1>3 DEF Reset, Goto
<1> QED BY <1>1, <1>2, <1>3 DEF Step, Statement, Commit, Fail

LEMMA IInvStep == IInv /\ [Next]_vars => IInv'
<1> SUFFICES ASSUME IInv, [Next]_vars PROVE IInv'
  OBVIOUS
<1>0. TypeOK' /\ TypeOK
  BY TypesStep DEF IInv
<1>1. ASSUME NEW c \in Calls, Step(c) PROVE IInv'
  <2>1. RowsMove(c) /\ TotalsAgree' /\ OrdersMatch' /\ RowIds' /\ OrderVersions'
    <3>1. CASE Commit(c)
      BY <3>1, CommitRows, CommitTotalsAgree, CommitOrdersMatch
    <3>2. CASE UNCHANGED rows
      <4>1. UNCHANGED <<status, totals, lines, orders>>
        BY <3>2 DEF rows, quoteRows
      <4> QED BY <1>0, <3>2, <4>1, QuietRows DEF IInv, TotalsAgree, OrdersMatch, RowIds, OrderVersions, LinesOf, OrdersOf
    <3> QED BY <1>1, <3>1, <3>2 DEF Step, StartOnQuote, StartOnLine, StartOnOrder, Begin, ReadLine, ReadQuote, ReadOrder,
              ReadLineNumber, WriteLine, ListLines, Count, Insert, Fail
  <2>2. CallOK(c)' /\ Apart'
    <3>1. CASE Reset(c)
      BY <1>0, <3>1, ResetCall, ResetApart
    <3> QED BY <1>0, <1>1, <3>1, StartCall, StatementCall, StatementApart DEF Step, Statement, Commit, Fail
  <2>3. \A d \in Calls \ {c} : LocalSame(d)
    BY <1>0, <1>1, StepLeavesOthers
  <2>4. \A d \in Calls \ {c} : CallOK(d)'
    BY <1>0, <2>1, <2>3, OtherCall
  <2> QED BY <1>0, <2>1, <2>2, <2>4 DEF IInv
<1>2. CASE UNCHANGED vars
  <2>1. UNCHANGED <<rows, status, totals, version, lines, orders>>
        /\ UNCHANGED <<op, pc, on, line, amount, read, listed, number>>
    BY <1>2 DEF vars, rows, quoteRows, local
  <2>2. TotalsAgree' /\ OrdersMatch' /\ RowIds' /\ OrderVersions' /\ Apart'
    BY <2>1 DEF IInv, TotalsAgree, OrdersMatch, RowIds, OrderVersions, Apart, LinesOf, OrdersOf, Creating, Adding
  <2>3. ASSUME NEW c \in Calls PROVE CallOK(c)'
    BY <2>1, StutterCall DEF IInv
  <2> QED BY <1>0, <2>2, <2>3 DEF IInv
<1> QED BY <1>1, <1>2 DEF Next

LEMMA IInvAlways == Spec => []IInv
  BY IInvInit, IInvStep, PTL DEF Spec

(* Rows, statements and payloads keep their types. *)
THEOREM TypeCorrect == Spec => []TypeOK
<1>1. IInv => TypeOK
  BY DEF IInv
<1> QED BY <1>1, IInvAlways, PTL

(* However many commands edit a quote at once, its money is the sum of its  *)
(* lines less its discount, and not negative (recalculateQuoteTotals).      *)
THEOREM TotalsAlwaysAgree == Spec => []TotalsAgree
<1>1. IInv => TotalsAgree
  BY DEF IInv
<1> QED BY <1>1, IInvAlways, PTL

(* However many conversions, cancellations and edits race, an accepted      *)
(* quote has exactly one order, with its money, and no other quote has one  *)
(* (createOrder, without a unique index on the order's quote).              *)
THEOREM OneOrderPerAcceptedQuote == Spec => []OrdersMatch
<1>1. IInv => OrdersMatch
  BY DEF IInv
<1> QED BY <1>1, IInvAlways, PTL
-----------------------------------------------------------------------------
(* Every step does to a document what QuoteLifecycle does, or nothing.      *)
Content == [q \in Quotes |-> [lines |-> LinesOf(q), discount |-> totals[q].discount]]
Placement(o) == [worth |-> o.totals.total, status |-> o.status]
Placements == [q \in Quotes |-> {Placement(o) : o \in OrdersOf(q)}]

\* What the document is worth is what its row says.
LEMMA WorthOfRow ==
  ASSUME TotalsAgree, NEW q \in Quotes
  PROVE  Total(LinesOf(q), totals[q].discount) = totals[q].total
<1>1. totals[q] = TotalsOf(LinesOf(q), totals[q].discount)
  BY DEF TotalsAgree
<1> QED BY <1>1 DEF TotalsOf

\* QuoteLifecycle's money is Money's.
LEMMA SameWorth == ASSUME NEW c PROVE Lifecycle!Worth(c) = Total(c.lines, c.discount)
<1>1. Lifecycle!Total(c.lines, c.discount) = Total(c.lines, c.discount)
  BY DEF Lifecycle!Total, Total, Lifecycle!Subtotal, Subtotal,
     MapThenSumSet, Lifecycle!MapThenSumSet, MapThenFoldSet, Lifecycle!MapThenFoldSet
<1> QED BY <1>1 DEF Lifecycle!Worth

LEMMA CommitRefines ==
  ASSUME IInv, TotalsAgree', NEW c \in Calls, Commit(c)
  PROVE  Lifecycle!Next
<1>0. pc[c] = "commit" /\ CallOK(c) /\ TypeOK /\ OrdersMatch /\ OrderVersions /\ TotalsAgree
  BY DEF Commit, IInv
<1>1. PICK q \in Quotes : q = on[c]
  BY <1>0 DEF CallOK, Placed
<1> USE DEF Lifecycle!Next, Lifecycle!Move
<1>2. CASE CommitTotals(c)
  <2>1. op[c] \in Versioned /\ op[c] \notin {"CancelQuote", "CreateOrder"}
    BY <1>2 DEF CommitTotals, Versioned, LineEdits, Ops, QuoteOps
  <2>2. status[q] = "draft"
    BY <1>0, <1>1, <1>2, <2>1, CommitRelies DEF CommitTotals, Allowed
  <2>3. UNCHANGED <<status, Placements>>
    BY <1>2 DEF CommitTotals, Placements, OrdersOf
  <2>4. \A p \in Quotes \ {q} : LinesOf(p)' = LinesOf(p) /\ totals'[p] = totals[p]
    BY <1>0, <1>1, <1>2, WrittenLines DEF CommitTotals, TypeOK
  <2>5. Content' = [Content EXCEPT ![q] = Content'[q]]
    BY <2>4 DEF Content
  <2>6. Total(Content'[q].lines, Content'[q].discount) >= 0
    <3>1. totals'[q] = TotalsOf(LinesOf(q)', totals'[q].discount) /\ totals'[q].total >= 0
      BY <1>0, Zenon DEF TotalsAgree
    <3>2. totals'[q].total = Total(LinesOf(q)', totals'[q].discount)
      BY <3>1 DEF TotalsOf
    <3> QED BY <3>1, <3>2 DEF Content
  <2>7. Lifecycle!Edit(q)
    <3>1. Lifecycle!Worth(Content'[q]) >= 0
      BY <2>6, SameWorth, Zenon
    <3> QED BY <2>2, <2>3, <2>5, <3>1 DEF Lifecycle!Edit, Content, Placements, Placement
  <2> QED BY <2>7
<1>3. CASE CommitStatus(c)
  <2>1. op[c] \in Versioned /\ VersionHolds(c) /\ op[c] \in {"SubmitQuote", "CancelQuote"}
    BY <1>3 DEF CommitStatus, Versioned, LineEdits, Ops, QuoteOps
  <2>2. UNCHANGED <<Content, Placements>>
    BY <1>3 DEF CommitStatus, Content, Placements, LinesOf, OrdersOf
  <2>3. CASE op[c] = "SubmitQuote"
    <3>1. status[q] = "draft" /\ LinesOf(q) # {} /\ status' = [status EXCEPT ![q] = "submitted"]
      BY <1>0, <1>1, <1>3, <2>1, <2>3, CommitRelies DEF CommitStatus, Allowed, NeedsLines
    <3>2. Lifecycle!Submit(q)
      BY <2>2, <3>1 DEF Lifecycle!Submit, Content, Placements, Placement
    <3> QED BY <3>2
  <2>4. CASE op[c] = "CancelQuote"
    <3>1. status[q] \in {"draft", "submitted"} /\ status' = [status EXCEPT ![q] = "cancelled"]
      BY <1>0, <1>1, <1>3, <2>1, <2>4, CommitRelies DEF CommitStatus, Allowed
    <3>2. Lifecycle!Cancel(q)
      BY <2>2, <3>1 DEF Lifecycle!Cancel, Content, Placements, Placement
    <3> QED BY <3>2
  <2> QED BY <2>1, <2>3, <2>4
<1>4. CASE CommitOrder(c)
  <2>1. op[c] \in Versioned /\ VersionHolds(c) /\ op[c] = "CreateOrder"
    BY <1>4 DEF CommitOrder, Versioned, LineEdits, Ops, QuoteOps
  <2>2. status[q] = "submitted" /\ read[c].totals = totals[q] /\ status' = [status EXCEPT ![q] = "accepted"]
    BY <1>0, <1>1, <1>4, <2>1, CommitRelies DEF CommitOrder, Allowed
  <2> DEFINE new == OrderRow(number[c], q, "open", totals[q], 0)
  <2>3. orders' = orders \union {new} /\ UNCHANGED Content
    BY <1>1, <1>4, <2>2 DEF CommitOrder, Content, LinesOf
  <2>4. OrdersOf(q) = {} /\ new.quote = q /\ Placement(new) = [worth |-> totals[q].total, status |-> "open"]
    BY <1>0, <2>2 DEF OrdersMatch, OrderRow, Placement
  <2> HIDE DEF new
  <2>5. \A p \in Quotes : OrdersOf(p)' = IF p = q THEN {new} ELSE OrdersOf(p)
    BY <2>3, <2>4 DEF OrdersOf
  <2>6. Placements' = [Placements EXCEPT ![q] = {[worth |-> totals[q].total, status |-> "open"]}]
    BY <2>4, <2>5 DEF Placements
  <2>7. Placements[q] = {}
    BY <2>4 DEF Placements
  <2>8. Total(Content[q].lines, Content[q].discount) = totals[q].total
    BY <1>0, WorthOfRow DEF Content
  <2>9. Lifecycle!Order(q)
    <3>1. Lifecycle!Worth(Content[q]) = totals[q].total
      BY <2>8, SameWorth, Zenon
    <3> QED BY <2>2, <2>3, <2>6, <2>7, <3>1 DEF Lifecycle!Order, Content, Placements, Placement
  <2> QED BY <2>9
<1>5. CASE CommitQuote(c)
  <2>1. status[q] = "none" /\ status' = [status EXCEPT ![q] = "draft"]
    BY <1>0, <1>1, <1>5 DEF CommitQuote, CallOK, Existing, Creating
  <2>2. UNCHANGED <<Content, Placements>>
    BY <1>5 DEF CommitQuote, Content, Placements, LinesOf, OrdersOf
  <2>3. Lifecycle!Create(q)
    BY <2>1, <2>2 DEF Lifecycle!Create, Content, Placements, Placement
  <2> QED BY <2>3
<1>6. CASE CommitOrderCancelled(c)
  <2>1. PICK o \in orders : /\ o.version = read[c].version
                            /\ orders' = (orders \ {o}) \union {OrderRow(o.number, o.quote, "cancelled", o.totals, read[c].version + 1)}
    BY <1>6 DEF CommitOrderCancelled
  <2>2. PICK p \in Quotes : p = o.quote
    BY <1>0 DEF TypeOK
  <2>3. o.status = "open"
    BY <1>0, <1>6, <2>1 DEF CommitOrderCancelled, CallOK, OwnOrder, OrderVersions
  <2> DEFINE new == OrderRow(o.number, o.quote, "cancelled", o.totals, read[c].version + 1)
             w == o.totals.total
  <2>4. new.quote = p /\ Placement(new) = [worth |-> w, status |-> "cancelled"] /\ Placement(o) = [worth |-> w, status |-> "open"]
    BY <2>2, <2>3 DEF OrderRow, Placement
  <2>5. orders' = (orders \ {o}) \union {new} /\ UNCHANGED <<status, Content>>
    BY <1>6, <2>1 DEF CommitOrderCancelled, quoteRows, Content, LinesOf
  <2> HIDE DEF new, w
  <2>6. OrdersOf(p) = {o}
    BY <1>0, <2>2 DEF OrdersMatch, OrdersOf
  <2>7. \A r \in Quotes : OrdersOf(r)' = IF r = p THEN {new} ELSE OrdersOf(r)
    BY <2>4, <2>5, <2>6 DEF OrdersOf
  <2>8. Placements[p] = {[worth |-> w, status |-> "open"]}
    BY <2>4, <2>6 DEF Placements
  <2>9. Placements' = [Placements EXCEPT ![p] = {[worth |-> w, status |-> "cancelled"]}]
    BY <2>4, <2>7 DEF Placements
  <2>10. w \in {x.worth : x \in Placements[p]} /\ [worth |-> w, status |-> "open"] \in Placements[p]
    BY <2>8
  <2>11. Lifecycle!CancelOrder(p)
    BY <2>5, <2>9, <2>10 DEF Lifecycle!CancelOrder, Content, Placements, Placement
  <2> QED BY <2>11
<1> QED BY <1>2, <1>3, <1>4, <1>5, <1>6 DEF Commit

(* Interleaved transactions do what the document of QuoteLifecycle does.    *)
THEOREM LifecycleRefined == Spec => LifecycleSpec
<1>1. Init => Lifecycle!Init
  <2> SUFFICES ASSUME Init PROVE Lifecycle!Init
    OBVIOUS
  <2>1. \A q \in Quotes : LinesOf(q) = {} /\ OrdersOf(q) = {} /\ totals[q].discount = 0
    BY DEF Init, LinesOf, OrdersOf, TotalsOf
  <2> QED BY <2>1 DEF Init, Lifecycle!Init
<1>2. IInv /\ IInv' /\ [Next]_vars => [Lifecycle!Next]_(Lifecycle!vars)
  <2> SUFFICES ASSUME IInv, IInv', [Next]_vars PROVE [Lifecycle!Next]_(Lifecycle!vars)
    OBVIOUS
  <2>1. ASSUME NEW c \in Calls, Commit(c) PROVE Lifecycle!Next
    BY <2>1, CommitRefines DEF IInv
  <2>2. CASE UNCHANGED rows
    <3>1. UNCHANGED <<status, totals, lines, orders>>
      BY <2>2 DEF rows, quoteRows
    <3> QED BY <3>1 DEF Lifecycle!vars, LinesOf, OrdersOf
  <2>3. ASSUME NEW c \in Calls, Step(c) PROVE Commit(c) \/ UNCHANGED rows
    BY <2>3 DEF Step, StartOnQuote, StartOnLine, StartOnOrder, Begin, ReadLine, ReadQuote, ReadOrder,
       ReadLineNumber, WriteLine, ListLines, Count, Insert, Fail
  <2>4. CASE UNCHANGED vars
    BY <2>2, <2>4 DEF vars
  <2> QED BY <2>1, <2>2, <2>3, <2>4 DEF Next
<1> QED BY <1>1, <1>2, IInvAlways, PTL DEF Spec, LifecycleSpec, Lifecycle!Spec

-----------------------------------------------------------------------------
(* Numbers.  Whoever is about to commit a new quote or order counted the    *)
(* rows before, so its number is one more than their count at most, and     *)
(* the unique index keeps it from those taken: it is the next one.          *)
Numbering == {"CreateQuote", "CreateOrder"}
Numbered(o) == IF o = "CreateOrder" THEN Cardinality(orders) ELSE Cardinality(Created)

Counted(c) == \A o \in Numbering : op[c] = o =>
  /\ pc[c] \in {"insert", "commit"} => number[c] \in 1..(Numbered(o) + 1)
  /\ pc[c] = "commit" => number[c] \notin NumbersTaken(o)

\* Two transactions that have inserted hold different entries of the index.
IndexHeld == \A c, d \in Calls : \A o \in Numbering :
  c # d /\ pc[c] = "commit" /\ pc[d] = "commit" /\ op[c] = o /\ op[d] = o => number[c] # number[d]

NumbersOnce == \A o, p \in orders : o.number = p.number => o = p
Dense == \A o \in Numbering : NumbersTaken(o) = 1..Numbered(o)

NumberInv == Dense /\ NumbersOnce /\ IndexHeld /\ \A c \in Calls : Counted(c)

LEMMA DenseIsNumbersDense == Dense <=> NumbersDense
  BY DEF Dense, Numbering, NumbersTaken, Numbered, NumbersDense

LEMMA NumberedNat == ASSUME TypeOK PROVE \A o : Numbered(o) \in Nat
<1>1. Cardinality(orders) \in Nat
  BY FS_CardinalityType DEF TypeOK
<1> QED BY <1>1, CreatedFinite DEF Numbered

\* The number of a transaction about to commit is the next one.
LEMMA NumberIsNext ==
  ASSUME TypeOK, NumberInv, NEW c \in Calls, NEW o \in Numbering, op[c] = o, pc[c] = "commit"
  PROVE  number[c] = Numbered(o) + 1
<1>1. number[c] \in 1..(Numbered(o) + 1) /\ number[c] \notin 1..Numbered(o)
  BY DEF NumberInv, Counted, Dense
<1> QED BY <1>1, NumberedNat

(* A commit takes the next number for what it creates, and none else. *)
LEMMA CommitCounts ==
  ASSUME IInv, NumberInv, NEW c \in Calls, Commit(c)
  PROVE  /\ \A o \in Numbering \ {op[c]} : NumbersTaken(o)' = NumbersTaken(o) /\ Numbered(o)' = Numbered(o)
         /\ \A o \in Numbering : op[c] = o =>
              NumbersTaken(o)' = NumbersTaken(o) \union {number[c]} /\ Numbered(o)' = Numbered(o) + 1
         /\ NumbersOnce'
<1>0. pc[c] = "commit" /\ CallOK(c) /\ TypeOK /\ on[c] \in Quotes
  BY DEF Commit, IInv, CallOK, Placed
<1>1. CASE CommitTotals(c) \/ CommitStatus(c)
  <2>1. op[c] \notin Numbering /\ orders' = orders /\ quoteNumber' = quoteNumber
    BY <1>1 DEF CommitTotals, CommitStatus, Numbering, LineEdits
  <2>2. \A q \in Quotes : status'[q] # "none" <=> status[q] # "none"
    <3>1. CASE CommitTotals(c)
      BY <3>1 DEF CommitTotals
    <3>2. CASE CommitStatus(c)
      <4>1. HasRead(c)
        BY <1>0, <3>2 DEF CommitStatus, HasRead, Versioned, Ops, QuoteOps
      <4>2. status[on[c]] # "none"
        BY <1>0, <4>1 DEF CallOK, Existing
      <4> QED BY <1>0, <3>2, <4>2 DEF CommitStatus, TypeOK
    <3> QED BY <1>1, <3>1, <3>2
  <2>3. Created' = Created
    BY <2>2 DEF Created
  <2> QED BY <2>1, <2>3 DEF NumberInv, NumbersOnce, NumbersTaken, Numbered, Numbering
<1>2. CASE CommitOrder(c)
  <2>1. op[c] = "CreateOrder" /\ HasRead(c)
    BY <1>0, <1>2 DEF CommitOrder, HasRead, Versioned, Ops, QuoteOps
  <2> DEFINE new == OrderRow(number[c], on[c], "open", read[c].totals, 0)
  <2>2. orders' = orders \union {new} /\ new.number = number[c]
    BY <1>2 DEF CommitOrder, OrderRow
  <2> HIDE DEF new
  <2>3. number[c] \notin {x.number : x \in orders}
    BY <1>0, <2>1 DEF NumberInv, Counted, NumbersTaken, Numbering
  <2>4. new \notin orders
    BY <2>2, <2>3
  <2>5. Cardinality(orders') = Cardinality(orders) + 1
    BY <1>0, <2>2, <2>4, FS_AddElement DEF TypeOK
  <2>6. {x.number : x \in orders'} = {x.number : x \in orders} \union {number[c]}
    BY <2>2
  <2>7. NumbersOnce'
    BY <2>2, <2>3 DEF NumberInv, NumbersOnce
  <2>8. status[on[c]] # "none"
    BY <2>1, <1>0 DEF CallOK, Existing
  <2>9. Created' = Created /\ quoteNumber' = quoteNumber
    BY <1>0, <1>2, <2>8 DEF CommitOrder, Created, TypeOK
  <2> QED BY <2>1, <2>5, <2>6, <2>7, <2>9 DEF NumbersTaken, Numbered, Numbering
<1>3. CASE CommitQuote(c)
  <2>1. op[c] = "CreateQuote" /\ Creating(c) /\ orders' = orders
    BY <1>0, <1>3 DEF CommitQuote, Creating
  <2>2. status[on[c]] = "none"
    BY <1>0, <2>1 DEF CallOK, Existing
  <2>3. Created' = Created \union {on[c]} /\ on[c] \notin Created
    BY <1>0, <1>3, <2>2 DEF CommitQuote, Created, TypeOK
  <2>4. IsFiniteSet(Created)
    BY QuoteAssumption, FS_Subset DEF Created
  <2>5. Cardinality(Created') = Cardinality(Created) + 1
    BY <2>3, <2>4, FS_AddElement
  <2>6. \A q \in Quotes : quoteNumber'[q] = IF q = on[c] THEN number[c] ELSE quoteNumber[q]
    BY <1>0, <1>3 DEF CommitQuote, TypeOK
  <2>7. {quoteNumber'[q] : q \in Created'} = {quoteNumber[q] : q \in Created} \union {number[c]}
    BY <1>0, <2>3, <2>6 DEF Created
  <2>8. NumbersOnce'
    BY <2>1 DEF NumberInv, NumbersOnce
  <2> QED BY <2>1, <2>5, <2>7, <2>8 DEF NumbersTaken, Numbered, Numbering
<1>4. CASE CommitOrderCancelled(c)
  <2>1. PICK o \in orders :
          orders' = (orders \ {o}) \union {OrderRow(o.number, o.quote, "cancelled", o.totals, read[c].version + 1)}
    BY <1>4 DEF CommitOrderCancelled
  <2> DEFINE new == OrderRow(o.number, o.quote, "cancelled", o.totals, read[c].version + 1)
  <2>2. orders' = (orders \ {o}) \union {new} /\ new.number = o.number
    BY <2>1 DEF OrderRow
  <2> HIDE DEF new
  <2>3. \A x \in orders \ {o} : x.number # o.number
    BY DEF NumberInv, NumbersOnce
  <2>4. new \notin orders \ {o}
    BY <2>2, <2>3
  <2>5. IsFiniteSet(orders) /\ Cardinality(orders) \in Nat
    BY <1>0, FS_CardinalityType DEF TypeOK
  <2>6. Cardinality(orders') = Cardinality(orders)
    <3> DEFINE others == orders \ {o}
    <3>1. IsFiniteSet(others) /\ Cardinality(others) = Cardinality(orders) - 1
      BY <2>5, FS_RemoveElement
    <3>2. Cardinality(others \union {new}) = Cardinality(others) + 1
      <4> HIDE DEF others
      <4> QED BY <2>4, <3>1, FS_AddElement DEF others
    <3> QED BY <2>2, <2>5, <3>1, <3>2
  <2>7. {x.number : x \in orders'} = {x.number : x \in orders}
    BY <2>2
  <2>8. NumbersOnce'
    BY <2>2, <2>3 DEF NumberInv, NumbersOnce
  <2>9. op[c] \notin Numbering /\ Created' = Created /\ quoteNumber' = quoteNumber
    BY <1>4 DEF CommitOrderCancelled, Numbering, Created, quoteRows
  <2> QED BY <2>6, <2>7, <2>8, <2>9 DEF NumbersTaken, Numbered, Numbering
<1> QED BY <1>1, <1>2, <1>3, <1>4 DEF Commit

\* What c has done does not concern the number that d holds or has counted.
LEMMA OtherNumber ==
  ASSUME NumberInv, TypeOK, NEW d \in Calls, LocalSame(d),
         \A o \in Numbering : /\ Numbered(o)' \in Nat /\ Numbered(o) <= Numbered(o)'
                              /\ op[d] = o /\ pc[d] = "commit" => number[d] \notin NumbersTaken(o)'
  PROVE  Counted(d)'
<1> SUFFICES ASSUME NEW o \in Numbering, op'[d] = o
             PROVE  /\ pc'[d] \in {"insert", "commit"} => number'[d] \in 1..(Numbered(o)' + 1)
                    /\ pc'[d] = "commit" => number'[d] \notin NumbersTaken(o)'
  BY DEF Counted
<1>1. op[d] = o /\ pc'[d] = pc[d] /\ number'[d] = number[d]
  BY DEF LocalSame
<1>2. pc[d] \in {"insert", "commit"} => number[d] \in 1..(Numbered(o) + 1)
  BY <1>1 DEF NumberInv, Counted
<1> QED BY <1>1, <1>2, NumberedNat

LEMMA NumberInvInit == Init => NumberInv
<1> SUFFICES ASSUME Init PROVE NumberInv
  OBVIOUS
<1>1. Created = {} /\ orders = {}
  BY DEF Init, Created
<1>2. Cardinality({}) = 0
  BY FS_EmptySet
<1>3. Dense
  BY <1>1, <1>2 DEF Dense, NumbersTaken, Numbered
<1>4. \A c \in Calls : pc[c] = "idle"
  BY DEF Init
<1> QED BY <1>1, <1>3, <1>4 DEF NumberInv, NumbersOnce, IndexHeld, Counted

LEMMA CommitNumberInv ==
  ASSUME IInv, NumberInv, NEW c \in Calls, Commit(c), \A d \in Calls \ {c} : LocalSame(d)
  PROVE  NumberInv'
<1>0. TypeOK /\ pc[c] = "commit" /\ pc'[c] = "idle"
  BY DEF IInv, Commit, Reset, Goto, TypeOK
<1>1. /\ \A o \in Numbering \ {op[c]} : NumbersTaken(o)' = NumbersTaken(o) /\ Numbered(o)' = Numbered(o)
      /\ \A o \in Numbering : op[c] = o =>
           NumbersTaken(o)' = NumbersTaken(o) \union {number[c]} /\ Numbered(o)' = Numbered(o) + 1
      /\ NumbersOnce'
  BY CommitCounts
<1>2. \A o \in Numbering : Numbered(o) \in Nat /\ Numbered(o)' \in Nat /\ Numbered(o) <= Numbered(o)'
  BY <1>0, <1>1, NumberedNat
<1>3. Dense'
  <2> SUFFICES ASSUME NEW o \in Numbering PROVE NumbersTaken(o)' = 1..Numbered(o)'
    BY DEF Dense
  <2>1. NumbersTaken(o) = 1..Numbered(o) /\ Numbered(o) \in Nat
    BY <1>2 DEF NumberInv, Dense
  <2>2. CASE op[c] = o
    <3>1. number[c] = Numbered(o) + 1
      BY <1>0, <2>2, NumberIsNext
    <3>2. 1..Numbered(o) \union {Numbered(o) + 1} = 1..(Numbered(o) + 1)
      BY <2>1
    <3> QED BY <1>1, <2>1, <2>2, <3>1, <3>2
  <2>3. CASE op[c] # o
    BY <1>1, <2>1, <2>3
  <2> QED BY <2>2, <2>3
<1>4. ASSUME NEW d \in Calls \ {c} PROVE Counted(d)'
  <2>1. ASSUME NEW o \in Numbering, op[d] = o, pc[d] = "commit"
        PROVE  number[d] \notin NumbersTaken(o)'
    <3>1. number[d] \notin NumbersTaken(o)
      BY <2>1 DEF NumberInv, Counted
    <3>2. op[c] = o => number[d] # number[c]
      BY <1>0, <2>1 DEF NumberInv, IndexHeld
    <3> QED BY <1>1, <3>1, <3>2
  <2> QED BY <1>0, <1>2, <2>1, OtherNumber
<1>5. Counted(c)'
  BY <1>0 DEF Counted
<1>6. IndexHeld'
  BY <1>0 DEF NumberInv, IndexHeld, LocalSame
<1> QED BY <1>1, <1>3, <1>4, <1>5, <1>6 DEF NumberInv

(* Short of a commit only Count and Insert bring a transaction to where a   *)
(* number matters.                                                          *)
LEMMA QuietNumberInv ==
  ASSUME IInv, NumberInv, NEW c \in Calls, Step(c), ~Commit(c), \A d \in Calls \ {c} : LocalSame(d)
  PROVE  NumberInv'
<1>0. TypeOK /\ CallOK(c)
  BY DEF IInv
<1>1. UNCHANGED rows
  BY DEF Step, StartOnQuote, StartOnLine, StartOnOrder, Begin, ReadLine, ReadQuote, ReadOrder,
         ReadLineNumber, WriteLine, ListLines, Count, Insert, Fail
<1>2. /\ \A o : NumbersTaken(o)' = NumbersTaken(o) /\ Numbered(o)' = Numbered(o)
      /\ Dense' /\ NumbersOnce'
  <2>1. UNCHANGED <<status, quoteNumber, orders>>
    BY <1>1 DEF rows, quoteRows
  <2>2. Created' = Created
    BY <2>1 DEF Created
  <2>3. \A o : NumbersTaken(o)' = NumbersTaken(o) /\ Numbered(o)' = Numbered(o)
    BY <2>1, <2>2 DEF NumbersTaken, Numbered
  <2> QED BY <2>1, <2>3 DEF NumberInv, Dense, NumbersOnce
<1>3. \A d \in Calls \ {c} : Counted(d)'
  BY <1>0, <1>2, NumberedNat, OtherNumber DEF NumberInv, Counted
<1>4. CASE Count(c)
  <2>1. op' = op /\ pc'[c] = "insert" /\ op[c] \in Numbering
    BY <1>0, <1>4 DEF Count, Goto, CallOK, Placed, TypeOK, Numbering
  <2>2. number'[c] = 1 + Numbered(op[c])
    BY <1>0, <1>4 DEF Count, TypeOK, Numbered
  <2>3. Counted(c)'
    <3> SUFFICES ASSUME NEW o \in Numbering, op[c] = o PROVE number'[c] \in 1..(Numbered(o)' + 1)
      BY <2>1 DEF Counted
    <3> QED BY <1>0, <1>2, <2>2, NumberedNat
  <2>4. IndexHeld'
    BY <2>1 DEF NumberInv, IndexHeld, LocalSame
  <2> QED BY <1>2, <1>3, <2>3, <2>4 DEF NumberInv
<1>5. CASE Insert(c)
  <2>1. /\ UNCHANGED <<op, number>> /\ pc[c] = "insert" /\ pc'[c] = "commit"
        /\ number[c] \notin NumbersTaken(op[c]) /\ ~NumberHeld(c)
    BY <1>0, <1>5 DEF Insert, Goto, TypeOK
  <2>2. Counted(c)'
    <3> SUFFICES ASSUME NEW o \in Numbering, op[c] = o
                 PROVE  number[c] \in 1..(Numbered(o)' + 1) /\ number[c] \notin NumbersTaken(o)'
      BY <2>1 DEF Counted
    <3>1. number[c] \in 1..(Numbered(o) + 1)
      BY <2>1 DEF NumberInv, Counted
    <3> QED BY <1>2, <2>1, <3>1
  <2>3. IndexHeld'
    <3> SUFFICES ASSUME NEW d \in Calls, NEW e \in Calls, NEW o \in Numbering, d # e,
                        pc'[d] = "commit", pc'[e] = "commit", op[d] = o, op[e] = o
                 PROVE  number[d] # number[e]
      BY <2>1 DEF IndexHeld
    <3>1. CASE d # c /\ e # c
      BY <3>1 DEF NumberInv, IndexHeld, LocalSame
    <3>2. CASE d = c
      <4>1. pc[e] = "commit"
        BY <3>2 DEF LocalSame
      <4> QED BY <2>1, <3>2, <4>1 DEF NumberHeld
    <3>3. CASE e = c
      <4>1. pc[d] = "commit"
        BY <3>3 DEF LocalSame
      <4> QED BY <2>1, <3>3, <4>1 DEF NumberHeld
    <3> QED BY <3>1, <3>2, <3>3
  <2> QED BY <1>2, <1>3, <2>2, <2>3 DEF NumberInv
<1>6. CASE ~Count(c) /\ ~Insert(c)
  <2>1. pc'[c] \in {"insert", "commit"} => op'[c] \notin Numbering
    <3>1. CASE StartOnQuote(c) \/ StartOnLine(c) \/ StartOnOrder(c)
      BY <1>0, <3>1 DEF StartOnQuote, StartOnLine, StartOnOrder, Begin, First, Goto, TypeOK
    <3>2. CASE ReadLine(c) \/ ReadLineNumber(c) \/ WriteLine(c)
      BY <1>0, <3>2 DEF ReadLine, ReadLineNumber, WriteLine, Goto, TypeOK
    <3>3. CASE ReadQuote(c)
      BY <1>0, <3>3 DEF ReadQuote, AfterQuote, Goto, TypeOK
    <3>4. CASE ReadOrder(c)
      <4>1. op' = op /\ pc'[c] = (IF op[c] = "CreateOrder" THEN "list" ELSE "commit") /\ pc[c] = "order"
        BY <1>0, <3>4 DEF ReadOrder, Goto, TypeOK
      <4> QED BY <1>0, <4>1 DEF CallOK, Placed, Numbering
    <3>5. CASE ListLines(c)
      <4>1. op' = op /\ pc'[c] = (IF op[c] = "CreateOrder" THEN "count" ELSE "commit") /\ pc[c] = "list"
        BY <1>0, <3>5 DEF ListLines, Goto, TypeOK
      <4> QED BY <1>0, <4>1 DEF CallOK, Placed, Numbering
    <3>6. CASE Fail(c)
      BY <1>0, <3>6 DEF Fail, Reset, Goto, TypeOK
    <3> QED BY <1>6, <3>1, <3>2, <3>3, <3>4, <3>5, <3>6 DEF Step
  <2>2. Counted(c)'
    BY <2>1 DEF Counted
  <2>3. IndexHeld'
    BY <2>1 DEF NumberInv, IndexHeld, LocalSame
  <2> QED BY <1>2, <1>3, <2>2, <2>3 DEF NumberInv
<1> QED BY <1>4, <1>5, <1>6

LEMMA NumberInvStep == IInv /\ NumberInv /\ [Next]_vars => NumberInv'
<1> SUFFICES ASSUME IInv, NumberInv, [Next]_vars PROVE NumberInv'
  OBVIOUS
<1>1. ASSUME NEW c \in Calls, Step(c) PROVE NumberInv'
  <2>1. \A d \in Calls \ {c} : LocalSame(d)
    BY <1>1, StepLeavesOthers DEF IInv
  <2> QED BY <1>1, <2>1, CommitNumberInv, QuietNumberInv
<1>2. CASE UNCHANGED vars
  <2>1. UNCHANGED <<status, quoteNumber, orders, op, pc, number>>
    BY <1>2 DEF vars, rows, quoteRows, local
  <2>2. Created' = Created
    BY <2>1 DEF Created
  <2>3. \A o : NumbersTaken(o)' = NumbersTaken(o) /\ Numbered(o)' = Numbered(o)
    BY <2>1, <2>2 DEF NumbersTaken, Numbered
  <2>4. Dense' /\ NumbersOnce'
    BY <2>1, <2>3 DEF NumberInv, Dense, NumbersOnce
  <2>5. IndexHeld' /\ \A c \in Calls : Counted(c)'
    BY <2>1, <2>3 DEF NumberInv, IndexHeld, Counted
  <2> QED BY <2>4, <2>5 DEF NumberInv
<1> QED BY <1>1, <1>2 DEF Next

(* Whatever creations race, fail or are rolled back, the numbers of quotes  *)
(* and of orders are 1..count, each once: the count + 1 that the next       *)
(* createQuote or createOrder computes is always free.                      *)
THEOREM NumbersAlwaysDense == Spec => []NumbersDense
<1>1. NumberInv => NumbersDense
  BY DenseIsNumbersDense DEF NumberInv
<1> QED BY <1>1, NumberInvInit, NumberInvStep, IInvAlways, PTL DEF Spec

-----------------------------------------------------------------------------
(* What each edit does to the money.  Line ids are given once, and a line   *)
(* that was there to write is there to commit if the version still holds.   *)

OneRowPerId == \A r, s \in lines : r.id = s.id => r = s

EditedLineThere(c) ==
  op[c] \in {"UpdateQuoteLine", "RemoveQuoteLine"} /\ pc[c] \in {"list", "commit"} /\ VersionHolds(c) =>
    \E row \in LinesOf(on[c]) : row.id = line[c]

DiscountsNat == \A q \in Quotes : totals[q].discount \in Nat

MoneyInv == OneRowPerId /\ DiscountsNat /\ \A c \in Calls : EditedLineThere(c)

\* The columns hold whole amounts, none negative.
MoneyWhole == \A q \in Quotes : totals[q] \in [subtotal : Nat, discount : Nat, total : Nat]

\* Ids are given once, so the lines are finitely many.
LEMMA LinesFinite ==
  ASSUME TypeOK, OneRowPerId
  PROVE  \A q \in Quotes : IsFiniteSet(LinesOf(q)) /\ \A row \in LinesOf(q) : row.total \in Nat
<1> DEFINE ids == [row \in lines |-> row.id]
<1>1. ids \in Injection(lines, 1..lineIds)
  BY DEF TypeOK, OneRowPerId, Injection, IsInjective
<1>2. IsFiniteSet(lines)
  <2>1. lineIds \in Int /\ 1 \in Int
    BY DEF TypeOK
  <2>2. IsFiniteSet(1..lineIds)
    BY <2>1, FS_Interval
  <2> HIDE DEF ids
  <2> QED BY <1>1, <2>2, FS_Injection
<1> QED BY <1>2, FS_Subset DEF TypeOK, LinesOf

LEMMA WholeColumns ==
  ASSUME TypeOK, TotalsAgree, MoneyInv
  PROVE  MoneyWhole
<1> SUFFICES ASSUME NEW q \in Quotes PROVE totals[q] \in [subtotal : Nat, discount : Nat, total : Nat]
  BY DEF MoneyWhole
<1>1. Subtotal(LinesOf(q)) \in Nat
  BY LinesFinite, SubtotalNat DEF MoneyInv
<1>2. totals[q] = TotalsOf(LinesOf(q), totals[q].discount) /\ totals[q].total >= 0 /\ totals[q].discount \in Nat
  BY DEF TotalsAgree, MoneyInv, DiscountsNat
<1>3. totals[q] = [subtotal |-> Subtotal(LinesOf(q)), discount |-> totals[q].discount,
                   total |-> Subtotal(LinesOf(q)) - totals[q].discount]
  BY <1>2 DEF TotalsOf, Total
<1>4. totals[q].total = Subtotal(LinesOf(q)) - totals[q].discount
  BY <1>3
<1>5. Subtotal(LinesOf(q)) - totals[q].discount \in Nat
  BY <1>1, <1>2, <1>4
<1> QED BY <1>1, <1>2, <1>3, <1>5

LEMMA MoneyInvInit == Init => MoneyInv
  BY DEF Init, MoneyInv, OneRowPerId, DiscountsNat, EditedLineThere, TotalsOf

\* What c does leaves the line of d where it is, if the version d read stays.
LEMMA OtherEditedLine ==
  ASSUME IInv, MoneyInv, NEW c \in Calls, NEW d \in Calls, RowsMove(c), LocalSame(d), TypeOK'
  PROVE  EditedLineThere(d)'
<1> SUFFICES ASSUME op[d] \in {"UpdateQuoteLine", "RemoveQuoteLine"}, pc[d] \in {"list", "commit"}, VersionHolds(d)'
             PROVE  \E row \in LinesOf(on[d])' : row.id = line[d]
  <2>1. LinesOf(on[d])' = {row \in lines' : row.quote = on[d]}
    BY DEF LinesOf, LocalSame
  <2> QED BY <2>1 DEF EditedLineThere, LocalSame, LinesOf
<1>1. HasRead(d) /\ CallOK(d) /\ TypeOK
  BY DEF HasRead, Versioned, Ops, LineEdits, QuoteOps, IInv
<1>2. on[d] \in Quotes /\ status[on[d]] # "none"
  BY <1>1 DEF CallOK, Placed, Existing
<1>3. read[d].version \in Nat /\ read[d].version <= version[on[d]] /\ version[on[d]] <= version'[on[d]]
      /\ version[on[d]] \in Nat /\ version'[on[d]] \in Nat
  BY <1>1, <1>2 DEF CallOK, Fresh, RowsMove, TypeOK
<1>4. version'[on[d]] = read[d].version
  BY DEF VersionHolds, LocalSame
<1>5. version'[on[d]] = version[on[d]] /\ VersionHolds(d)
  BY <1>3, <1>4 DEF VersionHolds
<1>6. \E row \in LinesOf(on[d]) : row.id = line[d]
  BY <1>5 DEF MoneyInv, EditedLineThere
<1>7. {row \in lines' : row.quote = on[d]} = LinesOf(on[d])
  BY <1>2, <1>5 DEF RowsMove, LinesOf
<1>8. LinesOf(on[d])' = {row \in lines' : row.quote = on[d]}
  BY DEF LinesOf, LocalSame
<1> QED BY <1>6, <1>7, <1>8

LEMMA CommitMoneyInv ==
  ASSUME IInv, MoneyInv, NEW c \in Calls, Commit(c)
  PROVE  OneRowPerId' /\ DiscountsNat' /\ EditedLineThere(c)'
<1>0. pc[c] = "commit" /\ pc'[c] = "idle" /\ CallOK(c) /\ TypeOK /\ on[c] \in Quotes
  BY DEF Commit, Reset, Goto, IInv, TypeOK, CallOK, Placed
<1>1. EditedLineThere(c)'
  BY <1>0 DEF EditedLineThere
<1>2. CASE CommitTotals(c)
  <2>1. op[c] \in Versioned /\ lines' = Written(c, lines)
    BY <1>2 DEF CommitTotals, Versioned, LineEdits, Ops, QuoteOps
  <2>2. DiscountOf(c) \in Nat
    <3>1. read[c].totals = totals[on[c]]
      BY <1>0, <1>2, <2>1, CommitRelies DEF CommitTotals
    <3> QED BY <1>0, <3>1 DEF DiscountOf, MoneyInv, DiscountsNat, TypeOK
  <2>3. DiscountsNat'
    <3>1. \A q \in Quotes : totals'[q] = IF q = on[c] THEN TotalsOf(listed[c], DiscountOf(c)) ELSE totals[q]
      BY <1>0, <1>2 DEF CommitTotals, TypeOK
    <3>2. TotalsOf(listed[c], DiscountOf(c)).discount = DiscountOf(c)
      BY DEF TotalsOf
    <3> QED BY <2>2, <3>1, <3>2 DEF MoneyInv, DiscountsNat
  <2>4. OneRowPerId'
    <3> DEFINE new == [id |-> line[c], quote |-> on[c], number |-> number[c], total |-> amount[c]]
               up(row) == IF row.id = line[c] THEN [row EXCEPT !.total = amount[c]] ELSE row
    <3>1. CASE op[c] = "AddQuoteLine"
      <4>1. lines' = lines \union {new} /\ new.id = line[c] /\ \A row \in lines : row.id # line[c]
        BY <1>0, <2>1, <3>1 DEF Written, CallOK, OwnLine, Adding
      <4> HIDE DEF new
      <4> QED BY <4>1 DEF MoneyInv, OneRowPerId
    <3>2. CASE op[c] = "UpdateQuoteLine"
      <4>1. lines' = {up(row) : row \in lines}
        BY <2>1, <3>2 DEF Written
      <4>2. \A row \in lines : up(row).id = row.id
        BY <1>0 DEF TypeOK
      <4> HIDE DEF up
      <4> QED BY <4>1, <4>2 DEF MoneyInv, OneRowPerId
    <3>3. CASE op[c] \notin {"AddQuoteLine", "UpdateQuoteLine"}
      <4>1. lines' \subseteq lines
        BY <2>1, <3>3 DEF Written
      <4> QED BY <4>1 DEF MoneyInv, OneRowPerId
    <3> QED BY <3>1, <3>2, <3>3
  <2> QED BY <1>1, <2>3, <2>4
<1>3. CASE CommitStatus(c) \/ CommitOrder(c) \/ CommitQuote(c) \/ CommitOrderCancelled(c)
  <2>1. totals' = totals /\ lines' = lines
    BY <1>3 DEF CommitStatus, CommitOrder, CommitQuote, CommitOrderCancelled, quoteRows
  <2> QED BY <1>1, <2>1 DEF MoneyInv, OneRowPerId, DiscountsNat
<1> QED BY <1>2, <1>3 DEF Commit

\* Short of a commit only WriteLine brings a line edit to where it counts.
LEMMA QuietEditedLine ==
  ASSUME IInv, MoneyInv, NEW c \in Calls, Step(c), UNCHANGED rows
  PROVE  EditedLineThere(c)'
<1>0. CallOK(c) /\ TypeOK /\ UNCHANGED <<version, lines>>
  BY DEF IInv, rows, quoteRows
<1> DEFINE Edits == {"UpdateQuoteLine", "RemoveQuoteLine"}
<1>1. CASE WriteLine(c)
  <2>1. UNCHANGED <<op, on, line, read>> /\ pc[c] = "write"
    BY <1>1 DEF WriteLine
  <2>2. op[c] \in Edits => \E row \in LinesOf(on[c]) : row.id = line[c]
    BY <1>0, <1>1, <2>1 DEF WriteLine, CallOK, OwnLine, LinesOf
  <2> QED BY <1>0, <2>1, <2>2 DEF EditedLineThere, LinesOf
<1>2. CASE ListLines(c)
  <2>1. UNCHANGED <<op, on, line, read>> /\ pc[c] = "list"
    BY <1>2 DEF ListLines
  <2> QED BY <1>0, <2>1 DEF EditedLineThere, LinesOf, VersionHolds, MoneyInv
<1>3. CASE ~WriteLine(c) /\ ~ListLines(c)
  <2>1. pc'[c] \in {"list", "commit"} => op'[c] \notin Edits
    <3>1. CASE StartOnQuote(c) \/ StartOnLine(c) \/ StartOnOrder(c)
      BY <1>0, <3>1 DEF StartOnQuote, StartOnLine, StartOnOrder, Begin, First, Goto, TypeOK
    <3>2. CASE ReadLine(c) \/ ReadLineNumber(c) \/ Count(c)
      BY <1>0, <3>2 DEF ReadLine, ReadLineNumber, Count, Goto, TypeOK
    <3>3. CASE ReadQuote(c)
      BY <1>0, <3>3 DEF ReadQuote, AfterQuote, Goto, TypeOK
    <3>4. CASE ReadOrder(c) \/ Insert(c)
      <4>1. op' = op /\ pc[c] \in {"order", "insert"}
        BY <3>4 DEF ReadOrder, Insert
      <4> QED BY <1>0, <4>1 DEF CallOK, Placed
    <3>5. CASE Commit(c) \/ Fail(c)
      BY <1>0, <3>5 DEF Commit, Fail, Reset, Goto, TypeOK
    <3> QED BY <1>3, <3>1, <3>2, <3>3, <3>4, <3>5 DEF Step
  <2> QED BY <2>1 DEF EditedLineThere
<1> QED BY <1>1, <1>2, <1>3

LEMMA MoneyInvStep == IInv /\ IInv' /\ MoneyInv /\ [Next]_vars => MoneyInv'
<1> SUFFICES ASSUME IInv, IInv', MoneyInv, [Next]_vars PROVE MoneyInv'
  OBVIOUS
<1>0. TypeOK /\ TypeOK'
  BY DEF IInv
<1>1. ASSUME NEW c \in Calls, Step(c) PROVE MoneyInv'
  <2>1. \A d \in Calls \ {c} : LocalSame(d)
    BY <1>0, <1>1, StepLeavesOthers
  <2>2. RowsMove(c) /\ OneRowPerId' /\ DiscountsNat' /\ EditedLineThere(c)'
    <3>1. CASE Commit(c)
      BY <3>1, CommitRows, CommitMoneyInv
    <3>2. CASE UNCHANGED rows
      <4>1. UNCHANGED <<totals, lines>>
        BY <3>2 DEF rows, quoteRows
      <4>2. OneRowPerId' /\ DiscountsNat'
        BY <4>1 DEF MoneyInv, OneRowPerId, DiscountsNat
      <4> QED BY <1>0, <1>1, <3>2, <4>2, QuietRows, QuietEditedLine
    <3> QED BY <1>1, <3>1, <3>2 DEF Step, StartOnQuote, StartOnLine, StartOnOrder, Begin, ReadLine, ReadQuote, ReadOrder,
              ReadLineNumber, WriteLine, ListLines, Count, Insert, Fail
  <2>3. \A d \in Calls \ {c} : EditedLineThere(d)'
    BY <1>0, <2>1, <2>2, OtherEditedLine
  <2> QED BY <2>2, <2>3 DEF MoneyInv
<1>2. CASE UNCHANGED vars
  <2>1. UNCHANGED <<totals, lines, version, op, pc, on, line, read>>
    BY <1>2 DEF vars, rows, quoteRows, local
  <2>2. \A c \in Calls : EditedLineThere(c)'
    BY <2>1 DEF MoneyInv, EditedLineThere, VersionHolds, LinesOf
  <2> QED BY <2>1, <2>2 DEF MoneyInv, OneRowPerId, DiscountsNat
<1> QED BY <1>1, <1>2 DEF Next

LEMMA MoneyInvAlways == Spec => []MoneyInv
  BY MoneyInvInit, MoneyInvStep, IInvAlways, PTL DEF Spec

(* A line edit commits: the subtotal moves by what the edit writes.         *)
LEMMA WrittenWorth ==
  ASSUME TypeOK, OneRowPerId, NEW c \in Calls, CallOK(c), pc[c] = "commit", on[c] \in Quotes,
         op[c] \in LineEdits \union {"UpdateQuote"}
  PROVE  \A was \in WorthBefore(c) :
           Subtotal(Written(c, LinesOf(on[c]))) = Subtotal(LinesOf(on[c])) - was + WorthAfter(c)
<1> DEFINE here == LinesOf(on[c])
           new == [id |-> line[c], quote |-> on[c], number |-> number[c], total |-> amount[c]]
           up(row) == IF row.id = line[c] THEN [row EXCEPT !.total = amount[c]] ELSE row
<1>1. /\ Priced(here) /\ \A row \in here : row.total \in Nat
      /\ Subtotal(here) \in Int /\ amount[c] \in Int
  <2>1. IsFiniteSet(here) /\ \A row \in here : row.total \in Nat
    BY LinesFinite
  <2>2. Priced(here)
    BY <2>1 DEF Priced
  <2> QED BY <2>1, <2>2, SubtotalIsInteger DEF TypeOK
<1>2. \A r, s \in here : r.id = s.id => r = s
  BY DEF OneRowPerId, LinesOf
<1>3. CASE op[c] = "AddQuoteLine"
  <2>1. Written(c, here) = here \union {new} /\ WorthBefore(c) = {0} /\ WorthAfter(c) = amount[c]
    BY <1>3 DEF Written, WorthBefore, WorthAfter
  <2>2. new \notin here /\ new.total = amount[c]
    BY <1>3 DEF CallOK, OwnLine, Adding, LinesOf
  <2> HIDE DEF new, here
  <2>3. Priced(here \union {new})
    BY <1>1, <2>2, FS_AddElement DEF Priced
  <2>4. (here \union {new}) \ {new} = here
    BY <2>2
  <2>5. Subtotal(here \union {new}) = new.total + Subtotal(here)
    BY <2>3, <2>4, SubtotalWithLine
  <2> QED BY <1>1, <2>1, <2>2, <2>5 DEF here
<1>4. CASE op[c] \in {"UpdateQuoteLine", "RemoveQuoteLine"}
  <2> SUFFICES ASSUME NEW old \in here, old.id = line[c]
               PROVE  Subtotal(Written(c, here)) = Subtotal(here) - old.total + WorthAfter(c)
    BY <1>4 DEF WorthBefore
  <2> DEFINE rest == here \ {old}
  <2>1. Priced(rest) /\ Subtotal(rest) \in Int
    <3>1. Priced(rest)
      BY <1>1, FS_RemoveElement DEF Priced
    <3> QED BY <3>1, SubtotalIsInteger
  <2>2. Subtotal(here) = old.total + Subtotal(rest)
    BY <1>1, SubtotalWithLine
  <2>3. \A row \in rest : row.id # line[c]
    BY <1>2
  <2>4. CASE op[c] = "RemoveQuoteLine"
    <3>1. Written(c, here) = rest
      <4>1. Written(c, here) = {row \in here : row.id # line[c]}
        BY <2>4 DEF Written
      <4> HIDE DEF here
      <4> QED BY <2>3, <4>1
    <3>2. WorthAfter(c) = 0
      BY <2>4 DEF WorthAfter
    <3> HIDE DEF rest, here
    <3> QED BY <1>1, <2>1, <2>2, <3>1, <3>2
  <2>5. CASE op[c] = "UpdateQuoteLine"
    <3> DEFINE upd == up(old)
    <3>1. upd.id = line[c] /\ upd.total = amount[c] /\ WorthAfter(c) = amount[c]
      BY <2>5 DEF TypeOK, WorthAfter, LinesOf
    <3>2. Written(c, here) = rest \union {upd}
      <4>1. Written(c, here) = {up(row) : row \in here}
        BY <2>5 DEF Written
      <4>2. \A row \in rest : up(row) = row
        BY <2>3
      <4> HIDE DEF here, up
      <4> QED BY <4>1, <4>2
    <3> HIDE DEF upd
    <3>3. upd \notin rest
      BY <2>3, <3>1
    <3>4. Priced(rest \union {upd})
      BY <1>1, <2>1, <3>1, FS_AddElement DEF Priced
    <3>5. (rest \union {upd}) \ {upd} = rest
      BY <3>3
    <3> HIDE DEF rest
    <3>6. Subtotal(rest \union {upd}) = upd.total + Subtotal(rest)
      BY <3>4, <3>5, SubtotalWithLine
    <3> HIDE DEF here
    <3> QED BY <1>1, <2>1, <2>2, <3>1, <3>2, <3>6
  <2> QED BY <1>4, <2>4, <2>5
<1>5. CASE op[c] = "UpdateQuote"
  BY <1>1, <1>5 DEF Written, WorthBefore, WorthAfter
<1> QED BY <1>3, <1>4, <1>5 DEF LineEdits

LEMMA CommitMovesMoney ==
  ASSUME IInv, IInv', MoneyInv, NEW c \in Calls, Commit(c), op[c] \in LineEdits \union {"UpdateQuote"}
  PROVE  EditMovesMoney(c)
<1>0. pc[c] = "commit" /\ CallOK(c) /\ TypeOK /\ on[c] \in Quotes /\ TotalsAgree
  BY DEF Commit, IInv, CallOK, Placed
<1>1. CommitTotals(c) /\ op[c] \in Versioned /\ op[c] # "CancelQuote"
  BY DEF Commit, CommitTotals, CommitStatus, CommitOrder, CommitQuote, CommitOrderCancelled, LineEdits, Versioned, Ops, QuoteOps
<1>2. listed[c] = Written(c, LinesOf(on[c])) /\ VersionHolds(c)
  BY <1>0, <1>1, CommitRelies DEF CommitTotals
<1>3. totals'[on[c]] = TotalsOf(listed[c], DiscountOf(c))
  BY <1>0, <1>1 DEF CommitTotals, TypeOK
<1>4. totals'[on[c]].subtotal = Subtotal(listed[c]) /\ totals'[on[c]].discount = DiscountOf(c)
      /\ totals'[on[c]].total = Subtotal(listed[c]) - DiscountOf(c)
  BY <1>3 DEF TotalsOf, Total
<1>5. totals[on[c]].subtotal = Subtotal(LinesOf(on[c]))
  <2>1. totals[on[c]] = TotalsOf(LinesOf(on[c]), totals[on[c]].discount)
    BY <1>0 DEF TotalsAgree
  <2> QED BY <2>1 DEF TotalsOf
<1>6. \A was \in WorthBefore(c) : Subtotal(listed[c]) = Subtotal(LinesOf(on[c])) - was + WorthAfter(c)
  BY <1>0, <1>2, WrittenWorth DEF MoneyInv
<1>7. WorthBefore(c) # {}
  BY <1>0, <1>2 DEF WorthBefore, MoneyInv, EditedLineThere
<1>8. read[c].totals = totals[on[c]]
  BY <1>0, <1>1, <1>2, CommitRelies
<1> QED BY <1>4, <1>5, <1>6, <1>7, <1>8 DEF EditMovesMoney, DiscountOf

(* The money columns always hold whole amounts, and none is negative:       *)
(* however edits race, the total recalculateQuoteTotals leaves is one.      *)
THEOREM MoneyAlwaysWhole == Spec => []MoneyWhole
<1>1. IInv /\ MoneyInv => MoneyWhole
  BY WholeColumns DEF IInv
<1> QED BY <1>1, IInvAlways, MoneyInvAlways, PTL

(* However edits of a quote race, one that commits moves the quote's        *)
(* subtotal by exactly what it writes (addQuoteLine, updateQuoteLine,       *)
(* removeQuoteLine, updateQuote): none undoes another.                      *)
THEOREM EditsAlwaysExact == Spec => EditsExact
<1>1. IInv /\ IInv' /\ MoneyInv /\ [Next]_vars =>
        [\A c \in Calls : Commit(c) /\ op[c] \in LineEdits \union {"UpdateQuote"} => EditMovesMoney(c)]_vars
  BY CommitMovesMoney
<1> QED BY <1>1, IInvAlways, MoneyInvAlways, PTL DEF Spec, EditsExact

-----------------------------------------------------------------------------
(* What was submitted.                                                      *)

SubmittedIsFrozen == [][\A q \in Quotes :
  /\ status[q] \notin {"none", "draft"} => LinesOf(q)' = LinesOf(q) /\ totals'[q] = totals[q]
  /\ status[q] \in {"accepted", "cancelled"} => status'[q] = status[q]]_vars

LEMMA CommitKeepsSubmitted ==
  ASSUME IInv, NEW c \in Calls, Commit(c), NEW q \in Quotes
  PROVE  /\ status[q] \notin {"none", "draft"} => LinesOf(q)' = LinesOf(q) /\ totals'[q] = totals[q]
         /\ status[q] \in {"accepted", "cancelled"} => status'[q] = status[q]
<1>0. pc[c] = "commit" /\ CallOK(c) /\ TypeOK /\ on[c] \in Quotes
  BY DEF Commit, IInv, CallOK, Placed
<1>1. CASE CommitTotals(c)
  <2>1. op[c] \in Versioned /\ op[c] \notin {"CancelQuote", "CreateOrder"}
    BY <1>1 DEF CommitTotals, Versioned, LineEdits, Ops, QuoteOps
  <2>2. status[on[c]] = "draft" /\ status' = status
    BY <1>0, <1>1, <2>1, CommitRelies DEF CommitTotals, Allowed
  <2>3. q # on[c] => LinesOf(q)' = LinesOf(q) /\ totals'[q] = totals[q]
    BY <1>0, <1>1, WrittenLines DEF CommitTotals, TypeOK
  <2> QED BY <2>2, <2>3
<1>2. CASE CommitStatus(c) \/ CommitOrder(c)
  <2>1. op[c] \in Versioned /\ VersionHolds(c) /\ op[c] \in {"SubmitQuote", "CancelQuote", "CreateOrder"}
    BY <1>2 DEF CommitStatus, CommitOrder, Versioned, Ops, QuoteOps
  <2>2. status[on[c]] \in {"draft", "submitted"}
    BY <1>0, <2>1, CommitRelies DEF Allowed
  <2>3. lines' = lines /\ totals' = totals /\ \A p \in Quotes \ {on[c]} : status'[p] = status[p]
    BY <1>0, <1>2 DEF CommitStatus, CommitOrder, TypeOK
  <2> QED BY <2>2, <2>3 DEF LinesOf
<1>3. CASE CommitQuote(c)
  <2>1. status[on[c]] = "none" /\ lines' = lines /\ totals' = totals /\ \A p \in Quotes \ {on[c]} : status'[p] = status[p]
    BY <1>0, <1>3 DEF CommitQuote, CallOK, Existing, Creating, TypeOK
  <2> QED BY <2>1 DEF LinesOf
<1>4. CASE CommitOrderCancelled(c)
  BY <1>4 DEF CommitOrderCancelled, quoteRows, LinesOf
<1> QED BY <1>1, <1>2, <1>3, <1>4 DEF Commit

(* Whatever edit began before the submission, from then on the lines and    *)
(* the money of the quote stay as they were submitted, and an accepted or   *)
(* a cancelled quote stays so (requireDraftQuote and the version).          *)
THEOREM SubmittedStays == Spec => SubmittedIsFrozen
<1> DEFINE Kept == \A q \in Quotes :
             /\ status[q] \notin {"none", "draft"} => LinesOf(q)' = LinesOf(q) /\ totals'[q] = totals[q]
             /\ status[q] \in {"accepted", "cancelled"} => status'[q] = status[q]
<1>1. IInv /\ [Next]_vars => [Kept]_vars
  <2> SUFFICES ASSUME IInv, Next PROVE Kept
    OBVIOUS
  <2>1. PICK c \in Calls : Step(c)
    BY DEF Next
  <2>2. CASE Commit(c)
    BY <2>2, CommitKeepsSubmitted
  <2>3. CASE UNCHANGED rows
    BY <2>3 DEF rows, quoteRows, LinesOf
  <2> QED BY <2>1, <2>2, <2>3 DEF Step, StartOnQuote, StartOnLine, StartOnOrder, Begin, ReadLine, ReadQuote, ReadOrder,
            ReadLineNumber, WriteLine, ListLines, Count, Insert, Fail
<1>2. Spec => [][Kept]_vars
  <2> HIDE DEF Kept
  <2> QED BY <1>1, IInvAlways, PTL DEF Spec
<1> QED BY <1>2 DEF SubmittedIsFrozen
=============================================================================
