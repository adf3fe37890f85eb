--------------------------- MODULE QuoteLifecycle ---------------------------
(***************************************************************************)
(* What a quote promises, with no rows, versions or transactions: one      *)
(* document edited only while it is a draft, submitted with content,       *)
(* turned once at most into an order that is worth what was submitted.     *)
(***************************************************************************)
EXTENDS Money

CONSTANT Quotes

VARIABLES
  status,   \* status[q], "none" before it is created
  content,  \* content[q]: [lines, discount]
  placed    \* placed[q]: the orders made of q, as [worth, status]

vars == <<status, content, placed>>

Worth(c) == Total(c.lines, c.discount)

Init ==
  /\ status = [q \in Quotes |-> "none"]
  /\ content = [q \in Quotes |-> [lines |-> {}, discount |-> 0]]
  /\ placed = [q \in Quotes |-> {}]

Move(q, from, to) == status[q] \in from /\ status' = [status EXCEPT ![q] = to]

Create(q) == Move(q, {"none"}, "draft") /\ UNCHANGED <<content, placed>>

Edit(q) ==
  /\ status[q] = "draft"
  /\ content' = [content EXCEPT ![q] = content'[q]]
  /\ Worth(content'[q]) >= 0
  /\ UNCHANGED <<status, placed>>

Submit(q) ==
  /\ Move(q, {"draft"}, "submitted")
  /\ content[q].lines # {}
  /\ UNCHANGED <<content, placed>>

Cancel(q) == Move(q, {"draft", "submitted"}, "cancelled") /\ UNCHANGED <<content, placed>>

Order(q) ==
  /\ Move(q, {"submitted"}, "accepted")
  /\ placed[q] = {}
  /\ placed' = [placed EXCEPT ![q] = {[worth |-> Worth(content[q]), status |-> "open"]}]
  /\ UNCHANGED content

CancelOrder(q) ==
  /\ \E w \in {o.worth : o \in placed[q]} :
       /\ [worth |-> w, status |-> "open"] \in placed[q]
       /\ placed' = [placed EXCEPT ![q] = {[worth |-> w, status |-> "cancelled"]}]
  /\ UNCHANGED <<status, content>>

Next == \E q \in Quotes :
  Create(q) \/ Edit(q) \/ Submit(q) \/ Cancel(q) \/ Order(q) \/ CancelOrder(q)

Spec == Init /\ [][Next]_vars
=============================================================================
