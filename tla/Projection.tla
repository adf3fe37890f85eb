----------------------------- MODULE Projection -----------------------------
(***************************************************************************)
(* The work read models, the approval read models and the attention rows   *)
(* of one organization: WorkProjectionConsumer, which the outbox delivers  *)
(* events to, and AttentionClock, which lets time make open work overdue.  *)
(*                                                                         *)
(* The outbox (module Outbox) delivers the events in any order, each once: *)
(* a delivery is recorded before it begins, and the retry of one that      *)
(* throws or dies counts as a duplicate, so its event is lost.  A consumer *)
(* hydrates from the canonical row, so commands go on changing it between  *)
(* the statements of a delivery.  An event occurred when its request       *)
(* began, not when it was committed.                                       *)
(***************************************************************************)
EXTENDS Naturals, Sequences, FiniteSets

CONSTANTS
  Works, Approvals, Members,
  Nobody,     \* no member, no work item, no approval, no process
  Workers,    \* outbox workers; the deployment runs one
  Clock,      \* the attention clock
  Dues,       \* due dates; one beyond MaxTime is never due
  Lag,        \* how long a command may take from its start to its commit
  MaxTime, MaxEvents, MaxFaults  \* bounds

ASSUME ProjectionAssumption ==
  /\ IsFiniteSet(Works) /\ IsFiniteSet(Approvals) /\ IsFiniteSet(Workers)
  /\ Works \intersect Approvals = {}
  /\ Clock \notin Workers
  /\ Nobody \notin Works \union Approvals \union Members \union Workers \union {Clock}
  /\ Dues \subseteq Nat /\ Lag \in Nat
  /\ MaxTime \in Nat /\ MaxEvents \in Nat /\ MaxFaults \in Nat

VARIABLES
  now,
  \* canonical rows and events, written by the commands
  work,           \* work[w]: [status, owner, due, handed]
  approval,       \* approval[a]: [status, on, approver]
  events,         \* [kind, of, at] in the order they were committed
  waiting,        \* the events the outbox has still to deliver
  \* read models
  workModel,      \* workModel[w]: [row, pending, last, at]
  approvalModel,  \* approvalModel[a]: [row, last, at]
  attention,      \* rows [type, of, member]
  \* each worker and the clock
  pc,
  event,          \* the event it delivers
  hydrated,       \* the canonical work item it read
  decision,       \* the canonical approval it read
  pending,        \* the pending approval it found
  asOf,           \* the time it derives attention for
  snapshot,       \* the work read models it derives attention from
  lock,           \* who holds the advisory lock of the organization
  faults,         \* deliveries and ticks that died
  \* an observer
  dirty,          \* a read model was written since attention was last derived
  lost            \* the events whose delivery threw or died

canonical == <<work, approval, events>>
models == <<workModel, approvalModel>>
local == <<event, hydrated, decision, pending, asOf, snapshot>>
vars == <<now, canonical, waiting, models, attention, pc, local, lock, faults, dirty, lost>>

Actors == Workers \union {Clock}
NoWork == [status |-> "none", owner |-> Nobody, due |-> 0, handed |-> FALSE]
NoApproval == [status |-> "none", on |-> Nobody, approver |-> Nobody]
NoWorkModel == [row |-> NoWork, pending |-> Nobody, last |-> 0, at |-> 0]
NoApprovalModel == [row |-> NoApproval, last |-> 0, at |-> 0]

Init ==
  /\ now = 0
  /\ work = [w \in Works |-> NoWork]
  /\ approval = [a \in Approvals |-> NoApproval]
  /\ events = <<>> /\ waiting = {}
  /\ workModel = [w \in Works |-> NoWorkModel]
  /\ approvalModel = [a \in Approvals |-> NoApprovalModel]
  /\ attention = {}
  /\ pc = [p \in Actors |-> "idle"]
  /\ event = [p \in Actors |-> 0]
  /\ hydrated = [p \in Actors |-> NoWork]
  /\ decision = [p \in Actors |-> NoApproval]
  /\ pending = [p \in Actors |-> Nobody]
  /\ asOf = [p \in Actors |-> 0]
  /\ snapshot = [p \in Actors |-> {}]
  /\ lock = Nobody /\ faults = 0 /\ dirty = FALSE /\ lost = {}

-----------------------------------------------------------------------------
(* Commands commit a row together with its event (WorkCommandService).     *)

Emit(kind, i) ==
  /\ Len(events) < MaxEvents
  /\ \E t \in {u \in 0..now : now - u <= Lag} :
       events' = Append(events, [kind |-> kind, of |-> i, at |-> t])
  /\ waiting' = waiting \union {Len(events) + 1}
  /\ UNCHANGED <<now, models, attention, pc, local, lock, faults, dirty, lost>>

CreateWorkItem(w) == \E m \in Members, d \in Dues :
  /\ work[w] = NoWork
  /\ work' = [work EXCEPT ![w] = [status |-> "open", owner |-> m, due |-> d, handed |-> FALSE]]
  /\ Emit("work", w) /\ UNCHANGED approval

ReassignWork(w) == \E m \in Members :
  /\ work[w].status = "open"
  /\ work' = [work EXCEPT ![w].owner = m, ![w].handed = TRUE]
  /\ Emit("work", w) /\ UNCHANGED approval

\* CompleteWork; a cancelled item is as closed as a completed one.
CompleteWork(w) ==
  /\ work[w].status = "open"
  /\ work' = [work EXCEPT ![w].status = "completed"]
  /\ Emit("work", w) /\ UNCHANGED approval

RequestApproval(a) == \E m \in Members, w \in Works \union {Nobody} :
  /\ approval[a] = NoApproval
  /\ w # Nobody => work[w].status = "open"
  /\ approval' = [approval EXCEPT ![a] = [status |-> "pending", on |-> w, approver |-> m]]
  /\ Emit("approval", a) /\ UNCHANGED work

Decide(a) == \E s \in {"approved", "rejected"} :
  /\ approval[a].status = "pending"
  /\ approval' = [approval EXCEPT ![a].status = s]
  /\ Emit("approval", a) /\ UNCHANGED work

Pass ==
  /\ now < MaxTime
  /\ now' = now + 1
  /\ UNCHANGED <<canonical, waiting, models, attention, pc, local, lock, faults, dirty, lost>>

-----------------------------------------------------------------------------
(* A delivery: WorkProjectionConsumer.deliver, statement by statement.     *)

Goto(p, s) == pc' = [pc EXCEPT ![p] = s]
\* The end of a delivery, of a tick, of either by a fault.
Finish(p) ==
  /\ Goto(p, "idle")
  /\ event' = [event EXCEPT ![p] = 0]
  /\ hydrated' = [hydrated EXCEPT ![p] = NoWork]
  /\ decision' = [decision EXCEPT ![p] = NoApproval]
  /\ pending' = [pending EXCEPT ![p] = Nobody]
  /\ asOf' = [asOf EXCEPT ![p] = 0]
  /\ snapshot' = [snapshot EXCEPT ![p] = {}]
Unwritten == UNCHANGED <<now, canonical, models, attention, lock, faults, dirty, lost>>

\* Plausible bug: of two events of one instant the second is not applied.
ShouldApplyLater(model, e) == model.last = 0 \/ events[e].at > model.at
\* shouldApply; a model that was never written has last = 0.
ShouldApply(model, e) ==
  \/ model.last = 0
  \/ events[e].at > model.at
  \/ events[e].at = model.at /\ model.last # e

\* rebuildAttention: the time is taken before the lock is asked for.
Rebuild(p) == Goto(p, "lock") /\ asOf' = [asOf EXCEPT ![p] = now]
WorkOf(p) == IF events[event[p]].kind = "work" THEN events[event[p]].of ELSE decision[p].on

\* A claimed event is leased to one worker.
Deliver(p) == \E e \in waiting \ {event[q] : q \in Workers} :
  /\ pc[p] = "idle"
  /\ event' = [event EXCEPT ![p] = e]
  /\ Goto(p, IF events[e].kind = "work" THEN "work" ELSE "approval")
  /\ Unwritten /\ UNCHANGED <<waiting, hydrated, decision, pending, asOf, snapshot>>

CheckApproval(p) ==
  /\ pc[p] = "approval"
  /\ Goto(p, IF ShouldApply(approvalModel[events[event[p]].of], event[p]) THEN "readApproval" ELSE "done")
  /\ Unwritten /\ UNCHANGED <<waiting, local>>

\* hydrateApprovalReadModel
ReadApproval(p) ==
  /\ pc[p] = "readApproval"
  /\ decision' = [decision EXCEPT ![p] = approval[events[event[p]].of]]
  /\ Goto(p, "writeApproval")
  /\ Unwritten /\ UNCHANGED <<waiting, event, hydrated, pending, asOf, snapshot>>

WriteApproval(p) ==
  /\ pc[p] = "writeApproval"
  /\ approvalModel' = [approvalModel EXCEPT ![events[event[p]].of] =
       [row |-> decision[p], last |-> event[p], at |-> events[event[p]].at]]
  /\ dirty' = TRUE
  /\ IF decision[p].on = Nobody THEN Rebuild(p) ELSE Goto(p, "work") /\ UNCHANGED asOf
  /\ UNCHANGED <<now, canonical, waiting, workModel, attention, lock, faults, lost,
                 event, hydrated, decision, pending, snapshot>>

\* A work event that is not applied ends here; an approval event goes on to
\* derive attention.
CheckWork(p) ==
  /\ pc[p] = "work"
  /\ IF ShouldApply(workModel[WorkOf(p)], event[p]) THEN Goto(p, "readWork") /\ UNCHANGED asOf
     ELSE IF events[event[p]].kind = "approval" THEN Rebuild(p)
     ELSE Goto(p, "done") /\ UNCHANGED asOf
  /\ Unwritten /\ UNCHANGED <<waiting, event, hydrated, decision, pending, snapshot>>

\* hydrateWorkReadModel: the canonical row, its ownership history, then the pending approval.
ReadWork(p) ==
  /\ pc[p] = "readWork"
  /\ hydrated' = [hydrated EXCEPT ![p] = [work[WorkOf(p)] EXCEPT !.handed = FALSE]]
  /\ Goto(p, "readHistory")
  /\ Unwritten /\ UNCHANGED <<waiting, event, decision, pending, asOf, snapshot>>

ReadHistory(p) ==
  /\ pc[p] = "readHistory"
  /\ hydrated' = [hydrated EXCEPT ![p].handed = work[WorkOf(p)].handed]
  /\ Goto(p, "pending")
  /\ Unwritten /\ UNCHANGED <<waiting, event, decision, pending, asOf, snapshot>>

PendingFor(w) == {a \in Approvals : approvalModel[a].row.on = w /\ approvalModel[a].row.status = "pending"}

FindPendingApproval(p) ==
  /\ pc[p] = "pending"
  /\ \E a \in IF PendingFor(WorkOf(p)) = {} THEN {Nobody} ELSE PendingFor(WorkOf(p)) :
       pending' = [pending EXCEPT ![p] = a]
  /\ Goto(p, "writeWork")
  /\ Unwritten /\ UNCHANGED <<waiting, event, hydrated, decision, asOf, snapshot>>

WriteWork(p) ==
  /\ pc[p] = "writeWork"
  /\ workModel' = [workModel EXCEPT ![WorkOf(p)] =
       [row |-> hydrated[p], pending |-> pending[p], last |-> event[p], at |-> events[event[p]].at]]
  /\ dirty' = TRUE
  /\ Rebuild(p)
  /\ hydrated' = [hydrated EXCEPT ![p] = NoWork]
  /\ pending' = [pending EXCEPT ![p] = Nobody]
  /\ UNCHANGED <<now, canonical, waiting, approvalModel, attention, lock, faults, lost,
                 event, decision, snapshot>>

\* The outbox is done with the event.
Processed(p) ==
  /\ pc[p] = "done" /\ p # Clock
  /\ waiting' = waiting \ {event[p]}
  /\ Finish(p) /\ Unwritten

-----------------------------------------------------------------------------
(* Attention.                                                              *)

Row(type, i, m) == [type |-> type, of |-> i, member |-> m]
PastDue(row, t) == row.status = "open" /\ row.due < t

\* deriveAttentionReadModels, over sets of pairs <<id, canonical row>>.
Lasting(works, approvals) ==
  {Row("open", x[1], x[2].owner) : x \in {y \in works : y[2].status = "open"}}
  \union {Row("reassigned", x[1], x[2].owner) : x \in {y \in works : y[2].status = "open" /\ y[2].handed}}
  \union {Row("approval", x[1], x[2].approver) : x \in {y \in approvals : y[2].status = "pending"}}
Overdue(works, t) == {Row("overdue", x[1], x[2].owner) : x \in {y \in works : PastDue(y[2], t)}}

WorkRows == {<<w, workModel[w].row>> : w \in Works}
ApprovalRows == {<<a, approvalModel[a].row>> : a \in Approvals}
OverdueRows == {r \in attention : r.type = "overdue"}

\* Plausible bug: the advisory lock is left out.
LockAnyway == TRUE
LockFree == lock = Nobody

\* rebuildAttentionForOrganization
Lock(p) ==
  /\ pc[p] = "lock" /\ LockFree
  /\ lock' = p
  /\ Goto(p, "snapshot")
  /\ UNCHANGED <<now, canonical, waiting, models, attention, local, faults, dirty, lost>>

Snapshot(p) ==
  /\ pc[p] = "snapshot"
  /\ snapshot' = [snapshot EXCEPT ![p] = WorkRows]
  /\ dirty' = FALSE
  /\ Goto(p, "replace")
  /\ UNCHANGED <<now, canonical, waiting, models, attention, lock, faults, lost,
                 event, hydrated, decision, pending, asOf>>

\* The approvals are read by the next statement; the commit shows the rows
\* and frees the lock.
Replace(p) ==
  /\ pc[p] = "replace"
  /\ attention' = Lasting(snapshot[p], ApprovalRows) \union Overdue(snapshot[p], asOf[p])
  /\ lock' = Nobody
  /\ IF p = Clock THEN Finish(p) ELSE Goto(p, "done") /\ UNCHANGED local
  /\ UNCHANGED <<now, canonical, waiting, models, faults, dirty, lost>>

\* AttentionClock.runOnce: listOrganizationIdsNeedingOverdueRefresh queries
\* the work that is past due, then the overdue rows.
Tick ==
  /\ pc[Clock] = "idle"
  /\ asOf' = [asOf EXCEPT ![Clock] = now]
  /\ snapshot' = [snapshot EXCEPT ![Clock] = {x \in WorkRows : PastDue(x[2], now)}]
  /\ Goto(Clock, "compare")
  /\ Unwritten /\ UNCHANGED <<waiting, event, hydrated, decision, pending>>

\* Plausible bug: only missing overdue rows are looked for, not those left over.
NeedsMissingOnly(due, shown) == ~(due \subseteq shown)
\* organizationIdsNeedingOverdueRefresh
NeedsRefresh(due, shown) == due # shown

Compare ==
  /\ pc[Clock] = "compare"
  /\ IF NeedsRefresh({x[1] : x \in snapshot[Clock]}, {r.of : r \in OverdueRows})
     THEN Goto(Clock, "lock") /\ UNCHANGED local
     ELSE Finish(Clock)
  /\ Unwritten /\ UNCHANGED waiting

\* Plausible bug: the lock outlives the transaction (a session lock).
StillLocked(p) == lock
\* pg_advisory_xact_lock ends with its transaction.
Unlocked(p) == IF lock = p THEN Nobody ELSE lock

\* A delivery or a tick throws, or the process dies.  A transaction is rolled back and the
\* next tick starts afresh, but the event is not delivered again: tryRecordConsumerDelivery
\* has recorded it, and the retry is a duplicate.
Fault(p) ==
  /\ pc[p] # "idle" /\ faults < MaxFaults
  /\ faults' = faults + 1
  /\ lost' = lost \union ({event[p]} \intersect waiting)
  /\ waiting' = waiting \ {event[p]}
  /\ Finish(p)
  /\ lock' = Unlocked(p)
  /\ dirty' = (dirty \/ pc[p] = "replace")
  /\ UNCHANGED <<now, canonical, models, attention>>

Command ==
  \/ \E w \in Works : CreateWorkItem(w) \/ ReassignWork(w) \/ CompleteWork(w)
  \/ \E a \in Approvals : RequestApproval(a) \/ Decide(a)
RebuildStep(p) == Lock(p) \/ Snapshot(p) \/ Replace(p)
WorkerStep(p) ==
  \/ Deliver(p) \/ CheckApproval(p) \/ ReadApproval(p) \/ WriteApproval(p)
  \/ CheckWork(p) \/ ReadWork(p) \/ ReadHistory(p) \/ FindPendingApproval(p) \/ WriteWork(p)
  \/ RebuildStep(p) \/ Processed(p)
ClockStep == Tick \/ Compare \/ RebuildStep(Clock)

Next ==
  \/ Command \/ Pass \/ ClockStep
  \/ \E p \in Workers : WorkerStep(p)
  \/ \E p \in Actors : Fault(p)

\* The worker polls and the clock ticks on an interval.
Fairness == WF_vars(ClockStep) /\ \A p \in Workers : WF_vars(WorkerStep(p))
Spec == Init /\ [][Next]_vars /\ Fairness

-----------------------------------------------------------------------------
(* Properties.                                                             *)

WorkRow == [status : {"none", "open", "completed"}, owner : Members \union {Nobody},
            due : Nat, handed : BOOLEAN]
ApprovalRow == [status : {"none", "pending", "approved", "rejected"},
                on : Works \union {Nobody}, approver : Members \union {Nobody}]
Event == [kind : {"work", "approval"}, of : Works \union Approvals, at : 0..MaxTime]
AttentionRow == [type : {"open", "reassigned", "overdue", "approval"},
                 of : Works \union Approvals, member : Members]
TypeOK ==
  /\ now \in 0..MaxTime /\ faults \in 0..MaxFaults /\ dirty \in BOOLEAN
  /\ work \in [Works -> WorkRow] /\ approval \in [Approvals -> ApprovalRow]
  /\ events \in Seq(Event) /\ waiting \subseteq DOMAIN events /\ lost \subseteq DOMAIN events
  /\ workModel \in [Works -> [row : WorkRow, pending : Approvals \union {Nobody},
                              last : Nat, at : 0..MaxTime]]
  /\ approvalModel \in [Approvals -> [row : ApprovalRow, last : Nat, at : 0..MaxTime]]
  /\ attention \subseteq AttentionRow
  /\ lock \in Actors \union {Nobody}
  /\ lock # Nobody => pc[lock] \in {"snapshot", "replace"}
  /\ \A p \in Actors :
       /\ pc[p] \notin {"idle", "compare", "lock", "snapshot", "replace"} => event[p] \in waiting
       /\ hydrated[p] \in WorkRow /\ decision[p] \in ApprovalRow
       /\ pending[p] \in Approvals \union {Nobody} /\ asOf[p] \in 0..now

Quiet == waiting = {} /\ \A p \in Workers : pc[p] = "idle"
Touches(e, w) == events[e].of = w \/ \E a \in Approvals : events[e].of = a /\ approval[a].on = w
InOrder(E) == \A d, e \in E : d < e => events[d].at <= events[e].at

\* The newest event of a row was not lost, or a later event brought the model the row.
Newest(i, e) == events[e].of = i /\ \A d \in DOMAIN events : events[d].of = i => d <= e
Told(i, model) == \A e \in lost : Newest(i, e) => e <= model.last

(* Once nothing is left to deliver, the read models show the canonical     *)
(* rows, in whatever order the events came and whatever commands did while *)
(* they were delivered, as long as the commands on an item committed in    *)
(* the order they started (shouldApply and the hydration from the          *)
(* canonical row).  Of the events that were lost, only the newest of a row *)
(* leaves its model behind, and only until a later event is applied to it. *)
RowsConverge == Quiet =>
  /\ \A w \in Works : InOrder({e \in DOMAIN events : Touches(e, w)}) /\ Told(w, workModel[w]) =>
       workModel[w].row = work[w]
  /\ \A a \in Approvals : InOrder({e \in DOMAIN events : events[e].of = a}) /\ Told(a, approvalModel[a]) =>
       approvalModel[a].row = approval[a]

(* A rebuild of the clock never puts back what the consumer took away, nor *)
(* the other way round: when attention was derived after the last change   *)
(* of a read model, it shows what the read models say and nothing else,    *)
(* and nothing closed or not yet due is overdue (pg_advisory_xact_lock).   *)
AttentionCurrent ==
  ~dirty /\ (\A p \in Actors : pc[p] # "replace") =>
    /\ attention \ OverdueRows = Lasting(WorkRows, ApprovalRows)
    /\ OverdueRows \subseteq Overdue(WorkRows, now)

(* When time and the commands come to rest, the overdue rows are exactly   *)
(* the open work that is past due, although no event says that it became   *)
(* so, and although a delivery that died after it wrote the read model is  *)
(* never made again (AttentionClock).                                      *)
OverdueShown == <>[]({r.of : r \in OverdueRows} = {w \in Works : PastDue(workModel[w].row, now)})
=============================================================================
