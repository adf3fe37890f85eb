----------------------- MODULE ProjectionConvergence -----------------------
(***************************************************************************)
(* The read models of Projection come to show the canonical rows, proved   *)
(* for any number of work items, approvals, commands and faults, and for   *)
(* the one worker of the deployment.                                       *)
(*                                                                         *)
(* A read model that does not show its canonical row is owed the newest    *)
(* event of that row: the event is waiting or lost, nothing newer was      *)
(* applied to the model, and the worker, if it has it in hand, has not     *)
(* written the model for it yet.  What the worker has hydrated is the row  *)
(* as it is, or there is a newer event than the one it delivers.           *)
(***************************************************************************)
EXTENDS ProjectionProofs

\* The deployment runs one outbox worker.  With two, one may write what it read before
\* the other read and wrote something newer.
OneWorker == \A p, q \in Workers : p = q

ApprovalStages == {"approval", "readApproval", "writeApproval"}
WorkStages == {"work", "readWork", "readHistory", "pending", "writeWork"}

About(i) == {e \in DOMAIN events : events[e].of = i}
TouchedBy(w) == {e \in DOMAIN events : Touches(e, w)}

\* What is not, or not wholly, delivered; an event that is lost never will be.
Undelivered == waiting \union lost
Latest(i, e) == e \in Undelivered /\ Newest(i, e)
Owed(i, e, last, stages) == /\ Latest(i, e) /\ last < e
                            /\ \A p \in Workers : event[p] = e => pc[p] \in stages
Overtaken(i, p, last) == \E e \in Undelivered : Latest(i, e) /\ event[p] < e /\ last < e

\* The time a model was last written for is that of the event it names.
Dated(model, E) == model.last # 0 => model.last \in E /\ model.at = events[model.last].at

WorkShown(w) ==
  /\ Dated(workModel[w], TouchedBy(w))
  /\ InOrder(TouchedBy(w)) =>
       workModel[w].row = work[w] \/ \E e \in Undelivered : Owed(w, e, workModel[w].last, WorkStages)
ApprovalShown(a) ==
  /\ Dated(approvalModel[a], About(a))
  /\ InOrder(About(a)) =>
       approvalModel[a].row = approval[a] \/ \E e \in Undelivered : Owed(a, e, approvalModel[a].last, ApprovalStages)

\* An approval that an event tells of exists, and stays about the same work.
Requested == \A e \in DOMAIN events : events[e].kind = "approval" => approval[events[e].of].status # "none"
DecisionKept(p) ==
  pc[p] \in {"writeApproval"} \union WorkStages /\ events[event[p]].kind = "approval" =>
    decision[p].on = approval[events[event[p]].of].on

\* The row without its ownership history, then with it.
WorkInHand(p) == \A w \in Works : WorkOf(p) = w =>
  /\ pc[p] = "readHistory" =>
       hydrated[p] = [work[w] EXCEPT !.handed = FALSE] \/ Overtaken(w, p, workModel[w].last)
  /\ pc[p] \in {"pending", "writeWork"} =>
       hydrated[p] = work[w] \/ Overtaken(w, p, workModel[w].last)
ApprovalInHand(p) == \A a \in Approvals : pc[p] = "writeApproval" /\ events[event[p]].of = a =>
  decision[p] = approval[a] \/ Overtaken(a, p, approvalModel[a].last)
InHand(p) == DecisionKept(p) /\ WorkInHand(p) /\ ApprovalInHand(p)

Converging ==
  /\ \A w \in Works : WorkShown(w)
  /\ \A a \in Approvals : ApprovalShown(a)
  /\ Requested
  /\ \A p \in Workers : InHand(p)

-----------------------------------------------------------------------------
(* Events and what they are about.                                         *)

LEMMA KindOfEvent ==
  ASSUME CanonTyped, NEW e \in DOMAIN events
  PROVE  /\ events[e].of \in Works <=> events[e].kind = "work"
         /\ events[e].of \in Approvals <=> events[e].kind = "approval"
         /\ events[e].kind \in {"work", "approval"} /\ e \in Nat /\ e # 0 /\ events[e].at \in Nat
<1>1. events[e] \in Event /\ e \in Nat /\ e # 0
  BY ElementOfSeq, LenProperties DEF CanonTyped
<1> QED BY <1>1, ProjectionAssumption DEF CanonTyped, Event

\* The event a worker has in hand is one of those waiting; the idle worker has none.
LEMMA EventInHand ==
  ASSUME IInv, NEW p \in Workers
  PROVE  /\ event[p] \in Nat
         /\ event[p] # 0 => event[p] \in Undelivered /\ event[p] \in DOMAIN events
         /\ pc[p] # "idle" => event[p] # 0
<1>1. p \in Actors /\ p # Clock
  BY ActorFacts
<1>2. Placed(p) /\ CanonTyped /\ LocalsTyped
  BY <1>1 DEF IInv, Placements
<1>3. \A e \in waiting : e # 0
  BY <1>2, EventsTyped
<1> QED BY <1>1, <1>2, <1>3 DEF Placed, CanonTyped, LocalsTyped, Undelivered

LEMMA UndeliveredEvents ==
  ASSUME CanonTyped
  PROVE  \A e \in Undelivered : e \in DOMAIN events /\ e # 0
<1>1. Undelivered \subseteq DOMAIN events
  BY DEF CanonTyped, Undelivered
<1> QED BY <1>1, KindOfEvent

\* What a model is owed passes shouldApply, if the events are in order.
LEMMA OwedApplies ==
  ASSUME CanonTyped, NEW model, NEW e \in DOMAIN events, NEW E, E \subseteq DOMAIN events, e \in E,
         InOrder(E), Dated(model, E), model.last < e, model.last \in Nat
  PROVE  ShouldApply(model, e)
<1>1. CASE model.last = 0
  BY <1>1 DEF ShouldApply
<1>2. CASE model.last # 0
  <2>1. model.last \in E /\ model.at = events[model.last].at
    BY <1>2 DEF Dated
  <2>2. model.at <= events[e].at
    BY <2>1 DEF InOrder
  <2>3. events[e].at \in Nat /\ model.at \in Nat /\ e \in Nat
    BY <2>1, KindOfEvent
  <2>4. model.last # e
    BY <2>3
  <2> QED BY <2>2, <2>3, <2>4 DEF ShouldApply
<1> QED BY <1>1, <1>2

\* A model was last written for an event that there is.
LEMMA DatedBefore ==
  ASSUME CanonTyped, NEW model, NEW E, E \subseteq DOMAIN events, Dated(model, E)
  PROVE  model.last < Len(events) + 1
BY LenProperties DEF CanonTyped, Dated

LEMMA InitConverging == Init => Converging
<1> SUFFICES ASSUME Init PROVE Converging
  OBVIOUS
<1>1. events = <<>> /\ DOMAIN events = {}
  BY DEF Init
<1>2. \A w \in Works : workModel[w] = NoWorkModel /\ work[w] = NoWork
  BY DEF Init
<1>3. \A a \in Approvals : approvalModel[a] = NoApprovalModel /\ approval[a] = NoApproval
  BY DEF Init
<1>4. \A p \in Workers : pc[p] = "idle"
  BY ActorFacts DEF Init
<1>5. \A w \in Works : WorkShown(w)
  BY <1>2 DEF WorkShown, Dated, NoWorkModel
<1>6. \A a \in Approvals : ApprovalShown(a)
  BY <1>3 DEF ApprovalShown, Dated, NoApprovalModel
<1>7. \A p \in Workers : InHand(p)
  BY <1>4 DEF InHand, DecisionKept, WorkInHand, ApprovalInHand, WorkStages
<1> QED BY <1>1, <1>5, <1>6, <1>7 DEF Converging, Requested

-----------------------------------------------------------------------------
(* Steps that write no row, no event and no read model.                    *)

Copied == <<work, approval, events, Undelivered, workModel, approvalModel>>

\* A read model whose row, events and text stay is shown as before, if what it is
\* owed stays owed.
LEMMA WorkShownKept ==
  ASSUME NEW w \in Works, WorkShown(w), UNCHANGED <<events, approval>>,
         work'[w] = work[w], workModel'[w] = workModel[w],
         \A e \in Undelivered : InOrder(TouchedBy(w)) /\ Owed(w, e, workModel[w].last, WorkStages) =>
           e \in Undelivered' /\ \A p \in Workers : event'[p] = e => pc'[p] \in WorkStages
  PROVE  WorkShown(w)'
<1>1. TouchedBy(w)' = TouchedBy(w) /\ InOrder(TouchedBy(w))' = InOrder(TouchedBy(w))
  BY DEF TouchedBy, Touches, InOrder
<1>2. Dated(workModel[w], TouchedBy(w))'
  BY <1>1 DEF WorkShown, Dated
<1>3. ASSUME InOrder(TouchedBy(w))', workModel'[w].row # work'[w]
      PROVE  \E e \in Undelivered' : Owed(w, e, workModel[w].last, WorkStages)'
  <2>1. PICK e \in Undelivered : Owed(w, e, workModel[w].last, WorkStages)
    BY <1>1, <1>3 DEF WorkShown
  <2>2. e \in Undelivered' /\ \A p \in Workers : event'[p] = e => pc'[p] \in WorkStages
    BY <1>1, <1>3, <2>1
  <2>3. Owed(w, e, workModel[w].last, WorkStages)'
    BY <2>1, <2>2 DEF Owed, Latest, Newest, WorkStages
  <2> QED BY <2>2, <2>3
<1> QED BY <1>2, <1>3 DEF WorkShown

LEMMA ApprovalShownKept ==
  ASSUME NEW a \in Approvals, ApprovalShown(a), UNCHANGED events,
         approval'[a] = approval[a], approvalModel'[a] = approvalModel[a],
         \A e \in Undelivered : InOrder(About(a)) /\ Owed(a, e, approvalModel[a].last, ApprovalStages) =>
           e \in Undelivered' /\ \A p \in Workers : event'[p] = e => pc'[p] \in ApprovalStages
  PROVE  ApprovalShown(a)'
<1>1. About(a)' = About(a) /\ InOrder(About(a))' = InOrder(About(a))
  BY DEF About, InOrder
<1>2. Dated(approvalModel[a], About(a))'
  BY <1>1 DEF ApprovalShown, Dated
<1>3. ASSUME InOrder(About(a))', approvalModel'[a].row # approval'[a]
      PROVE  \E e \in Undelivered' : Owed(a, e, approvalModel[a].last, ApprovalStages)'
  <2>1. PICK e \in Undelivered : Owed(a, e, approvalModel[a].last, ApprovalStages)
    BY <1>1, <1>3 DEF ApprovalShown
  <2>2. e \in Undelivered' /\ \A p \in Workers : event'[p] = e => pc'[p] \in ApprovalStages
    BY <1>1, <1>3, <2>1
  <2>3. Owed(a, e, approvalModel[a].last, ApprovalStages)'
    BY <2>1, <2>2 DEF Owed, Latest, Newest, ApprovalStages
  <2> QED BY <2>2, <2>3
<1> QED BY <1>2, <1>3 DEF ApprovalShown

LEMMA CopiedKept ==
  ASSUME IInv, Converging, UNCHANGED Copied,
         \A p \in Workers : InHand(p)',
         \A w \in Works, e \in Undelivered, p \in Workers :
           InOrder(TouchedBy(w)) /\ Owed(w, e, workModel[w].last, WorkStages) /\ event'[p] = e => pc'[p] \in WorkStages,
         \A a \in Approvals, e \in Undelivered, p \in Workers :
           InOrder(About(a)) /\ Owed(a, e, approvalModel[a].last, ApprovalStages) /\ event'[p] = e =>
             pc'[p] \in ApprovalStages
  PROVE  Converging'
<1>1. UNCHANGED <<work, approval, events, Undelivered, workModel, approvalModel>>
  BY DEF Copied
<1>2. ASSUME NEW w \in Works PROVE WorkShown(w)'
  BY <1>1, WorkShownKept DEF Converging
<1>3. ASSUME NEW a \in Approvals PROVE ApprovalShown(a)'
  BY <1>1, ApprovalShownKept DEF Converging
<1> QED BY <1>1, <1>2, <1>3 DEF Converging, Requested

\* Where a worker is left alone, what it has in hand is worth what it was.
LEMMA WorkersAlone ==
  ASSUME IInv, Converging, UNCHANGED Copied,
         \A p \in Workers : /\ pc'[p] = pc[p] /\ event'[p] = event[p]
                            /\ hydrated'[p] = hydrated[p] /\ decision'[p] = decision[p]
  PROVE  Converging'
<1>1. UNCHANGED <<work, approval, events, Undelivered, workModel, approvalModel>>
  BY DEF Copied
<1>2. ASSUME NEW p \in Workers PROVE InHand(p)'
  <2>1. InHand(p)
    BY DEF Converging
  <2> QED BY <1>1, <2>1 DEF InHand, DecisionKept, WorkInHand, ApprovalInHand, WorkOf, Overtaken, Latest, Newest
<1> QED BY <1>2, CopiedKept DEF Owed

\* A worker that neither holds a hydrated row nor has still to write one.
LEMMA NothingInHand ==
  ASSUME NEW p \in Workers, pc'[p] \notin {"writeApproval"} \union WorkStages
  PROVE  InHand(p)'
BY DEF InHand, DecisionKept, WorkInHand, ApprovalInHand, WorkStages

LEMMA DeliverConverges == ASSUME OneWorker, IInv, Converging, NEW p \in Workers, Deliver(p) PROVE Converging'
<1>1. PICK e \in waiting :
        event' = [event EXCEPT ![p] = e] /\ Goto(p, IF events[e].kind = "work" THEN "work" ELSE "approval")
  BY DEF Deliver
<1>2. UNCHANGED Copied /\ UNCHANGED <<hydrated, decision>>
  BY DEF Deliver, Unwritten, Copied, Undelivered, canonical, models
<1>3. event'[p] = e /\ pc'[p] = (IF events[e].kind = "work" THEN "work" ELSE "approval") /\ events' = events
  BY <1>1, <1>2, ActorFacts DEF Goto, Copied, IInv, LocalsTyped
<1>4. InHand(p)'
  BY <1>3 DEF InHand, DecisionKept, WorkInHand, ApprovalInHand, WorkStages
<1>5. ASSUME NEW i, Latest(i, e)
      PROVE  /\ i \in Works => pc'[p] \in WorkStages
             /\ i \in Approvals => pc'[p] \in ApprovalStages
  <2>1. events[e].of = i /\ e \in DOMAIN events /\ CanonTyped
    BY <1>5 DEF Latest, Newest, IInv, CanonTyped
  <2> QED BY <1>3, <2>1, KindOfEvent DEF WorkStages, ApprovalStages
<1> QED BY <1>2, <1>3, <1>4, <1>5, CopiedKept DEF OneWorker, Owed

LEMMA CheckApprovalConverges ==
  ASSUME OneWorker, IInv, Converging, NEW p \in Workers, CheckApproval(p)
  PROVE  Converging'
<1> DEFINE a == events[event[p]].of
<1>0. CanonTyped /\ ModelsTyped /\ LocalsTyped /\ Placed(p)
  BY ActorFacts DEF IInv, Placements
<1>1. /\ UNCHANGED Copied /\ event' = event /\ pc[p] = "approval"
      /\ pc'[p] = (IF ShouldApply(approvalModel[a], event[p]) THEN "readApproval" ELSE "done")
  BY <1>0, ActorFacts DEF CheckApproval, Unwritten, Copied, Undelivered, canonical, models, local, Goto, LocalsTyped
<1>2. event[p] \in DOMAIN events /\ a \in Approvals
  BY <1>0, <1>1, EventInHand, KindOfEvent DEF Placed
<1>3. InHand(p)'
  BY <1>1, NothingInHand DEF WorkStages
<1>4. ASSUME NEW b \in Approvals, InOrder(About(b)), Owed(b, event[p], approvalModel[b].last, ApprovalStages)
      PROVE  pc'[p] \in ApprovalStages
  <2>1. b = a /\ event[p] \in About(a) /\ approvalModel[a].last < event[p]
    BY <1>2, <1>4 DEF Owed, Latest, Newest, About
  <2>2. Dated(approvalModel[a], About(a)) /\ InOrder(About(a)) /\ approvalModel[a].last \in Nat
    BY <1>0, <1>2, <1>4, <2>1 DEF Converging, ApprovalShown, ModelsTyped
  <2>3. About(a) \subseteq DOMAIN events
    BY DEF About
  <2>4. ShouldApply(approvalModel[a], event[p])
    BY <1>0, <1>2, <2>1, <2>2, <2>3, OwedApplies
  <2> QED BY <1>1, <2>4 DEF ApprovalStages
<1>5. \A i : ~Owed(i, event[p], workModel[i].last, WorkStages)
  BY <1>1 DEF Owed, WorkStages
<1> QED BY <1>1, <1>3, <1>4, <1>5, CopiedKept DEF OneWorker

LEMMA ReadApprovalConverges ==
  ASSUME OneWorker, IInv, Converging, NEW p \in Workers, ReadApproval(p)
  PROVE  Converging'
<1>0. CanonTyped /\ LocalsTyped
  BY DEF IInv
<1>1. /\ UNCHANGED Copied /\ event' = event /\ events' = events /\ approval' = approval
      /\ pc[p] = "readApproval" /\ pc'[p] = "writeApproval"
      /\ decision'[p] = approval[events[event[p]].of]
  BY <1>0, ActorFacts DEF ReadApproval, Unwritten, Copied, Undelivered, canonical, models, Goto, LocalsTyped
<1>2. InHand(p)'
  BY <1>1 DEF InHand, DecisionKept, WorkInHand, ApprovalInHand
<1>3. \A i : ~Owed(i, event[p], workModel[i].last, WorkStages)
  BY <1>1 DEF Owed, WorkStages
<1>4. pc'[p] \in ApprovalStages
  BY <1>1 DEF ApprovalStages
<1> QED BY <1>1, <1>2, <1>3, <1>4, CopiedKept DEF OneWorker

LEMMA CheckWorkConverges ==
  ASSUME OneWorker, IInv, Converging, NEW p \in Workers, CheckWork(p)
  PROVE  Converging'
<1> DEFINE w == WorkOf(p)
<1>0. CanonTyped /\ ModelsTyped /\ LocalsTyped /\ Placed(p)
  BY ActorFacts DEF IInv, Placements
<1>1. /\ UNCHANGED Copied /\ UNCHANGED <<event, events, approval, decision>> /\ pc[p] = "work"
      /\ pc'[p] \in {"readWork", "lock", "done"}
      /\ ShouldApply(workModel[w], event[p]) => pc'[p] = "readWork"
  BY <1>0, ActorFacts DEF CheckWork, Unwritten, Copied, Undelivered, canonical, models, Goto, Rebuild, LocalsTyped
<1>2. event[p] \in DOMAIN events /\ w \in Works
  BY <1>0, <1>1, EventInHand DEF Placed
<1>3. InHand(p)'
  BY <1>1 DEF Converging, InHand, DecisionKept, WorkInHand, ApprovalInHand, WorkStages
<1>4. ASSUME NEW v \in Works, InOrder(TouchedBy(v)), Owed(v, event[p], workModel[v].last, WorkStages)
      PROVE  pc'[p] \in WorkStages
  <2>1. events[event[p]].of = v /\ workModel[v].last < event[p]
    BY <1>4 DEF Owed, Latest, Newest
  <2>2. v = w
    BY <1>0, <1>2, <2>1, KindOfEvent DEF WorkOf
  <2>3. event[p] \in TouchedBy(w) /\ TouchedBy(w) \subseteq DOMAIN events
    BY <1>2, <2>1, <2>2 DEF TouchedBy, Touches
  <2>4. Dated(workModel[w], TouchedBy(w)) /\ workModel[w].last \in Nat
    BY <1>0, <1>2 DEF Converging, WorkShown, ModelsTyped
  <2>5. InOrder(TouchedBy(w)) /\ workModel[w].last < event[p]
    BY <1>4, <2>1, <2>2
  <2>6. ShouldApply(workModel[w], event[p])
    <3> HIDE DEF w
    <3> QED BY <1>0, <1>2, <2>3, <2>4, <2>5, OwedApplies
  <2> QED BY <1>1, <2>6 DEF WorkStages
<1>5. \A i : ~Owed(i, event[p], approvalModel[i].last, ApprovalStages)
  BY <1>1 DEF Owed, ApprovalStages
<1> QED BY <1>1, <1>3, <1>4, <1>5, CopiedKept DEF OneWorker

LEMMA ReadWorkConverges ==
  ASSUME OneWorker, IInv, Converging, NEW p \in Workers,
         ReadWork(p) \/ ReadHistory(p) \/ FindPendingApproval(p)
  PROVE  Converging'
<1>0. CanonTyped /\ LocalsTyped /\ Placed(p) /\ InHand(p)
  BY ActorFacts DEF IInv, Converging, Placements
<1>1. /\ UNCHANGED Copied
      /\ UNCHANGED <<event, events, work, Undelivered, workModel, approval, decision>>
      /\ pc[p] \in {"readWork", "readHistory", "pending"}
      /\ pc'[p] \in {"readHistory", "pending", "writeWork"}
  BY <1>0, ActorFacts DEF ReadWork, ReadHistory, FindPendingApproval, Unwritten, Copied, Undelivered,
       canonical, models, Goto, LocalsTyped
<1>2. /\ WorkOf(p)' = WorkOf(p)
      /\ \A w, n : Overtaken(w, p, n)' <=> Overtaken(w, p, n)
  BY <1>1 DEF WorkOf, Overtaken, Latest, Newest
<1>3. WorkInHand(p)'
  <2> SUFFICES ASSUME NEW w \in Works, WorkOf(p) = w, ~Overtaken(w, p, workModel[w].last)
               PROVE  /\ pc'[p] = "readHistory" => hydrated'[p] = [work[w] EXCEPT !.handed = FALSE]
                      /\ pc'[p] \in {"pending", "writeWork"} => hydrated'[p] = work[w]
    BY <1>1, <1>2 DEF WorkInHand
  <2>1. CASE ReadWork(p)
    BY <1>0, <2>1, ActorFacts DEF ReadWork, Goto, LocalsTyped
  <2>2. CASE ReadHistory(p)
    <3>1. /\ pc[p] = "readHistory" /\ pc'[p] = "pending"
          /\ hydrated'[p] = [hydrated[p] EXCEPT !.handed = work[w].handed]
      BY <1>0, <2>2, ActorFacts DEF ReadHistory, Goto, LocalsTyped
    <3>2. hydrated[p] = [work[w] EXCEPT !.handed = FALSE]
      BY <1>0, <3>1 DEF InHand, WorkInHand
    <3>3. work[w] \in WorkRow
      BY <1>0 DEF CanonTyped, OwnedWork
    <3>4. hydrated'[p] = work[w]
      BY <3>1, <3>2, <3>3 DEF WorkRow
    <3> QED BY <3>1, <3>4
  <2>3. CASE FindPendingApproval(p)
    <3>1. pc[p] = "pending" /\ pc'[p] = "writeWork" /\ hydrated'[p] = hydrated[p]
      BY <1>0, <2>3, ActorFacts DEF FindPendingApproval, Goto, LocalsTyped
    <3> QED BY <1>0, <3>1 DEF InHand, WorkInHand
  <2> QED BY <2>1, <2>2, <2>3
<1>4. InHand(p)'
  BY <1>0, <1>1, <1>3 DEF InHand, DecisionKept, ApprovalInHand, WorkStages
<1>5. \A i : ~Owed(i, event[p], approvalModel[i].last, ApprovalStages)
  BY <1>1 DEF Owed, ApprovalStages
<1>6. pc'[p] \in WorkStages
  BY <1>1 DEF WorkStages
<1> QED BY <1>1, <1>4, <1>5, <1>6, CopiedKept DEF OneWorker

\* The rebuild comes after the models of an event were written, or left as they are.
LEMMA RebuildConverges ==
  ASSUME OneWorker, IInv, Converging, NEW p \in Workers, RebuildStep(p)
  PROVE  Converging'
<1>0. LocalsTyped /\ p # Clock
  BY ActorFacts DEF IInv
<1>1. /\ UNCHANGED Copied /\ event' = event
      /\ pc[p] \in {"lock", "snapshot", "replace"} /\ pc'[p] \in {"snapshot", "replace", "done"}
  BY <1>0, ActorFacts DEF RebuildStep, Lock, Snapshot, Replace, Copied, Undelivered, canonical, models, local, Goto, LocalsTyped
<1>2. InHand(p)'
  BY <1>1, NothingInHand DEF WorkStages
<1>3. \A i, n : ~Owed(i, event[p], n, WorkStages) /\ ~Owed(i, event[p], n, ApprovalStages)
  BY <1>1 DEF Owed, WorkStages, ApprovalStages
<1> QED BY <1>1, <1>2, <1>3, CopiedKept DEF OneWorker

\* A delivery that dies loses its event: it stays undelivered.
LEMMA FaultConverges ==
  ASSUME OneWorker, IInv, Converging, NEW p \in Workers, Fault(p)
  PROVE  Converging'
<1>0. LocalsTyped /\ CanonTyped
  BY DEF IInv
<1>1. UNCHANGED Copied /\ event'[p] = 0 /\ pc'[p] = "idle"
  BY <1>0, ActorFacts DEF Fault, Finish, Goto, Copied, Undelivered, canonical, models, LocalsTyped
<1>2. \A e \in Undelivered : e # 0
  BY <1>0, UndeliveredEvents
<1>3. InHand(p)'
  BY <1>1, NothingInHand DEF WorkStages
<1> QED BY <1>1, <1>2, <1>3, CopiedKept DEF OneWorker

LEMMA ClockConverges ==
  ASSUME IInv, Converging, Pass \/ ClockStep \/ Fault(Clock) \/ UNCHANGED vars
  PROVE  Converging'
<1>0. LocalsTyped /\ Clock \in Actors /\ Clock \notin Workers
  BY ActorFacts DEF IInv
<1>1. UNCHANGED Copied
  BY DEF Pass, ClockStep, Tick, Compare, RebuildStep, Lock, Snapshot, Replace, Fault, Unwritten, vars, Copied,
         Undelivered, canonical, models
<1>2. ASSUME NEW p \in Workers
      PROVE  /\ pc'[p] = pc[p] /\ event'[p] = event[p]
             /\ hydrated'[p] = hydrated[p] /\ decision'[p] = decision[p]
  <2>1. p \in Actors /\ p # Clock
    BY <1>0, ActorFacts
  <2>2. CASE Pass \/ UNCHANGED vars
    BY <2>2 DEF Pass, vars, local
  <2>3. CASE Finish(Clock)
    BY <1>0, <2>1, <2>3 DEF Finish, Goto, LocalsTyped
  <2>4. CASE Lock(Clock) \/ Snapshot(Clock) \/ Tick
    BY <1>0, <2>1, <2>4 DEF Lock, Snapshot, Tick, Goto, local, LocalsTyped
  <2>5. CASE Replace(Clock) \/ Compare
    BY <1>0, <2>1, <2>3, <2>5 DEF Replace, Compare, Goto, local, LocalsTyped
  <2> QED BY <2>2, <2>3, <2>4, <2>5 DEF ClockStep, RebuildStep, Fault
<1> QED BY <1>1, <1>2, WorkersAlone

-----------------------------------------------------------------------------
(* Steps that write a read model, or take an event off the outbox.         *)

LEMMA WriteApprovalConverges ==
  ASSUME OneWorker, IInv, Converging, NEW p \in Workers, WriteApproval(p)
  PROVE  Converging'
<1>a. PICK a : a = events[event[p]].of
  OBVIOUS
<1>0. CanonTyped /\ ModelsTyped /\ LocalsTyped /\ Placed(p)
  BY ActorFacts DEF IInv, Placements
<1>1. /\ UNCHANGED <<work, approval, events, Undelivered, workModel, event, decision>>
      /\ pc[p] = "writeApproval" /\ pc'[p] \in {"lock", "work"}
      /\ approvalModel' = [approvalModel EXCEPT ![a] =
           [row |-> decision[p], last |-> event[p], at |-> events[event[p]].at]]
  BY <1>0, <1>a, ActorFacts DEF WriteApproval, Undelivered, canonical, Goto, Rebuild, LocalsTyped
<1>2. event[p] \in DOMAIN events /\ a \in Approvals /\ event[p] \in Nat
  BY <1>0, <1>1, <1>a, EventInHand, KindOfEvent DEF Placed
<1>3. /\ approvalModel'[a] = [row |-> decision[p], last |-> event[p], at |-> events[event[p]].at]
      /\ \A b \in Approvals : b # a => approvalModel'[b] = approvalModel[b]
  BY <1>0, <1>1, <1>2 DEF ModelsTyped
<1>4. InHand(p) /\ \A q \in Workers : q = p
  BY DEF Converging, OneWorker
<1>5. InHand(p)'
  BY <1>1, <1>4 DEF InHand, DecisionKept, WorkInHand, ApprovalInHand, WorkStages
<1>6. ASSUME NEW w \in Works PROVE WorkShown(w)'
  <2>1. \A e \in Undelivered : Owed(w, e, workModel[w].last, WorkStages) => event[p] # e
    BY <1>1 DEF Owed, WorkStages
  <2> QED BY <1>1, <1>4, <2>1, WorkShownKept DEF Converging
<1>7. ASSUME NEW b \in Approvals, b # a PROVE ApprovalShown(b)'
  <2>1. \A e \in Undelivered : Owed(b, e, approvalModel[b].last, ApprovalStages) => event[p] # e
    BY <1>7, <1>a DEF Owed, Latest, Newest
  <2> QED BY <1>1, <1>3, <1>4, <1>7, <2>1, ApprovalShownKept DEF Converging
<1>8. ApprovalShown(a)'
  <2>1. About(a)' = About(a) /\ event[p] \in About(a)
    BY <1>1, <1>2, <1>a DEF About
  <2>2. Dated(approvalModel'[a], About(a)) /\ approvalModel'[a].last = event[p]
    BY <1>3, <2>1 DEF Dated
  <2>3. Dated(approvalModel[a], About(a))'
    BY <1>1, <2>1, <2>2 DEF Dated
  <2>4. CASE decision[p] = approval[a]
    <3>1. approvalModel'[a].row = approval'[a]
      BY <1>1, <1>3, <2>4
    <3> QED BY <2>3, <3>1, <1>1 DEF ApprovalShown
  <2>5. CASE Overtaken(a, p, approvalModel[a].last)
    <3>1. PICK e \in Undelivered : Latest(a, e) /\ event[p] < e
      BY <2>5 DEF Overtaken
    <3>2. Latest(a, e)' /\ event[p] # e
      BY <1>1, <1>2, <3>1 DEF Latest, Newest
    <3>3. Owed(a, e, approvalModel[a].last, ApprovalStages)'
      BY <1>1, <1>4, <2>2, <3>1, <3>2 DEF Owed
    <3> QED BY <1>1, <2>3, <3>3 DEF ApprovalShown
  <2> QED BY <1>1, <1>2, <1>4, <1>a, <2>4, <2>5 DEF InHand, ApprovalInHand
<1>9. \A b \in Approvals : ApprovalShown(b)'
  BY <1>7, <1>8
<1> QED BY <1>1, <1>4, <1>5, <1>6, <1>9 DEF Converging, Requested

LEMMA WriteWorkConverges ==
  ASSUME OneWorker, IInv, Converging, NEW p \in Workers, WriteWork(p)
  PROVE  Converging'
<1>a. PICK w : w = WorkOf(p)
  OBVIOUS
<1>0. CanonTyped /\ ModelsTyped /\ LocalsTyped /\ Placed(p)
  BY ActorFacts DEF IInv, Placements
<1>1. /\ UNCHANGED <<work, approval, events, Undelivered, approvalModel, event, decision>>
      /\ pc[p] = "writeWork" /\ pc'[p] = "lock"
      /\ workModel' = [workModel EXCEPT ![w] =
           [row |-> hydrated[p], pending |-> pending[p], last |-> event[p], at |-> events[event[p]].at]]
  BY <1>0, <1>a, ActorFacts DEF WriteWork, Undelivered, canonical, Goto, Rebuild, LocalsTyped
<1>2. event[p] \in DOMAIN events /\ w \in Works /\ event[p] \in Nat
  BY <1>0, <1>1, <1>a, EventInHand DEF Placed
<1>3. /\ workModel'[w] = [row |-> hydrated[p], pending |-> pending[p], last |-> event[p], at |-> events[event[p]].at]
      /\ \A v \in Works : v # w => workModel'[v] = workModel[v]
  BY <1>0, <1>1, <1>2 DEF ModelsTyped
<1>4. InHand(p) /\ \A q \in Workers : q = p
  BY DEF Converging, OneWorker
<1>5. InHand(p)'
  BY <1>1, NothingInHand DEF WorkStages
<1>6. ASSUME NEW a \in Approvals PROVE ApprovalShown(a)'
  <2>1. \A e \in Undelivered : Owed(a, e, approvalModel[a].last, ApprovalStages) => event[p] # e
    BY <1>1 DEF Owed, ApprovalStages
  <2> QED BY <1>1, <1>4, <2>1, ApprovalShownKept DEF Converging
<1>7. ASSUME NEW v \in Works, v # w PROVE WorkShown(v)'
  <2>1. \A e \in Undelivered : Owed(v, e, workModel[v].last, WorkStages) => event[p] # e
    BY <1>0, <1>2, <1>7, <1>a, KindOfEvent DEF Owed, Latest, Newest, WorkOf
  <2> QED BY <1>1, <1>3, <1>4, <1>7, <2>1, WorkShownKept DEF Converging
<1>8. WorkShown(w)'
  <2>0. event[p] \in TouchedBy(w)
    <3>1. CASE events[event[p]].kind = "work"
      BY <1>2, <1>a, <3>1 DEF TouchedBy, Touches, WorkOf
    <3>2. CASE events[event[p]].kind = "approval"
      <4>1. decision[p].on = approval[events[event[p]].of].on
        BY <1>1, <1>4, <3>2 DEF InHand, DecisionKept, WorkStages
      <4>2. events[event[p]].of \in Approvals /\ w = decision[p].on
        BY <1>0, <1>2, <1>a, <3>2, KindOfEvent DEF WorkOf
      <4> QED BY <1>2, <4>1, <4>2 DEF TouchedBy, Touches
    <3> QED BY <1>0, <1>2, <3>1, <3>2, KindOfEvent
  <2>1. TouchedBy(w)' = TouchedBy(w)
    BY <1>1 DEF TouchedBy, Touches
  <2>2. Dated(workModel'[w], TouchedBy(w)) /\ workModel'[w].last = event[p]
    BY <1>3, <2>0 DEF Dated
  <2>3. Dated(workModel[w], TouchedBy(w))'
    BY <1>1, <2>1, <2>2 DEF Dated
  <2>4. CASE hydrated[p] = work[w]
    <3>1. workModel'[w].row = work'[w]
      BY <1>1, <1>3, <2>4
    <3> QED BY <2>3, <3>1, <1>1 DEF WorkShown
  <2>5. CASE Overtaken(w, p, workModel[w].last)
    <3>1. PICK e \in Undelivered : Latest(w, e) /\ event[p] < e
      BY <2>5 DEF Overtaken
    <3>2. Latest(w, e)' /\ event[p] # e
      BY <1>1, <1>2, <3>1 DEF Latest, Newest
    <3>3. Owed(w, e, workModel[w].last, WorkStages)'
      BY <1>1, <1>4, <2>2, <3>1, <3>2 DEF Owed
    <3> QED BY <1>1, <2>3, <3>3 DEF WorkShown
  <2>6. hydrated[p] = work[w] \/ Overtaken(w, p, workModel[w].last)
    BY <1>1, <1>2, <1>4, <1>a DEF InHand, WorkInHand
  <2> QED BY <2>4, <2>5, <2>6
<1>9. \A v \in Works : WorkShown(v)'
  BY <1>7, <1>8
<1> QED BY <1>1, <1>4, <1>5, <1>6, <1>9 DEF Converging, Requested

LEMMA ProcessedConverges ==
  ASSUME OneWorker, IInv, Converging, NEW p \in Workers, Processed(p)
  PROVE  Converging'
<1>0. CanonTyped /\ LocalsTyped
  BY DEF IInv
<1>1. /\ UNCHANGED <<work, approval, events, workModel, approvalModel>>
      /\ waiting' = waiting \ {event[p]} /\ lost' = lost /\ event'[p] = 0
      /\ pc[p] = "done" /\ pc'[p] = "idle"
  BY <1>0, ActorFacts DEF Processed, Finish, Goto, Unwritten, canonical, models, LocalsTyped
<1>2. \A q \in Workers : q = p
  BY DEF OneWorker
<1>3. \A i, e, n : Owed(i, e, n, WorkStages) \/ Owed(i, e, n, ApprovalStages) => e # event[p]
  BY <1>1 DEF Owed, WorkStages, ApprovalStages
<1>4. \A e \in Undelivered : e # 0 /\ (e # event[p] => e \in Undelivered')
  BY <1>0, <1>1, UndeliveredEvents DEF Undelivered
<1>5. InHand(p)'
  BY <1>1, NothingInHand DEF WorkStages
<1>6. ASSUME NEW w \in Works PROVE WorkShown(w)'
  BY <1>1, <1>2, <1>3, <1>4, WorkShownKept DEF Converging
<1>7. ASSUME NEW a \in Approvals PROVE ApprovalShown(a)'
  BY <1>1, <1>2, <1>3, <1>4, ApprovalShownKept DEF Converging
<1> QED BY <1>1, <1>2, <1>5, <1>6, <1>7 DEF Converging, Requested

-----------------------------------------------------------------------------
(* Commands: the event they add is what their row's read model is owed.     *)

LEMMA EmitConverges ==
  ASSUME IInv, IInv', Converging, NEW kind, NEW i \in Works \union Approvals, Emit(kind, i),
         i \in Approvals => approval'[i].status # "none",
         \A w \in Works : w # i => work'[w] = work[w],
         \A a \in Approvals : a # i => approval'[a] = approval[a],
         \A a \in Approvals : approval[a].status # "none" =>
           approval'[a].status # "none" /\ approval'[a].on = approval[a].on
  PROVE  Converging'
<1>a. PICK N : N = Len(events) + 1
  OBVIOUS
<1>0. CanonTyped /\ CanonTyped' /\ ModelsTyped /\ \A p \in Workers : Placed(p)
  BY ActorFacts DEF IInv, Placements
<1>1. /\ UNCHANGED <<workModel, approvalModel, pc, event, hydrated, decision>>
      /\ Undelivered' = Undelivered \union {N}
  BY <1>a DEF Emit, Undelivered, models, local
<1>2. PICK t : events' = Append(events, [kind |-> kind, of |-> i, at |-> t])
  BY DEF Emit
<1>3. /\ \A e \in DOMAIN events : e \in Nat /\ e < N /\ events'[e] = events[e]
      /\ DOMAIN events' = DOMAIN events \union {N} /\ N \in Nat
      /\ events'[N].of = i
  BY <1>0, <1>2, <1>a DEF CanonTyped
<1>4. Requested'
  <2> SUFFICES ASSUME NEW e \in DOMAIN events', events'[e].kind = "approval"
               PROVE  approval'[events'[e].of].status # "none"
    BY DEF Requested
  <2>1. events'[e].of \in Approvals
    BY <1>0, KindOfEvent DEF CanonTyped
  <2>2. CASE e = N
    BY <1>3, <2>1, <2>2
  <2>3. CASE e # N
    <3>1. e \in DOMAIN events /\ events'[e] = events[e]
      BY <1>3, <2>3
    <3>2. approval[events[e].of].status # "none"
      BY <3>1 DEF Converging, Requested
    <3> QED BY <2>1, <3>1, <3>2
  <2> QED BY <2>2, <2>3
<1>5. ASSUME NEW e \in DOMAIN events, NEW w \in Works PROVE Touches(e, w)' <=> Touches(e, w)
  <2>1. events'[e] = events[e]
    BY <1>3
  <2>2. \A a \in Approvals : events[e].of = a => approval'[a].on = approval[a].on
    <3> SUFFICES ASSUME events[e].of \in Approvals
                 PROVE  approval'[events[e].of].on = approval[events[e].of].on
      OBVIOUS
    <3>1. events[e].kind = "approval"
      BY <1>0, KindOfEvent
    <3> QED BY <3>1 DEF Converging, Requested
  <2> QED BY <2>1, <2>2 DEF Touches
<1>6. ASSUME NEW w \in Works
      PROVE  /\ TouchedBy(w) \subseteq TouchedBy(w)' /\ TouchedBy(w) \subseteq DOMAIN events
             /\ InOrder(TouchedBy(w))' => InOrder(TouchedBy(w))
  <2>1. TouchedBy(w) \subseteq TouchedBy(w)' /\ TouchedBy(w) \subseteq DOMAIN events
    BY <1>3, <1>5 DEF TouchedBy
  <2> QED BY <1>3, <2>1 DEF InOrder
<1>7. ASSUME NEW a \in Approvals
      PROVE  /\ About(a) \subseteq About(a)' /\ About(a) \subseteq DOMAIN events
             /\ InOrder(About(a))' => InOrder(About(a))
  <2>1. About(a) \subseteq About(a)' /\ About(a) \subseteq DOMAIN events
    BY <1>3 DEF About
  <2> QED BY <1>3, <2>1 DEF InOrder
<1>8. N \in Undelivered' /\ Latest(i, N)'
  BY <1>1, <1>3 DEF Latest, Newest
<1>9. \A j, e : j # i /\ Latest(j, e) => e \in Undelivered' /\ Latest(j, e)'
  BY <1>0, <1>1, <1>3, UndeliveredEvents DEF Latest, Newest
<1>10. ASSUME NEW p \in Workers PROVE event[p] # N /\ event[p] < N
  BY <1>0, <1>3, EventInHand, LenProperties DEF CanonTyped
<1>11. ASSUME NEW w \in Works PROVE WorkShown(w)'
  <2>0. WorkShown(w) /\ workModel'[w] = workModel[w]
    BY <1>1 DEF Converging
  <2>1. Dated(workModel[w], TouchedBy(w))'
    BY <1>3, <1>6, <2>0 DEF WorkShown, Dated
  <2>2. CASE w = i
    <3>1. workModel[w].last < N
      BY <1>0, <1>6, <2>0, <1>a, DatedBefore DEF WorkShown
    <3>2. Owed(w, N, workModel[w].last, WorkStages)'
      BY <1>1, <1>8, <1>10, <2>2, <3>1 DEF Owed
    <3> QED BY <1>8, <2>1, <3>2 DEF WorkShown
  <2>3. CASE w # i
    <3>1. ASSUME InOrder(TouchedBy(w))', workModel'[w].row # work'[w]
          PROVE  \E e \in Undelivered' : Owed(w, e, workModel[w].last, WorkStages)'
      <4>1. PICK e \in Undelivered : Owed(w, e, workModel[w].last, WorkStages)
        BY <1>1, <1>6, <2>0, <2>3, <3>1 DEF WorkShown
      <4>2. Latest(w, e)' /\ e \in Undelivered'
        BY <1>9, <2>3, <4>1 DEF Owed
      <4>3. Owed(w, e, workModel[w].last, WorkStages)'
        BY <1>1, <4>1, <4>2 DEF Owed, WorkStages
      <4> QED BY <4>2, <4>3
    <3> QED BY <2>1, <3>1 DEF WorkShown
  <2> QED BY <2>2, <2>3
<1>12. ASSUME NEW a \in Approvals PROVE ApprovalShown(a)'
  <2>0. ApprovalShown(a) /\ approvalModel'[a] = approvalModel[a]
    BY <1>1 DEF Converging
  <2>1. Dated(approvalModel[a], About(a))'
    BY <1>3, <1>7, <2>0 DEF ApprovalShown, Dated
  <2>2. CASE a = i
    <3>1. approvalModel[a].last < N
      BY <1>0, <1>7, <2>0, <1>a, DatedBefore DEF ApprovalShown
    <3>2. Owed(a, N, approvalModel[a].last, ApprovalStages)'
      BY <1>1, <1>8, <1>10, <2>2, <3>1 DEF Owed
    <3> QED BY <1>8, <2>1, <3>2 DEF ApprovalShown
  <2>3. CASE a # i
    <3>1. ASSUME InOrder(About(a))', approvalModel'[a].row # approval'[a]
          PROVE  \E e \in Undelivered' : Owed(a, e, approvalModel[a].last, ApprovalStages)'
      <4>1. PICK e \in Undelivered : Owed(a, e, approvalModel[a].last, ApprovalStages)
        BY <1>1, <1>7, <2>0, <2>3, <3>1 DEF ApprovalShown
      <4>2. Latest(a, e)' /\ e \in Undelivered'
        BY <1>9, <2>3, <4>1 DEF Owed
      <4>3. Owed(a, e, approvalModel[a].last, ApprovalStages)'
        BY <1>1, <4>1, <4>2 DEF Owed, ApprovalStages
      <4> QED BY <4>2, <4>3
    <3> QED BY <2>1, <3>1 DEF ApprovalShown
  <2> QED BY <2>2, <2>3
<1>13. ASSUME NEW p \in Workers PROVE InHand(p)'
  <2>0. InHand(p)
    BY DEF Converging
  <2>1. CASE pc'[p] \notin {"writeApproval"} \union WorkStages
    BY <2>1, NothingInHand
  <2>2. CASE pc'[p] \in {"writeApproval"} \union WorkStages
    <3>1. event[p] \in DOMAIN events /\ event'[p] = event[p] /\ events'[event[p]] = events[event[p]]
      BY <1>1, <1>3, <2>2, EventInHand DEF WorkStages
    <3>2. DecisionKept(p)'
      <4> SUFFICES ASSUME events[event[p]].kind = "approval"
                   PROVE  decision[p].on = approval'[events[event[p]].of].on
        BY <1>1, <3>1 DEF DecisionKept
      <4>1. events[event[p]].of \in Approvals /\ approval[events[event[p]].of].status # "none"
        BY <1>0, <3>1, KindOfEvent DEF Converging, Requested
      <4>2. decision[p].on = approval[events[event[p]].of].on
        BY <1>1, <2>0, <2>2 DEF InHand, DecisionKept
      <4> QED BY <4>1, <4>2
    <3>3. ASSUME NEW j, NEW n, Overtaken(j, p, n), j # i PROVE Overtaken(j, p, n)'
      BY <1>1, <1>9, <3>3 DEF Overtaken
    <3>4. ASSUME NEW n, n < N PROVE Overtaken(i, p, n)'
      BY <1>1, <1>8, <1>10, <3>4 DEF Overtaken
    <3>5. WorkInHand(p)'
      <4>1. WorkOf(p)' = WorkOf(p)
        BY <1>1, <3>1 DEF WorkOf
      <4> SUFFICES ASSUME NEW w \in Works, WorkOf(p) = w, ~Overtaken(w, p, workModel[w].last)'
                   PROVE  /\ pc[p] = "readHistory" => hydrated[p] = [work'[w] EXCEPT !.handed = FALSE]
                          /\ pc[p] \in {"pending", "writeWork"} => hydrated[p] = work'[w]
        BY <1>1, <4>1 DEF WorkInHand
      <4>2. CASE w = i
        <5>1. workModel[w].last < N
          BY <1>0, <1>6, <1>a, DatedBefore DEF Converging, WorkShown
        <5> QED BY <1>1, <3>4, <4>2, <5>1
      <4>3. CASE w # i
        BY <1>1, <2>0, <3>3, <4>3 DEF InHand, WorkInHand
      <4> QED BY <4>2, <4>3
    <3>6. ApprovalInHand(p)'
      <4> SUFFICES ASSUME NEW a \in Approvals, pc[p] = "writeApproval", events[event[p]].of = a
                   PROVE  decision[p] = approval'[a] \/ Overtaken(a, p, approvalModel[a].last)'
        BY <1>1, <3>1 DEF ApprovalInHand
      <4>2. CASE a = i
        <5>1. approvalModel[a].last < N
          BY <1>0, <1>7, <1>a, DatedBefore DEF Converging, ApprovalShown
        <5> QED BY <1>1, <3>4, <4>2, <5>1
      <4>3. CASE a # i
        BY <1>1, <2>0, <3>3, <4>3 DEF InHand, ApprovalInHand
      <4> QED BY <4>2, <4>3
    <3> QED BY <3>2, <3>5, <3>6 DEF InHand
  <2> QED BY <2>1, <2>2
<1> QED BY <1>4, <1>11, <1>12, <1>13 DEF Converging

LEMMA CommandConverges == ASSUME IInv, IInv', Converging, Command PROVE Converging'
<1>0. CanonTyped
  BY DEF IInv
<1>1. ASSUME NEW w \in Works, CreateWorkItem(w) \/ ReassignWork(w) \/ CompleteWork(w)
      PROVE  Converging'
  <2>1. /\ Emit("work", w) /\ UNCHANGED approval
        /\ \A v \in Works : v # w => work'[v] = work[v]
    BY <1>0, <1>1 DEF CreateWorkItem, ReassignWork, CompleteWork, CanonTyped
  <2>2. w \notin Approvals
    BY ProjectionAssumption
  <2> QED BY <2>1, <2>2, EmitConverges
<1>2. ASSUME NEW a \in Approvals, RequestApproval(a) \/ Decide(a)
      PROVE  Converging'
  <2>1. /\ Emit("approval", a) /\ UNCHANGED work
        /\ \A b \in Approvals : b # a => approval'[b] = approval[b]
        /\ approval'[a].status # "none"
        /\ approval[a].status # "none" => approval'[a].on = approval[a].on
    <3>1. CASE RequestApproval(a)
      BY <1>0, <3>1 DEF RequestApproval, NoApproval, CanonTyped
    <3>2. CASE Decide(a)
      BY <1>0, <3>2 DEF Decide, CanonTyped, OwnedApproval, ApprovalRow
    <3> QED BY <1>2, <3>1, <3>2
  <2> QED BY <2>1, EmitConverges
<1> QED BY <1>1, <1>2 DEF Command

-----------------------------------------------------------------------------
LEMMA NextConverges == ASSUME OneWorker, IInv, IInv', Converging, [Next]_vars PROVE Converging'
<1>1. CASE Command
  BY <1>1, CommandConverges
<1>2. CASE Pass \/ ClockStep \/ UNCHANGED vars
  BY <1>2, ClockConverges
<1>3. ASSUME NEW p \in Workers, WorkerStep(p) PROVE Converging'
  BY <1>3, DeliverConverges, CheckApprovalConverges, ReadApprovalConverges, WriteApprovalConverges,
     CheckWorkConverges, ReadWorkConverges, WriteWorkConverges, RebuildConverges, ProcessedConverges
  DEF WorkerStep
<1>4. ASSUME NEW p \in Actors, Fault(p) PROVE Converging'
  <2>1. CASE p = Clock
    BY <1>4, <2>1, ClockConverges
  <2>2. CASE p \in Workers
    BY <1>4, <2>2, FaultConverges
  <2> QED BY <2>1, <2>2 DEF Actors
<1> QED BY <1>1, <1>2, <1>3, <1>4 DEF Next

\* At rest all that is undelivered is lost, and what is lost is not owed to a model
\* that was told.
LEMMA QuietConverged == IInv /\ Converging => RowsConverge
<1> SUFFICES ASSUME IInv, Converging, Quiet PROVE RowsConverge
  BY DEF RowsConverge
<1>1. Undelivered = lost /\ CanonTyped /\ ModelsTyped
  BY DEF Quiet, Undelivered, IInv
<1>2. ASSUME NEW i, NEW model, Told(i, model), model.last \in Nat, NEW stages,
             NEW e \in Undelivered, Owed(i, e, model.last, stages)
      PROVE  FALSE
  <2>1. e <= model.last /\ model.last < e
    BY <1>1, <1>2 DEF Owed, Latest, Told
  <2>2. e \in Nat
    BY <1>1, UndeliveredEvents, KindOfEvent
  <2> QED BY <1>2, <2>1, <2>2
<1>3. ASSUME NEW w \in Works, InOrder(TouchedBy(w)), Told(w, workModel[w])
      PROVE  workModel[w].row = work[w]
  <2>1. workModel[w].last \in Nat
    BY <1>1 DEF ModelsTyped
  <2> QED BY <1>2, <1>3, <2>1 DEF Converging, WorkShown
<1>4. ASSUME NEW a \in Approvals, InOrder(About(a)), Told(a, approvalModel[a])
      PROVE  approvalModel[a].row = approval[a]
  <2>1. approvalModel[a].last \in Nat
    BY <1>1 DEF ModelsTyped
  <2> QED BY <1>2, <1>4, <2>1 DEF Converging, ApprovalShown
<1> QED BY <1>3, <1>4 DEF RowsConverge, TouchedBy, About

(* With one worker the read models come to show the canonical rows, out of *)
(* whatever order their events are delivered in: an event is applied only  *)
(* if it is not older than the last one (shouldApply), and from the row as *)
(* it is then (hydrateWorkReadModel and hydrateApprovalReadModel), so the  *)
(* last event of a row leaves it shown.  A delivery that dies is not made  *)
(* again, and only if its event was the newest of the row does the model   *)
(* stay behind: any later event of the row brings it all there is to show. *)
THEOREM RowsAlwaysConverge == ASSUME OneWorker PROVE Spec => []RowsConverge
<1>1. Init => Converging
  BY InitConverging
<1>2. IInv /\ IInv' /\ Converging /\ [Next]_vars => Converging'
  BY NextConverges
<1>3. IInv /\ Converging => RowsConverge
  BY QuietConverged
<1> QED BY <1>1, <1>2, <1>3, IInvAlways, PTL DEF Spec
=============================================================================
