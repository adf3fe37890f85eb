-------------------------- MODULE ProjectionProofs --------------------------
(***************************************************************************)
(* Proofs about Projection, for any number of work items, approvals,       *)
(* workers, commands and faults.                                           *)
(*                                                                         *)
(* Whoever is about to replace the attention rows holds the advisory lock, *)
(* so nobody derives them again from newer read models before it commits   *)
(* (SnapshotFresh); and an event that a worker delivers stays claimed by   *)
(* it alone until it is processed (Placed, Claimed).                       *)
(***************************************************************************)
EXTENDS Projection, TLAPS, SequenceTheorems

Labels == {"idle", "approval", "readApproval", "writeApproval", "work", "readWork", "readHistory",
           "pending", "writeWork", "compare", "lock", "snapshot", "replace", "done"}
\* A row that exists has an owner or an approver.
OwnedWork == {r \in WorkRow : r.status # "none" => r.owner \in Members}
OwnedApproval == {r \in ApprovalRow : r.status # "none" => r.approver \in Members}

CanonTyped ==
  /\ now \in 0..MaxTime /\ faults \in 0..MaxFaults /\ dirty \in BOOLEAN
  /\ work \in [Works -> OwnedWork] /\ approval \in [Approvals -> OwnedApproval]
  /\ events \in Seq(Event) /\ waiting \subseteq DOMAIN events /\ lost \subseteq DOMAIN events
  /\ \A e \in DOMAIN events : /\ events[e].kind = "work" => events[e].of \in Works
                              /\ events[e].kind = "approval" => events[e].of \in Approvals
ModelsTyped ==
  /\ workModel \in [Works -> [row : OwnedWork, pending : Approvals \union {Nobody},
                              last : Nat, at : 0..MaxTime]]
  /\ approvalModel \in [Approvals -> [row : OwnedApproval, last : Nat, at : 0..MaxTime]]
  /\ attention \subseteq AttentionRow
LocalsTyped ==
  /\ pc \in [Actors -> Labels] /\ event \in [Actors -> Nat]
  /\ hydrated \in [Actors -> OwnedWork] /\ decision \in [Actors -> OwnedApproval]
  /\ pending \in [Actors -> Approvals \union {Nobody}]
  /\ asOf \in [Actors -> Nat] /\ \A p \in Actors : asOf[p] <= now
  /\ snapshot \in [Actors -> SUBSET (Works \X OwnedWork)]

\* A worker that delivers has its event among those waiting, and knows what it is about.
Placed(p) ==
  /\ p = Clock => pc[p] \in {"idle", "compare", "lock", "snapshot", "replace"} /\ event[p] = 0
  /\ p # Clock => /\ pc[p] # "compare"
                  /\ pc[p] = "idle" => event[p] = 0
                  /\ pc[p] # "idle" => event[p] \in waiting
  /\ pc[p] \in {"approval", "readApproval", "writeApproval"} => events[event[p]].kind = "approval"
  /\ pc[p] \in {"work", "readWork", "readHistory", "pending", "writeWork"} => WorkOf(p) \in Works
Placements == \A p \in Actors : Placed(p)

\* No event is delivered by two workers at a time.
Claimed == \A p, q \in Workers : p # q /\ event[p] # 0 => event[p] # event[q]

LockHeld ==
  /\ lock \in Actors \union {Nobody}
  /\ \A p \in Actors : pc[p] \in {"snapshot", "replace"} <=> lock = p

\* What is about to replace the attention rows is what the read models say, unless
\* they were written since.
SnapshotFresh == \A p \in Actors : pc[p] = "replace" /\ ~dirty => snapshot[p] = WorkRows

IInv == /\ CanonTyped /\ ModelsTyped /\ LocalsTyped
        /\ Placements /\ Claimed /\ LockHeld /\ SnapshotFresh /\ AttentionCurrent

-----------------------------------------------------------------------------
(* What is derived from typed rows.                                        *)

LEMMA ActorFacts == Clock \in Actors /\ Clock \notin Workers /\ Nobody \notin Actors /\ Workers \subseteq Actors
BY ProjectionAssumption DEF Actors

LEMMA NothingTyped == NoWork \in OwnedWork /\ NoApproval \in OwnedApproval
BY DEF NoWork, NoApproval, OwnedWork, OwnedApproval, WorkRow, ApprovalRow

LEMMA ModelRows ==
  ASSUME ModelsTyped
  PROVE  WorkRows \subseteq Works \X OwnedWork /\ ApprovalRows \subseteq Approvals \X OwnedApproval
BY DEF ModelsTyped, WorkRows, ApprovalRows

LEMMA DerivedRows ==
  ASSUME NEW X, X \subseteq Works \X OwnedWork, NEW Y, Y \subseteq Approvals \X OwnedApproval, NEW t
  PROVE  /\ Lasting(X, Y) \subseteq AttentionRow /\ \A r \in Lasting(X, Y) : r.type # "overdue"
         /\ Overdue(X, t) \subseteq AttentionRow /\ \A r \in Overdue(X, t) : r.type = "overdue"
<1>1. \A x \in X : x[1] \in Works /\ x[2] \in OwnedWork /\ (x[2].status = "open" => x[2].owner \in Members)
  BY DEF OwnedWork
<1>2. \A y \in Y : y[1] \in Approvals /\ y[2] \in OwnedApproval /\ (y[2].status = "pending" => y[2].approver \in Members)
  BY DEF OwnedApproval
<1>3. \A x \in X : x[2].status = "open" =>
        \A type \in {"open", "reassigned", "overdue"} : Row(type, x[1], x[2].owner) \in AttentionRow
  BY <1>1 DEF Row, AttentionRow
<1>4. \A y \in Y : y[2].status = "pending" => Row("approval", y[1], y[2].approver) \in AttentionRow
  BY <1>2 DEF Row, AttentionRow
<1>5. \A type, i, m : Row(type, i, m).type = type
  BY DEF Row
<1>6. Lasting(X, Y) \subseteq AttentionRow
  BY <1>3, <1>4 DEF Lasting
<1>7. \A r \in Lasting(X, Y) : r.type # "overdue"
  BY <1>5 DEF Lasting
<1>8. Overdue(X, t) \subseteq AttentionRow
  BY <1>3 DEF Overdue, PastDue
<1>9. \A r \in Overdue(X, t) : r.type = "overdue"
  BY <1>5 DEF Overdue
<1> QED BY <1>6, <1>7, <1>8, <1>9

\* What is overdue stays so as time goes on.
LEMMA OverdueStays ==
  ASSUME NEW X, X \subseteq Works \X OwnedWork, NEW t \in Nat, NEW u \in Nat, t <= u
  PROVE  Overdue(X, t) \subseteq Overdue(X, u)
<1>1. \A x \in X : x[2].due \in Nat
  BY DEF OwnedWork, WorkRow
<1>2. \A x \in X : PastDue(x[2], t) => PastDue(x[2], u)
  BY <1>1 DEF PastDue
<1> QED BY <1>2 DEF Overdue

LEMMA EventsTyped ==
  ASSUME CanonTyped
  PROVE  \A e \in waiting : /\ e \in DOMAIN events /\ e \in Nat /\ e # 0
                            /\ events[e] \in Event /\ events[e].at \in 0..MaxTime
                            /\ events[e].kind \in {"work", "approval"}
<1>1. \A e \in DOMAIN events : events[e] \in Event /\ e \in Nat /\ e # 0
  BY ElementOfSeq, LenProperties DEF CanonTyped
<1> QED BY <1>1 DEF CanonTyped, Event

\* Steps that write neither attention nor a read model keep what was derived.
LEMMA AttentionKept ==
  ASSUME IInv, UNCHANGED <<models, attention, dirty>>, now \in Nat, now' \in Nat, now <= now',
         (\A p \in Actors : pc'[p] # "replace") => \A p \in Actors : pc[p] # "replace"
  PROVE  AttentionCurrent'
<1> SUFFICES ASSUME ~dirty', \A p \in Actors : pc'[p] # "replace"
             PROVE  /\ (attention \ OverdueRows = Lasting(WorkRows, ApprovalRows))'
                    /\ (OverdueRows \subseteq Overdue(WorkRows, now))'
  BY DEF AttentionCurrent
<1>1. WorkRows' = WorkRows /\ ApprovalRows' = ApprovalRows /\ OverdueRows' = OverdueRows
  BY DEF WorkRows, ApprovalRows, OverdueRows, models
<1>2. /\ attention \ OverdueRows = Lasting(WorkRows, ApprovalRows)
      /\ OverdueRows \subseteq Overdue(WorkRows, now)
  BY DEF IInv, AttentionCurrent
<1>3. Overdue(WorkRows, now) \subseteq Overdue(WorkRows, now')
  BY ModelRows, OverdueStays DEF IInv
<1>4. Lasting(WorkRows, ApprovalRows)' = Lasting(WorkRows, ApprovalRows)
  BY <1>1 DEF Lasting
<1>5. Overdue(WorkRows, now)' = Overdue(WorkRows, now')
  BY <1>1 DEF Overdue
<1> QED BY <1>1, <1>2, <1>3, <1>4, <1>5

-----------------------------------------------------------------------------
LEMMA InitIInv == Init => IInv
<1> SUFFICES ASSUME Init PROVE IInv
  OBVIOUS
<1>1. CanonTyped
  <2>1. events = <<>> /\ events \in Seq(Event) /\ DOMAIN events = {}
    BY DEF Init
  <2>2. dirty \in BOOLEAN
    BY Zenon DEF Init
  <2> QED BY <2>1, <2>2, NothingTyped, ProjectionAssumption DEF Init, CanonTyped
<1>2. ModelsTyped
  BY NothingTyped, ProjectionAssumption DEF Init, ModelsTyped, NoWorkModel, NoApprovalModel
<1>3. LocalsTyped
  BY NothingTyped DEF Init, LocalsTyped, Labels
<1>4. \A p \in Actors : pc[p] = "idle" /\ event[p] = 0
  BY DEF Init
<1>5. Placements /\ SnapshotFresh
  BY <1>4, ActorFacts DEF Placements, Placed, SnapshotFresh
<1>6. Claimed
  BY <1>4, ActorFacts DEF Claimed
<1>7. LockHeld
  BY <1>4, ActorFacts DEF Init, LockHeld
<1>8. AttentionCurrent
  <2>1. /\ \A x \in WorkRows : x[2].status = "none"
        /\ \A x \in ApprovalRows : x[2].status = "none"
    BY DEF Init, WorkRows, ApprovalRows, NoWorkModel, NoApprovalModel, NoWork, NoApproval
  <2>2. Lasting(WorkRows, ApprovalRows) = {}
    BY <2>1 DEF Lasting
  <2>3. attention = {} /\ OverdueRows = {}
    BY DEF Init, OverdueRows
  <2> QED BY <2>2, <2>3 DEF AttentionCurrent
<1> QED BY <1>1, <1>2, <1>3, <1>5, <1>6, <1>7, <1>8 DEF IInv

LEMMA StutterIInv == IInv /\ UNCHANGED vars => IInv'
<1> SUFFICES ASSUME IInv, UNCHANGED vars PROVE IInv'
  OBVIOUS
<1>1. UNCHANGED <<now, work, approval, events, waiting, workModel, approvalModel, attention, pc, event,
                  hydrated, decision, pending, asOf, snapshot, lock, faults, dirty, lost>>
  BY DEF vars, canonical, models, local
<1>2. (CanonTyped /\ ModelsTyped /\ LocalsTyped)'
  BY <1>1 DEF IInv, CanonTyped, ModelsTyped, LocalsTyped
<1>3. (Placements /\ Claimed /\ LockHeld)'
  BY <1>1 DEF IInv, Placements, Placed, WorkOf, Claimed, LockHeld
<1>4. SnapshotFresh'
  BY <1>1 DEF IInv, SnapshotFresh, WorkRows
<1>5. AttentionCurrent'
  BY <1>1, AttentionKept DEF IInv, models, CanonTyped
<1> QED BY <1>2, <1>3, <1>4, <1>5 DEF IInv

-----------------------------------------------------------------------------
(* Commands and time.                                                      *)

LEMMA EmitIInv ==
  ASSUME IInv, NEW kind, NEW i, Emit(kind, i),
         \/ kind = "work" /\ i \in Works
         \/ kind = "approval" /\ i \in Approvals,
         work' \in [Works -> OwnedWork], approval' \in [Approvals -> OwnedApproval]
  PROVE  IInv'
<1> CanonTyped /\ ModelsTyped /\ LocalsTyped
  BY DEF IInv
<1>1. /\ waiting' = waiting \union {Len(events) + 1}
      /\ UNCHANGED <<now, workModel, approvalModel, attention, pc, event, hydrated, decision,
                     pending, asOf, snapshot, lock, faults, dirty, lost>>
  BY DEF Emit, models, local
<1>2. PICK t \in 0..now : events' = Append(events, [kind |-> kind, of |-> i, at |-> t])
  BY DEF Emit
<1> DEFINE ev == [kind |-> kind, of |-> i, at |-> t]
<1>3. ev \in Event /\ ev.kind = kind /\ ev.of = i
  BY ProjectionAssumption DEF Event, CanonTyped
<1> HIDE DEF ev
<1>4. events \in Seq(Event) /\ Len(events) \in Nat /\ DOMAIN events = 1..Len(events)
  BY LenProperties DEF CanonTyped
<1>5. events' \in Seq(Event) /\ Len(events') = Len(events) + 1
  BY <1>2, <1>3, <1>4, AppendProperties DEF ev
<1>6. DOMAIN events' = DOMAIN events \union {Len(events) + 1}
  <2>1. DOMAIN events' = 1..(Len(events) + 1)
    BY <1>5, LenProperties
  <2> QED BY <1>4, <2>1
<1>7. (\A e \in DOMAIN events : events'[e] = events[e]) /\ events'[Len(events) + 1] = ev
  BY <1>2, <1>3, <1>4, AppendProperties DEF ev
<1>8. CanonTyped'
  <2>1. \A e \in DOMAIN events' : /\ events'[e].kind = "work" => events'[e].of \in Works
                                  /\ events'[e].kind = "approval" => events'[e].of \in Approvals
    BY <1>3, <1>6, <1>7 DEF CanonTyped
  <2>2. waiting' \subseteq DOMAIN events' /\ lost' \subseteq DOMAIN events'
    BY <1>1, <1>6 DEF CanonTyped
  <2>3. now' \in 0..MaxTime /\ faults' \in 0..MaxFaults
    BY <1>1 DEF CanonTyped
  <2>4. dirty' \in BOOLEAN
    BY <1>1, Zenon DEF CanonTyped
  <2> QED BY <1>5, <2>1, <2>2, <2>3, <2>4 DEF CanonTyped
<1>9. ModelsTyped' /\ LocalsTyped'
  BY <1>1 DEF ModelsTyped, LocalsTyped
<1>10. Placements'
  <2> SUFFICES ASSUME NEW p \in Actors PROVE Placed(p)'
    BY DEF Placements
  <2>1. Placed(p)
    BY DEF IInv, Placements
  <2>2. CASE p = Clock \/ pc[p] = "idle"
    BY <1>1, <2>1, <2>2 DEF Placed
  <2>3. CASE p # Clock /\ pc[p] # "idle"
    <3>1. event[p] \in waiting /\ events'[event[p]] = events[event[p]]
      BY <1>7, <2>1, <2>3 DEF Placed, CanonTyped
    <3>2. WorkOf(p)' = WorkOf(p)
      BY <1>1, <3>1 DEF WorkOf
    <3> QED BY <1>1, <2>1, <3>1, <3>2 DEF Placed
  <2> QED BY <2>2, <2>3
<1>11. Claimed' /\ LockHeld'
  BY <1>1 DEF IInv, Claimed, LockHeld
<1>12. SnapshotFresh'
  BY <1>1 DEF IInv, SnapshotFresh, WorkRows
<1>13. AttentionCurrent'
  BY <1>1, AttentionKept DEF models, CanonTyped
<1> QED BY <1>8, <1>9, <1>10, <1>11, <1>12, <1>13 DEF IInv

LEMMA CommandIInv == IInv /\ Command => IInv'
<1> SUFFICES ASSUME IInv, Command PROVE IInv'
  OBVIOUS
<1>0. work \in [Works -> OwnedWork] /\ approval \in [Approvals -> OwnedApproval]
  BY DEF IInv, CanonTyped
<1>1. ASSUME NEW w \in Works, CreateWorkItem(w) PROVE IInv'
  <2>1. PICK m \in Members, d \in Dues :
          work' = [work EXCEPT ![w] = [status |-> "open", owner |-> m, due |-> d, handed |-> FALSE]]
    BY <1>1 DEF CreateWorkItem
  <2>2. [status |-> "open", owner |-> m, due |-> d, handed |-> FALSE] \in OwnedWork
    BY ProjectionAssumption DEF OwnedWork, WorkRow
  <2>3. work' \in [Works -> OwnedWork]
    BY <1>0, <2>1, <2>2
  <2> QED BY <1>0, <1>1, <2>3, EmitIInv DEF CreateWorkItem
<1>2. ASSUME NEW w \in Works, ReassignWork(w) PROVE IInv'
  <2>1. PICK m \in Members : work' = [work EXCEPT ![w].owner = m, ![w].handed = TRUE]
    BY <1>2 DEF ReassignWork
  <2>2. [[work[w] EXCEPT !.owner = m] EXCEPT !.handed = TRUE] \in OwnedWork
    BY <1>0 DEF OwnedWork, WorkRow
  <2>3. work' \in [Works -> OwnedWork]
    BY <1>0, <2>1, <2>2
  <2> QED BY <1>0, <1>2, <2>3, EmitIInv DEF ReassignWork
<1>3. ASSUME NEW w \in Works, CompleteWork(w) PROVE IInv'
  <2>1. work' = [work EXCEPT ![w].status = "completed"] /\ work[w].status = "open"
    BY <1>3 DEF CompleteWork
  <2>2. [work[w] EXCEPT !.status = "completed"] \in OwnedWork
    BY <1>0, <2>1 DEF OwnedWork, WorkRow
  <2>3. work' \in [Works -> OwnedWork]
    BY <1>0, <2>1, <2>2
  <2> QED BY <1>0, <1>3, <2>3, EmitIInv DEF CompleteWork
<1>4. ASSUME NEW a \in Approvals, RequestApproval(a) PROVE IInv'
  <2>1. PICK m \in Members, w \in Works \union {Nobody} :
          approval' = [approval EXCEPT ![a] = [status |-> "pending", on |-> w, approver |-> m]]
    BY <1>4 DEF RequestApproval
  <2>2. [status |-> "pending", on |-> w, approver |-> m] \in OwnedApproval
    BY DEF OwnedApproval, ApprovalRow
  <2>3. approval' \in [Approvals -> OwnedApproval]
    BY <1>0, <2>1, <2>2
  <2> QED BY <1>0, <1>4, <2>3, EmitIInv DEF RequestApproval
<1>5. ASSUME NEW a \in Approvals, Decide(a) PROVE IInv'
  <2>1. PICK s \in {"approved", "rejected"} : approval' = [approval EXCEPT ![a].status = s]
    BY <1>5 DEF Decide
  <2>0. approval[a].status = "pending"
    BY <1>5 DEF Decide
  <2>2. [approval[a] EXCEPT !.status = s] \in OwnedApproval
    BY <1>0, <2>0, <2>1 DEF OwnedApproval, ApprovalRow
  <2>3. approval' \in [Approvals -> OwnedApproval]
    BY <1>0, <2>1, <2>2
  <2> QED BY <1>0, <1>5, <2>3, EmitIInv DEF Decide
<1> QED BY <1>1, <1>2, <1>3, <1>4, <1>5 DEF Command

LEMMA PassIInv == IInv /\ Pass => IInv'
<1> SUFFICES ASSUME IInv, Pass PROVE IInv'
  OBVIOUS
<1> CanonTyped /\ ModelsTyped /\ LocalsTyped
  BY DEF IInv
<1>1. /\ now < MaxTime /\ now' = now + 1
      /\ UNCHANGED <<work, approval, events, waiting, workModel, approvalModel, attention, pc, event,
                     hydrated, decision, pending, asOf, snapshot, lock, faults, dirty, lost>>
  BY DEF Pass, canonical, models, local
<1>2. now \in Nat /\ now' \in Nat /\ now' \in 0..MaxTime /\ now <= now'
  BY <1>1, ProjectionAssumption DEF CanonTyped
<1>3. CanonTyped' /\ ModelsTyped'
  BY <1>1, <1>2 DEF CanonTyped, ModelsTyped
<1>4. LocalsTyped'
  <2>1. \A p \in Actors : asOf[p] \in Nat /\ asOf[p] <= now'
    BY <1>1, <1>2 DEF LocalsTyped
  <2> QED BY <1>1, <2>1 DEF LocalsTyped
<1>5. (Placements /\ Claimed /\ LockHeld)'
  BY <1>1 DEF IInv, Placements, Placed, WorkOf, Claimed, LockHeld
<1>6. SnapshotFresh'
  BY <1>1 DEF IInv, SnapshotFresh, WorkRows
<1>7. AttentionCurrent'
  BY <1>1, <1>2, AttentionKept DEF models
<1> QED BY <1>3, <1>4, <1>5, <1>6, <1>7 DEF IInv

-----------------------------------------------------------------------------
(* Steps of a worker or of the clock.                                      *)

\* The row of p in every local variable, and that nobody else's changes.
OwnStep(p) ==
  \A q \in Actors \ {p} :
    /\ pc'[q] = pc[q] /\ event'[q] = event[q] /\ hydrated'[q] = hydrated[q] /\ decision'[q] = decision[q]
    /\ pending'[q] = pending[q] /\ asOf'[q] = asOf[q] /\ snapshot'[q] = snapshot[q]

\* What a step of p that keeps the read models, the attention rows, the lock and the
\* waiting events has to show about p alone.
LEMMA QuietStep ==
  ASSUME IInv, NEW p \in Actors, OwnStep(p), LocalsTyped',
         UNCHANGED <<now, canonical, models, attention, lock, faults, dirty, lost, waiting>>,
         Placed(p)',
         event'[p] = event[p] \/ event'[p] = 0 \/ \A q \in Workers : event'[p] # event[q],
         pc[p] \notin {"snapshot", "replace"} /\ pc'[p] \notin {"snapshot", "replace"}
  PROVE  IInv'
<1> CanonTyped /\ ModelsTyped /\ LocalsTyped
  BY DEF IInv
<1>1. UNCHANGED <<now, work, approval, events, waiting, workModel, approvalModel, attention, lock, faults, dirty, lost>>
  BY DEF canonical, models
<1>2. CanonTyped' /\ ModelsTyped'
  BY <1>1 DEF CanonTyped, ModelsTyped
<1>3. Placements'
  <2> SUFFICES ASSUME NEW q \in Actors, q # p PROVE Placed(q)'
    BY DEF Placements
  <2>1. Placed(q)
    BY DEF IInv, Placements
  <2>2. pc'[q] = pc[q] /\ event'[q] = event[q] /\ decision'[q] = decision[q]
    BY DEF OwnStep
  <2> QED BY <1>1, <2>1, <2>2 DEF Placed, WorkOf
<1>4. Claimed'
  <2> SUFFICES ASSUME NEW q \in Workers, NEW r \in Workers, q # r, event'[q] # 0
               PROVE event'[q] # event'[r]
    BY DEF Claimed
  <2>1. event[q] # 0 => event[q] # event[r]
    BY DEF IInv, Claimed
  <2>2. event[r] # 0 => event[r] # event[q]
    BY DEF IInv, Claimed
  <2> QED BY <2>1, <2>2, ActorFacts DEF OwnStep
<1>5. LockHeld'
  BY <1>1 DEF IInv, LockHeld, OwnStep
<1>6. SnapshotFresh'
  BY <1>1 DEF IInv, SnapshotFresh, OwnStep, WorkRows
<1>7. (\A q \in Actors : pc'[q] # "replace") => \A q \in Actors : pc[q] # "replace"
  BY DEF OwnStep
<1>8. AttentionCurrent'
  BY <1>1, <1>7, AttentionKept DEF models, CanonTyped
<1> QED BY <1>2, <1>3, <1>4, <1>5, <1>6, <1>8 DEF IInv

LEMMA DeliverIInv == ASSUME IInv, NEW p \in Workers, Deliver(p) PROVE IInv'
<1> CanonTyped /\ LocalsTyped /\ p \in Actors /\ p # Clock
  BY ActorFacts DEF IInv
<1>1. PICK e \in waiting \ {event[q] : q \in Workers} :
        /\ event' = [event EXCEPT ![p] = e]
        /\ Goto(p, IF events[e].kind = "work" THEN "work" ELSE "approval")
  BY DEF Deliver
<1>2. /\ UNCHANGED <<now, canonical, models, attention, lock, faults, dirty, lost, waiting>>
      /\ UNCHANGED <<hydrated, decision, pending, asOf, snapshot>>
      /\ pc[p] = "idle"
  BY DEF Deliver, Unwritten
<1>3. /\ e \in Nat /\ events[e] \in Event /\ events[e].kind \in {"work", "approval"}
      /\ events[e].kind = "work" => events[e].of \in Works
  BY EventsTyped DEF CanonTyped
<1>4. /\ pc' = [pc EXCEPT ![p] = pc'[p]] /\ pc'[p] \in {"work", "approval"}
      /\ pc'[p] = "work" <=> events[e].kind = "work"
      /\ event'[p] = e
  BY <1>1 DEF Goto, LocalsTyped
<1>5. LocalsTyped'
  BY <1>1, <1>2, <1>3, <1>4 DEF LocalsTyped, Labels
<1>6. OwnStep(p)
  BY <1>1, <1>2, <1>4 DEF OwnStep, LocalsTyped
<1>7. Placed(p)'
  <2>1. event'[p] \in waiting' /\ events'[e] = events[e]
    BY <1>2, <1>4 DEF canonical
  <2> QED BY <1>3, <1>4, <2>1 DEF Placed, WorkOf
<1>8. \A q \in Workers : event'[p] # event[q]
  BY <1>4
<1> QED BY <1>2, <1>4, <1>5, <1>6, <1>7, <1>8, QuietStep

LEMMA CheckApprovalIInv == ASSUME IInv, NEW p \in Workers, CheckApproval(p) PROVE IInv'
<1> CanonTyped /\ LocalsTyped /\ p \in Actors /\ p # Clock /\ Placed(p)
  BY ActorFacts DEF IInv, Placements
<1>1. /\ UNCHANGED <<now, canonical, models, attention, lock, faults, dirty, lost, waiting>>
      /\ UNCHANGED <<event, hydrated, decision, pending, asOf, snapshot>>
      /\ pc[p] = "approval"
      /\ pc' = [pc EXCEPT ![p] = pc'[p]] /\ pc'[p] \in {"readApproval", "done"}
  BY DEF CheckApproval, Unwritten, Goto, LocalsTyped, local
<1>2. LocalsTyped' /\ OwnStep(p)
  BY <1>1 DEF LocalsTyped, Labels, OwnStep
<1>3. Placed(p)'
  BY <1>1 DEF Placed, canonical
<1> QED BY <1>1, <1>2, <1>3, QuietStep

LEMMA ReadApprovalIInv == ASSUME IInv, NEW p \in Workers, ReadApproval(p) PROVE IInv'
<1> CanonTyped /\ LocalsTyped /\ p \in Actors /\ p # Clock /\ Placed(p)
  BY ActorFacts DEF IInv, Placements
<1>1. /\ UNCHANGED <<now, canonical, models, attention, lock, faults, dirty, lost, waiting>>
      /\ UNCHANGED <<event, hydrated, pending, asOf, snapshot>>
      /\ pc[p] = "readApproval" /\ pc' = [pc EXCEPT ![p] = "writeApproval"]
      /\ decision' = [decision EXCEPT ![p] = approval[events[event[p]].of]]
  BY DEF ReadApproval, Unwritten, Goto
<1>2. approval[events[event[p]].of] \in OwnedApproval
  BY <1>1, EventsTyped DEF Placed, CanonTyped
<1>3. LocalsTyped' /\ OwnStep(p)
  BY <1>1, <1>2 DEF LocalsTyped, Labels, OwnStep
<1>4. Placed(p)'
  BY <1>1 DEF Placed, canonical, LocalsTyped
<1> QED BY <1>1, <1>3, <1>4, QuietStep DEF LocalsTyped

LEMMA CheckWorkIInv == ASSUME IInv, NEW p \in Workers, CheckWork(p) PROVE IInv'
<1> CanonTyped /\ LocalsTyped /\ p \in Actors /\ p # Clock /\ Placed(p)
  BY ActorFacts DEF IInv, Placements
<1>1. /\ UNCHANGED <<now, canonical, models, attention, lock, faults, dirty, lost, waiting>>
      /\ UNCHANGED <<event, hydrated, decision, pending, snapshot>>
      /\ pc[p] = "work"
      /\ pc' = [pc EXCEPT ![p] = pc'[p]] /\ pc'[p] \in {"readWork", "lock", "done"}
      /\ asOf' = [asOf EXCEPT ![p] = asOf'[p]] /\ asOf'[p] \in {asOf[p], now}
  BY DEF CheckWork, Unwritten, Goto, Rebuild, LocalsTyped
<1>2. now \in Nat /\ now' = now
  BY <1>1 DEF CanonTyped
<1>3. LocalsTyped'
  <2>1. \A q \in Actors : asOf'[q] \in Nat /\ asOf'[q] <= now'
    BY <1>1, <1>2 DEF LocalsTyped
  <2>2. pc' \in [Actors -> Labels] /\ asOf' \in [Actors -> Nat]
    BY <1>1, <2>1 DEF LocalsTyped, Labels
  <2> QED BY <1>1, <2>1, <2>2 DEF LocalsTyped
<1>4. OwnStep(p)
  BY <1>1 DEF LocalsTyped, OwnStep
<1>5. Placed(p)'
  BY <1>1 DEF Placed, canonical, WorkOf
<1> QED BY <1>1, <1>3, <1>4, <1>5, QuietStep

LEMMA ReadWorkIInv == ASSUME IInv, NEW p \in Workers, ReadWork(p) PROVE IInv'
<1> CanonTyped /\ LocalsTyped /\ p \in Actors /\ p # Clock /\ Placed(p)
  BY ActorFacts DEF IInv, Placements
<1>1. /\ UNCHANGED <<now, canonical, models, attention, lock, faults, dirty, lost, waiting>>
      /\ UNCHANGED <<event, decision, pending, asOf, snapshot>>
      /\ pc[p] = "readWork" /\ pc' = [pc EXCEPT ![p] = "readHistory"]
      /\ hydrated' = [hydrated EXCEPT ![p] = [work[WorkOf(p)] EXCEPT !.handed = FALSE]]
  BY DEF ReadWork, Unwritten, Goto
<1>2. [work[WorkOf(p)] EXCEPT !.handed = FALSE] \in OwnedWork
  <2>1. work[WorkOf(p)] \in OwnedWork
    BY <1>1 DEF Placed, CanonTyped
  <2> QED BY <2>1 DEF OwnedWork, WorkRow
<1>3. LocalsTyped' /\ OwnStep(p)
  BY <1>1, <1>2 DEF LocalsTyped, Labels, OwnStep
<1>4. Placed(p)'
  BY <1>1 DEF Placed, canonical, WorkOf, LocalsTyped
<1> QED BY <1>1, <1>3, <1>4, QuietStep DEF LocalsTyped

LEMMA ReadHistoryIInv == ASSUME IInv, NEW p \in Workers, ReadHistory(p) PROVE IInv'
<1> CanonTyped /\ LocalsTyped /\ p \in Actors /\ p # Clock /\ Placed(p)
  BY ActorFacts DEF IInv, Placements
<1>1. /\ UNCHANGED <<now, canonical, models, attention, lock, faults, dirty, lost, waiting>>
      /\ UNCHANGED <<event, decision, pending, asOf, snapshot>>
      /\ pc[p] = "readHistory" /\ pc' = [pc EXCEPT ![p] = "pending"]
      /\ hydrated' = [hydrated EXCEPT ![p].handed = work[WorkOf(p)].handed]
  BY DEF ReadHistory, Unwritten, Goto
<1>2. [hydrated[p] EXCEPT !.handed = work[WorkOf(p)].handed] \in OwnedWork
  <2>1. work[WorkOf(p)] \in OwnedWork /\ hydrated[p] \in OwnedWork
    BY <1>1 DEF Placed, CanonTyped, LocalsTyped
  <2> QED BY <2>1 DEF OwnedWork, WorkRow
<1>3. LocalsTyped' /\ OwnStep(p)
  BY <1>1, <1>2 DEF LocalsTyped, Labels, OwnStep
<1>4. Placed(p)'
  BY <1>1 DEF Placed, canonical, WorkOf, LocalsTyped
<1> QED BY <1>1, <1>3, <1>4, QuietStep DEF LocalsTyped

LEMMA FindPendingApprovalIInv == ASSUME IInv, NEW p \in Workers, FindPendingApproval(p) PROVE IInv'
<1> CanonTyped /\ LocalsTyped /\ p \in Actors /\ p # Clock /\ Placed(p)
  BY ActorFacts DEF IInv, Placements
<1>1. /\ UNCHANGED <<now, canonical, models, attention, lock, faults, dirty, lost, waiting>>
      /\ UNCHANGED <<event, hydrated, decision, asOf, snapshot>>
      /\ pc[p] = "pending" /\ pc' = [pc EXCEPT ![p] = "writeWork"]
  BY DEF FindPendingApproval, Unwritten, Goto
<1>2. PICK a \in Approvals \union {Nobody} : pending' = [pending EXCEPT ![p] = a]
  BY DEF FindPendingApproval, PendingFor
<1>3. LocalsTyped' /\ OwnStep(p)
  BY <1>1, <1>2 DEF LocalsTyped, Labels, OwnStep
<1>4. Placed(p)'
  BY <1>1 DEF Placed, canonical, WorkOf, LocalsTyped
<1> QED BY <1>1, <1>3, <1>4, QuietStep DEF LocalsTyped

LEMMA TickIInv == IInv /\ Tick => IInv'
<1> SUFFICES ASSUME IInv, Tick PROVE IInv'
  OBVIOUS
<1> CanonTyped /\ LocalsTyped /\ ModelsTyped /\ Clock \in Actors /\ Clock \notin Workers /\ Placed(Clock)
  BY ActorFacts DEF IInv, Placements
<1>1. /\ UNCHANGED <<now, canonical, models, attention, lock, faults, dirty, lost, waiting>>
      /\ UNCHANGED <<event, hydrated, decision, pending>>
      /\ pc[Clock] = "idle" /\ pc' = [pc EXCEPT ![Clock] = "compare"]
      /\ asOf' = [asOf EXCEPT ![Clock] = now]
      /\ snapshot' = [snapshot EXCEPT ![Clock] = {x \in WorkRows : PastDue(x[2], now)}]
  BY DEF Tick, Unwritten, Goto
<1>2. now \in Nat /\ now' = now
  BY <1>1 DEF CanonTyped
<1>3. {x \in WorkRows : PastDue(x[2], now)} \in SUBSET (Works \X OwnedWork)
  BY ModelRows
<1>4. LocalsTyped' /\ OwnStep(Clock)
  <2> DEFINE X == {x \in WorkRows : PastDue(x[2], now)}
  <2> HIDE DEF X
  <2> QED BY <1>1, <1>2, <1>3 DEF LocalsTyped, Labels, OwnStep, X
<1>5. Placed(Clock)'
  BY <1>1 DEF Placed, canonical, LocalsTyped
<1> QED BY <1>1, <1>4, <1>5, QuietStep DEF LocalsTyped

\* What Finish leaves of p.
LEMMA Finished ==
  ASSUME IInv, NEW p \in Actors, Finish(p), now' = now
  PROVE  LocalsTyped' /\ OwnStep(p) /\ pc'[p] = "idle" /\ event'[p] = 0
<1> CanonTyped /\ LocalsTyped
  BY DEF IInv
<1>1. /\ pc' = [pc EXCEPT ![p] = "idle"] /\ event' = [event EXCEPT ![p] = 0]
      /\ hydrated' = [hydrated EXCEPT ![p] = NoWork] /\ decision' = [decision EXCEPT ![p] = NoApproval]
      /\ pending' = [pending EXCEPT ![p] = Nobody] /\ asOf' = [asOf EXCEPT ![p] = 0]
      /\ snapshot' = [snapshot EXCEPT ![p] = {}]
  BY DEF Finish, Goto
<1>2. now \in Nat
  BY DEF CanonTyped
<1> QED BY <1>1, <1>2, NothingTyped DEF LocalsTyped, Labels, OwnStep

LEMMA CompareIInv == IInv /\ Compare => IInv'
<1> SUFFICES ASSUME IInv, Compare PROVE IInv'
  OBVIOUS
<1> CanonTyped /\ LocalsTyped /\ Clock \in Actors /\ Clock \notin Workers /\ Placed(Clock)
  BY ActorFacts DEF IInv, Placements
<1>1. /\ UNCHANGED <<now, canonical, models, attention, lock, faults, dirty, lost, waiting>>
      /\ pc[Clock] = "compare"
  BY DEF Compare, Unwritten
<1>2. CASE Goto(Clock, "lock") /\ UNCHANGED local
  <2>1. pc' = [pc EXCEPT ![Clock] = "lock"] /\ UNCHANGED <<event, hydrated, decision, pending, asOf, snapshot>>
    BY <1>2 DEF Goto, local
  <2>2. LocalsTyped' /\ OwnStep(Clock) /\ Placed(Clock)'
    BY <1>1, <2>1 DEF LocalsTyped, Labels, OwnStep, Placed
  <2> QED BY <1>1, <2>1, <2>2, QuietStep DEF LocalsTyped
<1>3. CASE Finish(Clock)
  <2>1. LocalsTyped' /\ OwnStep(Clock) /\ pc'[Clock] = "idle" /\ event'[Clock] = 0
    BY <1>1, <1>3, Finished
  <2>2. Placed(Clock)'
    BY <2>1 DEF Placed
  <2> QED BY <1>1, <2>1, <2>2, QuietStep
<1> QED BY <1>2, <1>3 DEF Compare

\* A step that writes a read model: attention is no longer what the models say.
LEMMA WritingStep ==
  ASSUME IInv, NEW p \in Workers, OwnStep(p), LocalsTyped', ModelsTyped',
         UNCHANGED <<now, canonical, attention, lock, faults, lost, waiting, event>>,
         dirty' = TRUE, Placed(p)',
         pc[p] \notin {"snapshot", "replace"} /\ pc'[p] \notin {"snapshot", "replace"}
  PROVE  IInv'
<1> CanonTyped /\ p \in Actors
  BY ActorFacts DEF IInv
<1>1. UNCHANGED <<now, work, approval, events, attention, lock, faults, lost, waiting>>
  BY DEF canonical
<1>2. CanonTyped'
  BY <1>1 DEF CanonTyped
<1>3. Placements'
  <2> SUFFICES ASSUME NEW q \in Actors, q # p PROVE Placed(q)'
    BY DEF Placements
  <2>1. Placed(q)
    BY DEF IInv, Placements
  <2>2. pc'[q] = pc[q] /\ event'[q] = event[q] /\ decision'[q] = decision[q]
    BY DEF OwnStep
  <2> QED BY <1>1, <2>1, <2>2 DEF Placed, WorkOf
<1>4. Claimed'
  BY DEF IInv, Claimed
<1>5. LockHeld'
  BY <1>1 DEF IInv, LockHeld, OwnStep
<1>6. SnapshotFresh' /\ AttentionCurrent'
  BY DEF SnapshotFresh, AttentionCurrent
<1> QED BY <1>2, <1>3, <1>4, <1>5, <1>6 DEF IInv

LEMMA WriteApprovalIInv == ASSUME IInv, NEW p \in Workers, WriteApproval(p) PROVE IInv'
<1> CanonTyped /\ LocalsTyped /\ ModelsTyped /\ p \in Actors /\ p # Clock /\ Placed(p)
  BY ActorFacts DEF IInv, Placements
<1> DEFINE a == events[event[p]].of
           m == [row |-> decision[p], last |-> event[p], at |-> events[event[p]].at]
<1>1. /\ UNCHANGED <<now, canonical, waiting, workModel, attention, lock, faults, lost,
                     event, hydrated, decision, pending, snapshot>>
      /\ pc[p] = "writeApproval" /\ dirty' = TRUE
      /\ approvalModel' = [approvalModel EXCEPT ![a] = m]
  BY DEF WriteApproval
<1>2. /\ pc' = [pc EXCEPT ![p] = pc'[p]]
      /\ pc'[p] = IF decision[p].on = Nobody THEN "lock" ELSE "work"
      /\ asOf' = [asOf EXCEPT ![p] = asOf'[p]] /\ asOf'[p] \in {asOf[p], now}
  BY DEF WriteApproval, Goto, Rebuild, LocalsTyped
<1>3. /\ event[p] \in waiting /\ events[event[p]] \in Event
      /\ events[event[p]].at \in 0..MaxTime /\ a \in Approvals
  BY <1>1, EventsTyped DEF Placed, CanonTyped
<1>4. ModelsTyped'
  <2>1. m \in [row : OwnedApproval, last : Nat, at : 0..MaxTime]
    BY <1>3 DEF LocalsTyped
  <2> HIDE DEF m, a
  <2> QED BY <1>1, <1>3, <2>1 DEF ModelsTyped
<1> HIDE DEF m, a
<1>5. now \in Nat /\ now' = now
  BY <1>1 DEF CanonTyped
<1>6. LocalsTyped'
  <2>1. \A q \in Actors : asOf'[q] \in Nat /\ asOf'[q] <= now'
    BY <1>2, <1>5 DEF LocalsTyped
  <2>2. pc' \in [Actors -> Labels] /\ asOf' \in [Actors -> Nat]
    BY <1>2, <2>1 DEF LocalsTyped, Labels
  <2> QED BY <1>1, <2>1, <2>2 DEF LocalsTyped
<1>7. OwnStep(p)
  BY <1>1, <1>2 DEF LocalsTyped, OwnStep
<1>8. Placed(p)'
  <2>1. decision[p].on \in Works \union {Nobody}
    BY DEF LocalsTyped, OwnedApproval, ApprovalRow
  <2>2. WorkOf(p)' = decision[p].on
    BY <1>1 DEF canonical, WorkOf, Placed
  <2> QED BY <1>1, <1>2, <1>3, <2>1, <2>2 DEF Placed
<1> QED BY <1>1, <1>2, <1>4, <1>6, <1>7, <1>8, WritingStep

LEMMA WriteWorkIInv == ASSUME IInv, NEW p \in Workers, WriteWork(p) PROVE IInv'
<1> CanonTyped /\ LocalsTyped /\ ModelsTyped /\ p \in Actors /\ p # Clock /\ Placed(p)
  BY ActorFacts DEF IInv, Placements
<1> DEFINE w == WorkOf(p)
           m == [row |-> hydrated[p], pending |-> pending[p], last |-> event[p], at |-> events[event[p]].at]
<1>1. /\ UNCHANGED <<now, canonical, waiting, approvalModel, attention, lock, faults, lost,
                     event, decision, snapshot>>
      /\ pc[p] = "writeWork" /\ dirty' = TRUE
      /\ workModel' = [workModel EXCEPT ![w] = m]
      /\ pc' = [pc EXCEPT ![p] = "lock"] /\ asOf' = [asOf EXCEPT ![p] = now]
      /\ hydrated' = [hydrated EXCEPT ![p] = NoWork] /\ pending' = [pending EXCEPT ![p] = Nobody]
  BY DEF WriteWork, Goto, Rebuild
<1>2. event[p] \in waiting /\ events[event[p]].at \in 0..MaxTime /\ w \in Works
  BY <1>1, EventsTyped DEF Placed
<1>3. ModelsTyped'
  <2>1. m \in [row : OwnedWork, pending : Approvals \union {Nobody}, last : Nat, at : 0..MaxTime]
    BY <1>2 DEF LocalsTyped
  <2> HIDE DEF m, w
  <2> QED BY <1>1, <1>2, <2>1 DEF ModelsTyped
<1> HIDE DEF m, w
<1>4. now \in Nat /\ now' = now
  BY <1>1 DEF CanonTyped
<1>5. LocalsTyped' /\ OwnStep(p)
  BY <1>1, <1>4, NothingTyped DEF LocalsTyped, Labels, OwnStep
<1>6. Placed(p)'
  BY <1>1, <1>2 DEF Placed, LocalsTyped
<1> QED BY <1>1, <1>3, <1>5, <1>6, WritingStep DEF LocalsTyped

LEMMA ProcessedIInv == ASSUME IInv, NEW p \in Workers, Processed(p) PROVE IInv'
<1> CanonTyped /\ LocalsTyped /\ ModelsTyped /\ p \in Actors /\ p # Clock /\ Placed(p)
  BY ActorFacts DEF IInv, Placements
<1>1. /\ UNCHANGED <<now, work, approval, events, workModel, approvalModel, attention, lock, faults, dirty, lost>>
      /\ pc[p] = "done" /\ waiting' = waiting \ {event[p]} /\ Finish(p)
  BY DEF Processed, Unwritten, canonical, models
<1>2. LocalsTyped' /\ OwnStep(p) /\ pc'[p] = "idle" /\ event'[p] = 0
  BY <1>1, Finished
<1>3. CanonTyped' /\ ModelsTyped'
  BY <1>1 DEF CanonTyped, ModelsTyped
<1>4. Placements'
  <2> SUFFICES ASSUME NEW q \in Actors PROVE Placed(q)'
    BY DEF Placements
  <2>1. Placed(q)
    BY DEF IInv, Placements
  <2>2. CASE q = p
    BY <1>2, <2>2 DEF Placed
  <2>3. CASE q # p
    <3>1. pc'[q] = pc[q] /\ event'[q] = event[q] /\ decision'[q] = decision[q]
      BY <1>2, <2>3 DEF OwnStep
    <3>2. event[p] # 0
      BY <1>1, EventsTyped DEF Placed
    <3>3. q \in Workers => event[q] # event[p]
      BY <2>3, <3>2 DEF IInv, Claimed
    <3>4. q # Clock => q \in Workers
      BY DEF Actors
    <3> QED BY <1>1, <2>1, <3>1, <3>3, <3>4 DEF Placed, WorkOf
  <2> QED BY <2>2, <2>3
<1>5. Claimed'
  <2> SUFFICES ASSUME NEW q \in Workers, NEW r \in Workers, q # r, event'[q] # 0 PROVE event'[q] # event'[r]
    BY DEF Claimed
  <2>1. event[q] # 0 => event[q] # event[r]
    BY DEF IInv, Claimed
  <2> QED BY <1>2, <2>1, ActorFacts DEF OwnStep
<1>6. LockHeld'
  BY <1>1, <1>2 DEF IInv, LockHeld, OwnStep
<1>7. SnapshotFresh'
  BY <1>1, <1>2 DEF IInv, SnapshotFresh, OwnStep, WorkRows
<1>8. AttentionCurrent'
  <2>1. (\A q \in Actors : pc'[q] # "replace") => \A q \in Actors : pc[q] # "replace"
    BY <1>1, <1>2 DEF OwnStep
  <2> QED BY <1>1, <2>1, AttentionKept DEF models, CanonTyped
<1> QED BY <1>2, <1>3, <1>4, <1>5, <1>6, <1>7, <1>8 DEF IInv

-----------------------------------------------------------------------------
(* The rebuild, and faults.                                                *)

\* A step of p that changes its pc within an event it keeps.
LEMMA SameEvent ==
  ASSUME IInv, NEW p \in Actors, OwnStep(p), event'[p] = event[p], UNCHANGED <<canonical, waiting>>,
         pc[p] \in {"lock", "snapshot", "replace"},
         pc'[p] \in {"snapshot", "replace"} \/ (p # Clock /\ pc'[p] = "done")
  PROVE  Placements' /\ Claimed'
<1>1. Placements'
  <2> SUFFICES ASSUME NEW q \in Actors PROVE Placed(q)'
    BY DEF Placements
  <2>1. Placed(q)
    BY DEF IInv, Placements
  <2>2. CASE q = p
    BY <2>1, <2>2 DEF Placed
  <2>3. CASE q # p
    <3>1. pc'[q] = pc[q] /\ event'[q] = event[q] /\ decision'[q] = decision[q]
      BY <2>3 DEF OwnStep
    <3> QED BY <2>1, <3>1 DEF Placed, WorkOf, canonical
  <2> QED BY <2>2, <2>3
<1>2. Claimed'
  <2>1. \A q \in Workers : event'[q] = event[q]
    BY ActorFacts DEF OwnStep
  <2> QED BY <2>1 DEF IInv, Claimed
<1> QED BY <1>1, <1>2

LEMMA LockIInv == ASSUME IInv, NEW p \in Actors, Lock(p) PROVE IInv'
<1> CanonTyped /\ LocalsTyped /\ ModelsTyped
  BY DEF IInv
<1>1. /\ UNCHANGED <<now, work, approval, events, waiting, workModel, approvalModel, attention, event,
                     hydrated, decision, pending, asOf, snapshot, faults, dirty, lost>>
      /\ lock = Nobody /\ pc[p] = "lock" /\ lock' = p /\ pc' = [pc EXCEPT ![p] = "snapshot"]
  BY DEF Lock, LockFree, Goto, canonical, models, local
<1>2. (CanonTyped /\ ModelsTyped /\ LocalsTyped)' /\ OwnStep(p) /\ pc'[p] = "snapshot"
  BY <1>1 DEF CanonTyped, ModelsTyped, LocalsTyped, Labels, OwnStep
<1>3. Placements' /\ Claimed'
  BY <1>1, <1>2, SameEvent DEF canonical
<1>4. LockHeld'
  BY <1>1, <1>2, ActorFacts DEF IInv, LockHeld, OwnStep
<1>5. SnapshotFresh'
  BY <1>1, <1>2 DEF IInv, SnapshotFresh, OwnStep, WorkRows
<1>6. AttentionCurrent'
  <2>1. (\A q \in Actors : pc'[q] # "replace") => \A q \in Actors : pc[q] # "replace"
    BY <1>1, <1>2 DEF OwnStep
  <2> QED BY <1>1, <2>1, AttentionKept DEF models, CanonTyped
<1> QED BY <1>2, <1>3, <1>4, <1>5, <1>6 DEF IInv

LEMMA SnapshotIInv == ASSUME IInv, NEW p \in Actors, Snapshot(p) PROVE IInv'
<1> CanonTyped /\ LocalsTyped /\ ModelsTyped
  BY DEF IInv
<1>1. /\ UNCHANGED <<now, work, approval, events, waiting, workModel, approvalModel, attention, event,
                     hydrated, decision, pending, asOf, lock, faults, lost>>
      /\ pc[p] = "snapshot" /\ dirty' = FALSE /\ pc' = [pc EXCEPT ![p] = "replace"]
      /\ snapshot' = [snapshot EXCEPT ![p] = WorkRows]
  BY DEF Snapshot, Goto, canonical, models
<1>2. CanonTyped'
  BY <1>1, Zenon DEF CanonTyped
<1>3. ModelsTyped' /\ LocalsTyped' /\ OwnStep(p) /\ pc'[p] = "replace" /\ snapshot'[p] = WorkRows
  BY <1>1, ModelRows DEF ModelsTyped, LocalsTyped, Labels, OwnStep
<1>4. Placements' /\ Claimed'
  BY <1>1, <1>3, SameEvent DEF canonical
<1>5. LockHeld'
  BY <1>1, <1>3 DEF IInv, LockHeld, OwnStep
<1>6. SnapshotFresh'
  <2>1. WorkRows' = WorkRows
    BY <1>1 DEF WorkRows
  <2>2. \A q \in Actors : q # p => pc'[q] # "replace"
    BY <1>1, <1>3 DEF IInv, LockHeld, OwnStep
  <2> QED BY <1>3, <2>1, <2>2 DEF SnapshotFresh
<1>7. AttentionCurrent'
  BY <1>3 DEF AttentionCurrent
<1> QED BY <1>2, <1>3, <1>4, <1>5, <1>6, <1>7 DEF IInv

LEMMA ReplaceIInv == ASSUME IInv, NEW p \in Actors, Replace(p) PROVE IInv'
<1> CanonTyped /\ LocalsTyped /\ ModelsTyped
  BY DEF IInv
<1>1. /\ UNCHANGED <<now, work, approval, events, waiting, workModel, approvalModel, faults, dirty, lost>>
      /\ pc[p] = "replace" /\ lock' = Nobody
      /\ attention' = Lasting(snapshot[p], ApprovalRows) \union Overdue(snapshot[p], asOf[p])
  BY DEF Replace, canonical, models
<1>2. LocalsTyped' /\ OwnStep(p) /\ pc'[p] \in {"idle", "done"}
  <2>1. CASE p = Clock /\ Finish(p)
    BY <1>1, <2>1, Finished
  <2>2. CASE Goto(p, "done") /\ UNCHANGED local
    BY <1>1, <2>2 DEF Goto, local, LocalsTyped, Labels, OwnStep
  <2> QED BY <2>1, <2>2 DEF Replace
<1>3. Placements' /\ Claimed'
  <2>1. CASE p = Clock
    <3>1. pc'[p] = "idle" /\ event'[p] = 0 /\ \A q \in Workers : event'[q] = event[q]
      BY <1>1, <1>2, <2>1, Finished, ActorFacts DEF Replace, OwnStep
    <3>2. Placements'
      <4> SUFFICES ASSUME NEW q \in Actors, q # p PROVE Placed(q)'
        BY <2>1, <3>1 DEF Placements, Placed
      <4>1. Placed(q)
        BY DEF IInv, Placements
      <4>2. pc'[q] = pc[q] /\ event'[q] = event[q] /\ decision'[q] = decision[q]
        BY <1>2 DEF OwnStep
      <4> QED BY <1>1, <4>1, <4>2 DEF Placed, WorkOf
    <3> QED BY <3>1, <3>2 DEF IInv, Claimed
  <2>2. CASE p # Clock
    <3>1. pc'[p] = "done" /\ event'[p] = event[p]
      BY <2>2 DEF Replace, Goto, local, LocalsTyped
    <3> QED BY <1>1, <1>2, <2>2, <3>1, SameEvent DEF canonical
  <2> QED BY <2>1, <2>2
<1>4. LockHeld'
  BY <1>1, <1>2, ActorFacts DEF IInv, LockHeld, OwnStep
<1>5. SnapshotFresh'
  BY <1>1, <1>2 DEF IInv, SnapshotFresh, OwnStep, WorkRows
<1>6. CanonTyped'
  BY <1>1 DEF CanonTyped
<1>7. snapshot[p] \subseteq Works \X OwnedWork /\ ApprovalRows \subseteq Approvals \X OwnedApproval
  BY ModelRows DEF LocalsTyped
<1>8. ModelsTyped'
  BY <1>1, <1>7, DerivedRows DEF ModelsTyped
<1>9. AttentionCurrent'
  <2> SUFFICES ASSUME ~dirty
      PROVE  /\ (attention \ OverdueRows = Lasting(WorkRows, ApprovalRows))'
             /\ (OverdueRows \subseteq Overdue(WorkRows, now))'
    BY <1>1 DEF AttentionCurrent
  <2>1. snapshot[p] = WorkRows /\ WorkRows' = WorkRows /\ ApprovalRows' = ApprovalRows
    BY <1>1 DEF IInv, SnapshotFresh, WorkRows, ApprovalRows
  <2>2. Lasting(WorkRows, ApprovalRows)' = Lasting(WorkRows, ApprovalRows)
    BY <2>1 DEF Lasting
  <2>3. Overdue(WorkRows, now)' = Overdue(WorkRows, now)
    BY <1>1, <2>1 DEF Overdue
  <2>4. Overdue(WorkRows, asOf[p]) \subseteq Overdue(WorkRows, now)
    BY <1>7, <2>1, OverdueStays DEF LocalsTyped, CanonTyped
  <2>5. /\ \A r \in Lasting(WorkRows, ApprovalRows) : r.type # "overdue"
        /\ \A r \in Overdue(WorkRows, asOf[p]) : r.type = "overdue"
    BY <1>7, <2>1, DerivedRows
  <2>6. OverdueRows' = Overdue(WorkRows, asOf[p])
    BY <1>1, <2>1, <2>5 DEF OverdueRows
  <2>7. attention' \ OverdueRows' = Lasting(WorkRows, ApprovalRows)
    BY <1>1, <2>1, <2>5, <2>6
  <2> QED BY <2>2, <2>3, <2>4, <2>6, <2>7
<1> QED BY <1>2, <1>3, <1>4, <1>5, <1>6, <1>8, <1>9 DEF IInv

LEMMA FaultIInv == ASSUME IInv, NEW p \in Actors, Fault(p) PROVE IInv'
<1> CanonTyped /\ LocalsTyped /\ ModelsTyped /\ Placed(p)
  BY DEF IInv, Placements
<1>1. /\ UNCHANGED <<now, work, approval, events, workModel, approvalModel, attention>>
      /\ waiting' = waiting \ {event[p]} /\ lost' = lost \union ({event[p]} \intersect waiting)
      /\ pc[p] # "idle" /\ faults < MaxFaults /\ faults' = faults + 1 /\ Finish(p)
      /\ lock' = IF lock = p THEN Nobody ELSE lock
      /\ dirty' = (dirty \/ pc[p] = "replace")
  BY DEF Fault, Unlocked, canonical, models
<1>2. LocalsTyped' /\ OwnStep(p) /\ pc'[p] = "idle" /\ event'[p] = 0
  BY <1>1, Finished
<1>3. CanonTyped'
  <2>1. dirty' \in BOOLEAN
    BY <1>1, Zenon
  <2>2. faults' \in 0..MaxFaults
    BY <1>1, ProjectionAssumption DEF CanonTyped
  <2> QED BY <1>1, <2>1, <2>2 DEF CanonTyped
<1>4. ModelsTyped'
  BY <1>1 DEF ModelsTyped
<1>5. Placements'
  <2> SUFFICES ASSUME NEW q \in Actors PROVE Placed(q)'
    BY DEF Placements
  <2>1. Placed(q)
    BY DEF IInv, Placements
  <2>2. CASE q = p
    BY <1>2, <2>2 DEF Placed
  <2>3. CASE q # p
    <3>1. pc'[q] = pc[q] /\ event'[q] = event[q] /\ decision'[q] = decision[q]
      BY <1>2, <2>3 DEF OwnStep
    <3>2. event[p] = 0 => event[p] \notin waiting
      BY EventsTyped
    <3>3. event[p] # 0 /\ p \in Workers /\ q \in Workers => event[q] # event[p]
      BY <2>3 DEF IInv, Claimed
    <3>4. /\ q # Clock => q \in Workers
          /\ p # Clock => p \in Workers
          /\ p = Clock => event[p] = 0
      BY DEF Actors, Placed
    <3>5. q # Clock /\ event[q] \in waiting => event[q] \in waiting'
      BY <1>1, <3>2, <3>3, <3>4
    <3> QED BY <1>1, <2>1, <3>1, <3>5 DEF Placed, WorkOf
  <2> QED BY <2>2, <2>3
<1>6. Claimed'
  <2> SUFFICES ASSUME NEW q \in Workers, NEW r \in Workers, q # r, event'[q] # 0 PROVE event'[q] # event'[r]
    BY DEF Claimed
  <2>1. event[q] # 0 => event[q] # event[r]
    BY DEF IInv, Claimed
  <2> QED BY <1>2, <2>1, ActorFacts DEF OwnStep
<1>7. LockHeld'
  BY <1>1, <1>2, ActorFacts DEF IInv, LockHeld, OwnStep
<1>8. SnapshotFresh'
  BY <1>1, <1>2 DEF IInv, SnapshotFresh, OwnStep, WorkRows
<1>9. AttentionCurrent'
  <2>1. CASE dirty'
    BY <2>1 DEF AttentionCurrent
  <2>2. CASE ~dirty'
    <3>1. ~dirty /\ pc[p] # "replace"
      BY <1>1, <2>2
    <3>2. (\A q \in Actors : pc'[q] # "replace") => \A q \in Actors : pc[q] # "replace"
      BY <1>2, <3>1 DEF OwnStep
    <3>3. dirty' = dirty
      <4>1. dirty \in BOOLEAN /\ dirty' \in BOOLEAN
        BY <1>3, Zenon DEF CanonTyped
      <4>2. dirty = FALSE
        BY <3>1, <4>1, Zenon
      <4>3. dirty' = FALSE
        BY <2>2, <4>1, Zenon
      <4> QED BY <4>2, <4>3
    <3> QED BY <1>1, <3>2, <3>3, AttentionKept DEF models, CanonTyped
  <2> QED BY <2>1, <2>2
<1> QED BY <1>2, <1>3, <1>4, <1>5, <1>6, <1>7, <1>8, <1>9 DEF IInv

LEMMA NextIInv == IInv /\ [Next]_vars => IInv'
<1> SUFFICES ASSUME IInv, [Next]_vars PROVE IInv'
  OBVIOUS
<1>1. CASE Command
  BY <1>1, CommandIInv
<1>2. CASE Pass
  BY <1>2, PassIInv
<1>3. ASSUME NEW p \in Actors, RebuildStep(p) PROVE IInv'
  BY <1>3, LockIInv, SnapshotIInv, ReplaceIInv DEF RebuildStep
<1>4. CASE ClockStep
  BY <1>3, <1>4, TickIInv, CompareIInv, ActorFacts DEF ClockStep
<1>5. ASSUME NEW p \in Workers, WorkerStep(p) PROVE IInv'
  <2>1. CASE Deliver(p) \/ CheckApproval(p) \/ ReadApproval(p) \/ WriteApproval(p)
    BY <2>1, DeliverIInv, CheckApprovalIInv, ReadApprovalIInv, WriteApprovalIInv
  <2>2. CASE CheckWork(p) \/ ReadWork(p) \/ ReadHistory(p) \/ FindPendingApproval(p) \/ WriteWork(p)
    BY <2>2, CheckWorkIInv, ReadWorkIInv, ReadHistoryIInv, FindPendingApprovalIInv, WriteWorkIInv
  <2>3. CASE RebuildStep(p) \/ Processed(p)
    BY <1>3, <2>3, ProcessedIInv, ActorFacts
  <2> QED BY <1>5, <2>1, <2>2, <2>3 DEF WorkerStep
<1>6. ASSUME NEW p \in Actors, Fault(p) PROVE IInv'
  BY <1>6, FaultIInv
<1>7. CASE UNCHANGED vars
  BY <1>7, StutterIInv
<1> QED BY <1>1, <1>2, <1>4, <1>5, <1>6, <1>7 DEF Next

LEMMA IInvAlways == Spec => []IInv
<1> QED BY InitIInv, NextIInv, PTL DEF Spec

-----------------------------------------------------------------------------
(* The theorems.                                                           *)

(* Rows and read models keep their types, the advisory lock is held where  *)
(* a rebuild needs it, and a worker in a delivery has an event that is     *)
(* still to be delivered, however many deliver at a time.                  *)
THEOREM TypeCorrect == Spec => []TypeOK
<1>1. IInv => TypeOK
  <2> SUFFICES ASSUME IInv PROVE TypeOK
    OBVIOUS
  <2> CanonTyped /\ ModelsTyped /\ LocalsTyped
    BY DEF IInv
  <2>1. OwnedWork \subseteq WorkRow /\ OwnedApproval \subseteq ApprovalRow
    BY DEF OwnedWork, OwnedApproval
  <2>2. /\ now \in 0..MaxTime /\ faults \in 0..MaxFaults
        /\ work \in [Works -> WorkRow] /\ approval \in [Approvals -> ApprovalRow]
        /\ events \in Seq(Event) /\ waiting \subseteq DOMAIN events /\ lost \subseteq DOMAIN events
    BY <2>1 DEF CanonTyped
  <2>3. dirty \in BOOLEAN
    BY Zenon DEF CanonTyped
  <2>4. /\ workModel \in [Works -> [row : WorkRow, pending : Approvals \union {Nobody},
                                    last : Nat, at : 0..MaxTime]]
        /\ approvalModel \in [Approvals -> [row : ApprovalRow, last : Nat, at : 0..MaxTime]]
        /\ attention \subseteq AttentionRow
    <3>1. \A w \in Works : workModel[w] \in [row : WorkRow, pending : Approvals \union {Nobody},
                                             last : Nat, at : 0..MaxTime]
      BY <2>1 DEF ModelsTyped
    <3>2. \A a \in Approvals : approvalModel[a] \in [row : ApprovalRow, last : Nat, at : 0..MaxTime]
      BY <2>1 DEF ModelsTyped
    <3> QED BY <3>1, <3>2 DEF ModelsTyped
  <2>5. lock \in Actors \union {Nobody} /\ (lock # Nobody => pc[lock] \in {"snapshot", "replace"})
    BY DEF IInv, LockHeld
  <2>6. ASSUME NEW p \in Actors
        PROVE  /\ pc[p] \notin {"idle", "compare", "lock", "snapshot", "replace"} => event[p] \in waiting
               /\ hydrated[p] \in WorkRow /\ decision[p] \in ApprovalRow
               /\ pending[p] \in Approvals \union {Nobody} /\ asOf[p] \in 0..now
    <3>1. pc[p] \notin {"idle", "compare", "lock", "snapshot", "replace"} => event[p] \in waiting
      BY DEF IInv, Placements, Placed
    <3>2. asOf[p] \in 0..now
      BY DEF LocalsTyped, CanonTyped
    <3> QED BY <2>1, <3>1, <3>2 DEF LocalsTyped
  <2> QED BY <2>2, <2>3, <2>4, <2>5, <2>6 DEF TypeOK
<1> QED BY <1>1, IInvAlways, PTL

(* When attention was derived after the last write of a read model, it     *)
(* shows what the read models say, however many workers and the clock      *)
(* derive it at a time: the advisory lock is what SnapshotFresh rests on.  *)
THEOREM AttentionAlwaysCurrent == Spec => []AttentionCurrent
<1>1. IInv => AttentionCurrent
  BY DEF IInv
<1> QED BY <1>1, IInvAlways, PTL
=============================================================================
