---------------------------- MODULE OutboxProofs ----------------------------
(***************************************************************************)
(* Proofs about Outbox, for every number of rows, consumers, workers and   *)
(* administrators and every value of the bounds.                           *)
(***************************************************************************)
EXTENDS Outbox, FiniteSetTheorems, TLAPS

(* What the program counter of a run says about its local variables, and   *)
(* that a batch holds each row once and no longer holds the row in hand.   *)
RunOf(w) ==
  /\ pc[w] = "deliver" => next[w] \in Consumers
  /\ pc[w] \in {"consume", "deliver", "failed"} => msg[w] \in Msgs
  /\ pc[w] \in {"idle", "next"} => msg[w] = NoMsg
  /\ pc[w] = "idle" => batch[w] = {}
  /\ \A c, d \in batch[w] : c.id = d.id => c = d
  /\ \A c \in batch[w] : c.id # msg[w]

RunOK == \A w \in Workers : RunOf(w)

TypeInv == TypeOK /\ RunOK

(* AtMostOncePerRecovery, made inductive: a first delivery is paid for by  *)
(* its deduplication row, every further one by a recovery.                 *)
StartsCovered ==
  \A cm \in Consumers \X Msgs :
    starts[cm] <= recoveries[cm[2]] + (IF cm \in dedup THEN 1 ELSE 0)

USE DEF Msgs, Consumers, NoMsg, Status, Claims

-----------------------------------------------------------------------------
LEMMA InitTypeInv == Init => TypeInv
<1> SUFFICES ASSUME Init PROVE TypeInv
  OBVIOUS
<1> USE ConstantsAssumption DEF Init
<1>1. TypeOK
  BY DEF TypeOK
<1>2. RunOK
  BY DEF RunOK, RunOf
<1> QED
  BY <1>1, <1>2 DEF TypeInv

LEMMA NextTypeOK == TypeOK /\ RunOK /\ [Next]_vars => TypeOK'
<1> SUFFICES ASSUME TypeOK, RunOK, [Next]_vars PROVE TypeOK'
  OBVIOUS
<1> USE ConstantsAssumption DEF TypeOK, RunOK, rowVars, runVars, histVars, recVars
<1>1. ASSUME NEW m \in Msgs, Append(m) PROVE TypeOK'
  BY <1>1 DEF Append
<1>2. ASSUME NEW m \in Msgs, NextAttemptDue(m) PROVE TypeOK'
  BY <1>2 DEF NextAttemptDue
<1>3. ASSUME NEW w \in Workers, Claim(w) PROVE TypeOK'
  <2>1. PICK B \in SUBSET Msgs :
          /\ due' = [m \in Msgs |-> IF m \in B THEN FALSE ELSE due[m]]
          /\ batch' = [batch EXCEPT ![w] =
                         {[id |-> m, attempt |-> attempts[m]] : m \in B}]
    BY <1>3 DEF Claim, Eligible
  <2>2. due' \in [Msgs -> BOOLEAN]
    BY <2>1
  <2>3. {[id |-> m, attempt |-> attempts[m]] : m \in B} \subseteq Claims
    OBVIOUS
  <2>4. batch' \in [Workers -> SUBSET Claims]
    BY <2>1, <2>3
  <2> QED
    BY <1>3, <2>2, <2>4 DEF Claim
<1>4. ASSUME NEW w \in Workers, TakeNext(w) PROVE TypeOK'
  <2>1. PICK c \in batch[w] :
          /\ msg' = [msg EXCEPT ![w] = c.id]
          /\ att' = [att EXCEPT ![w] = c.attempt]
          /\ batch' = [batch EXCEPT ![w] = @ \ {c}]
          /\ pc' = [pc EXCEPT ![w] = IF c.id \in Poison THEN "failed" ELSE "consume"]
    BY <1>4 DEF TakeNext
  <2>2. c \in Claims
    BY <2>1
  <2>3. msg' \in [Workers -> Msgs \cup {NoMsg}] /\ att' \in [Workers -> 0 .. MaxAttempts - 1]
    BY <2>1, <2>2
  <2>4. batch' \in [Workers -> SUBSET Claims]
    BY <2>1, <2>2
  <2>5. pc' \in [Workers -> {"idle", "next", "consume", "deliver", "failed"}]
    BY <2>1
  <2>6. next' \in [Workers -> 1 .. NumConsumers + 1] /\ anyDelivered' \in [Workers -> BOOLEAN]
    BY <1>4 DEF TakeNext
  <2> QED
    BY <1>4, <2>3, <2>4, <2>5, <2>6 DEF TakeNext
<1>5. ASSUME NEW w \in Workers, RecordFirst(w) PROVE TypeOK'
  <2>1. Pair(w) \in Consumers \X Msgs
    BY <1>5 DEF RecordFirst, AtConsumer, Pair, RunOf
  <2>2. starts' \in [Consumers \X Msgs -> Nat]
    BY <1>5, <2>1 DEF RecordFirst
  <2> QED
    BY <1>5, <2>1, <2>2 DEF RecordFirst
<1>6. ASSUME NEW w \in Workers, RecordDuplicate(w) PROVE TypeOK'
  <2>1. next' \in [Workers -> 1 .. NumConsumers + 1]
    BY <1>6 DEF RecordDuplicate, AtConsumer
  <2> QED
    BY <1>6, <2>1 DEF RecordDuplicate
<1>7. ASSUME NEW w \in Workers, Deliver(w) PROVE TypeOK'
  <2>1. Pair(w) \in Consumers \X Msgs
    BY <1>7 DEF Deliver, Pair, RunOf
  <2>2. next[w] + 1 \in 1 .. NumConsumers + 1
    BY <1>7 DEF Deliver, RunOf
  <2> QED
    BY <1>7, <2>1, <2>2 DEF Deliver
<1>8. ASSUME NEW w \in Workers, DeliverFails(w) PROVE TypeOK'
  BY <1>8 DEF DeliverFails
<1>9. ASSUME NEW w \in Workers, MarkPublished(w) PROVE TypeOK'
  BY <1>9 DEF MarkPublished, LoopDone, NextMessage, RunOf
<1>10. ASSUME NEW w \in Workers, MarkPublishedFails(w) PROVE TypeOK'
  BY <1>10 DEF MarkPublishedFails, LoopDone
<1>11. ASSUME NEW w \in Workers, MarkForRetry(w) PROVE TypeOK'
  <2>1. msg[w] \in Msgs /\ att[w] + 1 \in 0 .. MaxAttempts - 1
    BY <1>11 DEF MarkForRetry, Exhausted, RunOf
  <2>2. attempts' \in [Msgs -> 0 .. MaxAttempts - 1]
    BY <1>11, <2>1 DEF MarkForRetry
  <2> QED
    BY <1>11, <2>1, <2>2 DEF MarkForRetry, NextMessage
<1>12. ASSUME NEW w \in Workers, MarkDeadLetter(w) PROVE TypeOK'
  BY <1>12 DEF MarkDeadLetter, NextMessage, RunOf
<1>13. ASSUME NEW w \in Workers, Abort(w) PROVE TypeOK'
  <2>1. crashes' \in 0 .. MaxCrashes
    BY <1>13 DEF Abort
  <2>2. batch' \in [Workers -> SUBSET Claims] /\ msg' \in [Workers -> Msgs \cup {NoMsg}]
    BY <1>13 DEF Abort
  <2> QED
    BY <1>13, <2>1, <2>2 DEF Abort
<1>14. ASSUME NEW a \in Admins, NEW m \in Msgs, RecoverRead(a, m) PROVE TypeOK'
  BY <1>14 DEF RecoverRead
<1>15. ASSUME NEW a \in Admins, RecoverCommit(a) PROVE TypeOK'
  <2> DEFINE m == recovering[a]
  <2>1. m \in Msgs
    BY <1>15 DEF RecoverCommit
  <2>2. recoveries' \in [Msgs -> Nat] /\ attempts' \in [Msgs -> 0 .. MaxAttempts - 1]
    BY <1>15, <2>1 DEF RecoverCommit
  <2> QED
    BY <1>15, <2>1, <2>2 DEF RecoverCommit
<1>16. ASSUME NEW a \in Admins, RecoverRollback(a) PROVE TypeOK'
  BY <1>16 DEF RecoverRollback
<1>17. CASE UNCHANGED vars
  BY <1>17 DEF vars
<1> QED
  BY <1>1, <1>2, <1>3, <1>4, <1>5, <1>6, <1>7, <1>8, <1>9,
     <1>10, <1>11, <1>12, <1>13, <1>14, <1>15, <1>16, <1>17 DEF Next, RunStep

LEMMA NextRunOK == TypeOK /\ RunOK /\ [Next]_vars => RunOK'
<1> SUFFICES ASSUME TypeOK, RunOK, [Next]_vars, NEW v \in Workers PROVE RunOf(v)'
  BY DEF RunOK
<1> USE ConstantsAssumption DEF TypeOK, RunOK, rowVars, runVars, histVars, recVars
<1>1. ASSUME NEW m \in Msgs, Append(m) PROVE RunOf(v)'
  BY <1>1 DEF Append, RunOf
<1>2. ASSUME NEW m \in Msgs, NextAttemptDue(m) PROVE RunOf(v)'
  BY <1>2 DEF NextAttemptDue, RunOf
<1>3. ASSUME NEW w \in Workers, Claim(w) PROVE RunOf(v)'
  <2>1. PICK B \in SUBSET Msgs :
          /\ due' = [m \in Msgs |-> IF m \in B THEN FALSE ELSE due[m]]
          /\ batch' = [batch EXCEPT ![w] =
                         {[id |-> m, attempt |-> attempts[m]] : m \in B}]
    BY <1>3 DEF Claim, Eligible
  <2>2. RunOf(w)'
    BY <1>3, <2>1 DEF Claim, RunOf
  <2>3. ASSUME v # w PROVE RunOf(v)'
    BY <1>3, <2>1, <2>3 DEF Claim, RunOf
  <2> QED
    BY <2>2, <2>3
<1>4. ASSUME NEW w \in Workers, TakeNext(w) PROVE RunOf(v)'
  <2>1. PICK c \in batch[w] :
          /\ msg' = [msg EXCEPT ![w] = c.id]
          /\ att' = [att EXCEPT ![w] = c.attempt]
          /\ batch' = [batch EXCEPT ![w] = @ \ {c}]
          /\ pc' = [pc EXCEPT ![w] = IF c.id \in Poison THEN "failed" ELSE "consume"]
    BY <1>4 DEF TakeNext
  <2>2. c \in Claims
    BY <2>1
  <2>3. \A d \in batch[w] \ {c} : d.id # c.id
    BY DEF RunOf
  <2>4. RunOf(w)'
    BY <1>4, <2>1, <2>2, <2>3 DEF TakeNext, RunOf
  <2>5. ASSUME v # w PROVE RunOf(v)'
    BY <1>4, <2>1, <2>5 DEF TakeNext, RunOf
  <2> QED
    BY <2>4, <2>5
<1>5. ASSUME NEW w \in Workers, RecordFirst(w) PROVE RunOf(v)'
  BY <1>5 DEF RecordFirst, AtConsumer, Pair, RunOf
<1>6. ASSUME NEW w \in Workers, RecordDuplicate(w) PROVE RunOf(v)'
  BY <1>6 DEF RecordDuplicate, AtConsumer, RunOf
<1>7. ASSUME NEW w \in Workers, Deliver(w) PROVE RunOf(v)'
  BY <1>7 DEF Deliver, Pair, RunOf
<1>8. ASSUME NEW w \in Workers, DeliverFails(w) PROVE RunOf(v)'
  BY <1>8 DEF DeliverFails, RunOf
<1>9. ASSUME NEW w \in Workers, MarkPublished(w) PROVE RunOf(v)'
  <2>1. RunOf(w)'
    BY <1>9 DEF MarkPublished, LoopDone, NextMessage, RunOf
  <2>2. ASSUME v # w PROVE RunOf(v)'
    BY <1>9, <2>2 DEF MarkPublished, LoopDone, NextMessage, RunOf
  <2> QED
    BY <2>1, <2>2
<1>10. ASSUME NEW w \in Workers, MarkPublishedFails(w) PROVE RunOf(v)'
  BY <1>10 DEF MarkPublishedFails, LoopDone, RunOf
<1>11. ASSUME NEW w \in Workers, MarkForRetry(w) PROVE RunOf(v)'
  <2>1. RunOf(w)'
    BY <1>11 DEF MarkForRetry, NextMessage, RunOf
  <2>2. ASSUME v # w PROVE RunOf(v)'
    BY <1>11, <2>2 DEF MarkForRetry, NextMessage, RunOf
  <2> QED
    BY <2>1, <2>2
<1>12. ASSUME NEW w \in Workers, MarkDeadLetter(w) PROVE RunOf(v)'
  <2>1. RunOf(w)'
    BY <1>12 DEF MarkDeadLetter, NextMessage, RunOf
  <2>2. ASSUME v # w PROVE RunOf(v)'
    BY <1>12, <2>2 DEF MarkDeadLetter, NextMessage, RunOf
  <2> QED
    BY <2>1, <2>2
<1>13. ASSUME NEW w \in Workers, Abort(w) PROVE RunOf(v)'
  BY <1>13 DEF Abort, RunOf
<1>14. ASSUME NEW a \in Admins, NEW m \in Msgs, RecoverRead(a, m) PROVE RunOf(v)'
  BY <1>14 DEF RecoverRead, RunOf
<1>15. ASSUME NEW a \in Admins, RecoverCommit(a) PROVE RunOf(v)'
  BY <1>15 DEF RecoverCommit, RunOf
<1>16. ASSUME NEW a \in Admins, RecoverRollback(a) PROVE RunOf(v)'
  BY <1>16 DEF RecoverRollback, RunOf
<1>17. CASE UNCHANGED vars
  BY <1>17 DEF vars, RunOf
<1> QED
  BY <1>1, <1>2, <1>3, <1>4, <1>5, <1>6, <1>7, <1>8, <1>9,
     <1>10, <1>11, <1>12, <1>13, <1>14, <1>15, <1>16, <1>17 DEF Next, RunStep

LEMMA TypeInvHolds == Spec => []TypeInv
BY InitTypeInv, NextTypeOK, NextRunOK, PTL DEF Spec, TypeInv

(* Type correctness of the outbox, its runs and its recoveries.            *)
THEOREM TypeCorrect == Spec => []TypeOK
BY TypeInvHolds, PTL DEF TypeInv

-----------------------------------------------------------------------------
LEMMA InitStartsCovered == Init => StartsCovered
BY DEF Init, StartsCovered

LEMMA NextStartsCovered ==
  TypeOK /\ RunOK /\ StartsCovered /\ [Next]_vars => StartsCovered'
<1> SUFFICES ASSUME TypeOK, RunOK, StartsCovered, [Next]_vars,
                    NEW c \in Consumers, NEW m \in Msgs
             PROVE  starts'[<<c, m>>] <= recoveries'[m]
                      + (IF <<c, m>> \in dedup' THEN 1 ELSE 0)
  BY DEF StartsCovered
<1>1. /\ starts[<<c, m>>] \in Nat /\ recoveries[m] \in Nat
      /\ starts[<<c, m>>] <= recoveries[m] + (IF <<c, m>> \in dedup THEN 1 ELSE 0)
  BY DEF TypeOK, StartsCovered
<1>2. CASE UNCHANGED <<starts, recoveries, dedup>>
  BY <1>1, <1>2
<1>3. ASSUME NEW w \in Workers, RecordFirst(w)
      PROVE  starts'[<<c, m>>] <= recoveries'[m]
               + (IF <<c, m>> \in dedup' THEN 1 ELSE 0)
  <2>1. /\ Pair(w) \notin dedup
        /\ dedup' = dedup \cup {Pair(w)}
        /\ starts' = [starts EXCEPT ![Pair(w)] = @ + 1]
        /\ recoveries' = recoveries
    BY <1>3 DEF RecordFirst, FirstTime, recVars
  <2>2. CASE Pair(w) = <<c, m>>
    <3>1. starts'[<<c, m>>] = starts[<<c, m>>] + 1
      BY <2>1, <2>2 DEF TypeOK
    <3> QED
      BY <1>1, <2>1, <2>2, <3>1
  <2>3. CASE Pair(w) # <<c, m>>
    <3>1. starts'[<<c, m>>] = starts[<<c, m>>]
      BY <2>1, <2>3 DEF TypeOK
    <3> QED
      BY <1>1, <2>1, <2>3, <3>1
  <2> QED
    BY <2>2, <2>3
<1>4. ASSUME NEW a \in Admins, RecoverCommit(a)
      PROVE  starts'[<<c, m>>] <= recoveries'[m]
               + (IF <<c, m>> \in dedup' THEN 1 ELSE 0)
  <2> DEFINE r == recovering[a]
  <2>1. /\ r \in Msgs
        /\ starts' = starts
        /\ dedup' = {p \in dedup : p[2] # r}
        /\ recoveries' = [recoveries EXCEPT ![r] = @ + 1]
    BY <1>4 DEF RecoverCommit, histVars, TypeOK
  <2> HIDE DEF r
  <2>2. CASE m = r
    <3>1. recoveries'[m] = recoveries[m] + 1
      BY <2>1, <2>2 DEF TypeOK
    <3> QED
      BY <1>1, <2>1, <3>1
  <2>3. CASE m # r
    <3>1. recoveries'[m] = recoveries[m]
      BY <2>1, <2>3 DEF TypeOK
    <3>2. <<c, m>> \in dedup <=> <<c, m>> \in dedup'
      BY <2>1, <2>3
    <3> QED
      BY <1>1, <2>1, <3>1, <3>2
  <2> QED
    BY <2>2, <2>3
<1>5. ASSUME NEW m1 \in Msgs, Append(m1) \/ NextAttemptDue(m1)
      PROVE  UNCHANGED <<starts, recoveries, dedup>>
  BY <1>5 DEF Append, NextAttemptDue, histVars, recVars
<1>6. ASSUME NEW w \in Workers, RunStep(w) \/ Abort(w), ~RecordFirst(w)
      PROVE  UNCHANGED <<starts, recoveries, dedup>>
  BY <1>6 DEF RunStep, Claim, TakeNext, RecordDuplicate, Deliver, DeliverFails,
              MarkPublished, MarkPublishedFails, MarkForRetry, MarkDeadLetter,
              NextMessage, Abort, histVars, recVars
<1>7. ASSUME NEW a \in Admins, RecoverRollback(a) \/ \E m1 \in Msgs : RecoverRead(a, m1)
      PROVE  UNCHANGED <<starts, recoveries, dedup>>
  BY <1>7 DEF RecoverRollback, RecoverRead, histVars, recVars
<1>8. CASE UNCHANGED vars
  BY <1>2, <1>8 DEF vars, histVars, recVars
<1> QED
  BY <1>2, <1>3, <1>4, <1>5, <1>6, <1>7, <1>8 DEF Next, RunStep

(* However many workers overlap, crash, retry or outlive their leases,     *)
(* deliver() is called for a consumer and an event at most once, and once  *)
(* more for each recovery of the row.                                      *)
THEOREM AtMostOnce == Spec => []AtMostOncePerRecovery
<1>1. TypeOK /\ StartsCovered => AtMostOncePerRecovery
  <2> SUFFICES ASSUME TypeOK, StartsCovered, NEW cm \in Consumers \X Msgs
               PROVE  starts[cm] <= 1 + recoveries[cm[2]]
    BY DEF AtMostOncePerRecovery
  <2>1. starts[cm] \in Nat /\ recoveries[cm[2]] \in Nat
    BY DEF TypeOK
  <2> QED
    BY <2>1 DEF StartsCovered
<1>2. Spec => []StartsCovered
  BY InitStartsCovered, NextStartsCovered, TypeInvHolds, PTL DEF Spec, TypeInv
<1> QED
  BY <1>1, <1>2, TypeInvHolds, PTL DEF TypeInv

-----------------------------------------------------------------------------
(* ExclusiveClaim and the lifecycle of a row, when runs end within their   *)
(* leases and recoveries are not concurrent.                               *)
Exclusive ==
  /\ \A v, w \in Workers : v # w => Held(v) \cap Held(w) = {}
  /\ \A w \in Workers : \A m \in Held(w) : status[m] = "pending" /\ ~due[m]
  /\ \A a \in Admins : recovering[a] # NoMsg => status[recovering[a]] = "dead_letter"

LEMMA HeldInMsgs == TypeOK => \A w \in Workers : Held(w) \subseteq Msgs
BY DEF TypeOK, Held

\* A step of a run, a claim apart, takes no row into anybody's hands.
LEMMA HeldShrinks ==
  ASSUME TypeOK, RunOK, NEW w \in Workers, RunStep(w) \/ Abort(w), ~Claim(w),
         NEW v \in Workers
  PROVE  Held(v)' \subseteq Held(v)
<1>1. CASE TakeNext(w)
  BY <1>1 DEF TakeNext, Held, TypeOK
<1>2. CASE \/ RecordFirst(w) \/ RecordDuplicate(w) \/ Deliver(w) \/ DeliverFails(w)
           \/ MarkPublishedFails(w)
  BY <1>2 DEF RecordFirst, RecordDuplicate, Deliver, DeliverFails,
              MarkPublishedFails, Held
<1>3. CASE MarkPublished(w) \/ MarkForRetry(w) \/ MarkDeadLetter(w)
  BY <1>3 DEF MarkPublished, MarkForRetry, MarkDeadLetter, NextMessage, Held, TypeOK
<1>4. CASE Abort(w)
  BY <1>4 DEF Abort, Held, TypeOK
<1> QED
  BY <1>1, <1>2, <1>3, <1>4 DEF RunStep

\* A mark settles a row that is pending and in this worker's hands only.
LEMMA MarkSettles ==
  ASSUME TypeOK, RunOK, Exclusive, NEW w \in Workers,
         MarkPublished(w) \/ MarkForRetry(w) \/ MarkDeadLetter(w)
  PROVE  /\ msg[w] \in Msgs
         /\ status[msg[w]] = "pending"
         /\ \A v \in Workers : msg[w] \notin Held(v)'
<1>1. msg[w] \in Msgs
  BY DEF MarkPublished, LoopDone, MarkForRetry, MarkDeadLetter, RunOK, RunOf
<1>2. msg[w] \in Held(w)
  BY <1>1 DEF Held
<1>3. msg[w] \notin Held(w)'
  <2>1. msg' = [msg EXCEPT ![w] = NoMsg] /\ batch' = batch
    BY DEF MarkPublished, MarkForRetry, MarkDeadLetter, NextMessage
  <2>2. msg'[w] = NoMsg
    BY <2>1 DEF TypeOK
  <2> QED
    BY <2>1, <2>2 DEF Held, RunOK, RunOf
<1>4. ASSUME NEW v \in Workers, v # w PROVE msg[w] \notin Held(v)'
  <2>1. Held(v)' \subseteq Held(v)
    BY HeldShrinks DEF RunStep, Claim, MarkPublished, LoopDone, MarkForRetry,
       MarkDeadLetter
  <2> QED
    BY <1>2, <1>4, <2>1 DEF Exclusive
<1> QED
  BY <1>1, <1>2, <1>3, <1>4 DEF Exclusive

LEMMA InitExclusive == Init => Exclusive
BY DEF Init, Exclusive, Held

\* A step that changes only a row nobody holds keeps claims exclusive.
LEMMA ExclusiveKept ==
  ASSUME TypeOK, Exclusive, NEW m \in Msgs,
         \A v \in Workers : Held(v)' \subseteq Held(v) /\ m \notin Held(v)',
         \A n \in Msgs \ {m} : due'[n] = due[n] /\ status'[n] = status[n],
         recovering' = recovering, \A a \in Admins : recovering[a] # m
  PROVE  Exclusive'
<1>1. ASSUME NEW v \in Workers, NEW w \in Workers, v # w
      PROVE  Held(v)' \cap Held(w)' = {}
  BY <1>1 DEF Exclusive
<1>2. ASSUME NEW w \in Workers, NEW n \in Held(w)'
      PROVE  status'[n] = "pending" /\ ~due'[n]
  <2>1. n \in Held(w) /\ n \in Msgs \ {m}
    BY HeldInMsgs
  <2> QED
    BY <2>1 DEF Exclusive
<1>3. ASSUME NEW a \in Admins, recovering'[a] # NoMsg
      PROVE  status'[recovering'[a]] = "dead_letter"
  <2>1. recovering[a] \in Msgs \ {m}
    BY <1>3 DEF TypeOK
  <2> QED
    BY <1>3, <2>1 DEF Exclusive
<1> QED
  BY <1>1, <1>2, <1>3 DEF Exclusive

\* Every step keeps claims exclusive and is a step of the lifecycle or a stutter.
LEMMA ExclusiveStep ==
  ASSUME Orderly, TypeOK, RunOK, Exclusive, [Next]_vars
  PROVE  Exclusive' /\ [Lifecycle!Next]_status
<1> USE DEF Lifecycle!Next, Lifecycle!Append, Lifecycle!Publish,
            Lifecycle!DeadLetter, Lifecycle!Requeue, Lifecycle!Move
<1> DEFINE Goal == Exclusive' /\ [Lifecycle!Next]_status
<1>1. ASSUME NEW m \in Msgs, Append(m) PROVE Goal
  <2>1. \A v \in Workers : m \notin Held(v) /\ Held(v)' = Held(v)
    BY <1>1 DEF Append, Exclusive, Held, runVars
  <2>2. recovering' = recovering /\ \A a \in Admins : recovering[a] # m
    BY <1>1 DEF Append, Exclusive, recVars
  <2>3. \A n \in Msgs \ {m} : due'[n] = due[n] /\ status'[n] = status[n]
    BY <1>1 DEF Append, TypeOK
  <2>4. Exclusive'
    BY <2>1, <2>2, <2>3, ExclusiveKept
  <2> QED
    BY <1>1, <2>4 DEF Append
<1>2. ASSUME NEW m \in Msgs, NextAttemptDue(m) PROVE Goal
  <2>1. \A v \in Workers : m \notin Held(v) /\ Held(v)' = Held(v)
    BY <1>2 DEF NextAttemptDue, Orderly, Held, runVars
  <2>2. \A n \in Msgs \ {m} : due'[n] = due[n]
    BY <1>2 DEF NextAttemptDue, TypeOK
  <2>3. Exclusive'
    BY <1>2, <2>1, <2>2, HeldInMsgs DEF NextAttemptDue, Exclusive, recVars
  <2> QED
    BY <1>2, <2>3 DEF NextAttemptDue
<1>3. ASSUME NEW w \in Workers, Claim(w) PROVE Goal
  <2>1. PICK B \in SUBSET Eligible :
          /\ due' = [m \in Msgs |-> IF m \in B THEN FALSE ELSE due[m]]
          /\ batch' = [batch EXCEPT ![w] =
                         {[id |-> m, attempt |-> attempts[m]] : m \in B}]
    BY <1>3 DEF Claim
  <2>2. /\ UNCHANGED <<status, msg, recovering>>
        /\ msg[w] = NoMsg
    BY <1>3 DEF Claim, RunOK, RunOf, recVars
  <2>3. Held(w)' = B
    <3>1. batch'[w] = {[id |-> m, attempt |-> attempts[m]] : m \in B}
      BY <2>1 DEF TypeOK
    <3>2. ASSUME NEW m \in B PROVE m \in {c.id : c \in batch'[w]}
      <4>1. [id |-> m, attempt |-> attempts[m]] \in batch'[w]
        BY <3>1
      <4> QED
        BY <4>1
    <3>3. {c.id : c \in batch'[w]} \subseteq B
      BY <3>1
    <3> QED
      BY <2>2, <3>2, <3>3 DEF Held
  <2>4. \A v \in Workers \ {w} : Held(v)' = Held(v)
    BY <2>1, <2>2 DEF TypeOK, Held
  <2>5. B \subseteq Msgs /\ \A m \in B : status[m] = "pending" /\ due[m]
    BY DEF Eligible
  <2>6. \A v \in Workers : Held(v) \cap B = {}
    BY <2>5 DEF Exclusive
  <2>7. \A u, v \in Workers : u # v => Held(u)' \cap Held(v)' = {}
    BY <2>3, <2>4, <2>6 DEF Exclusive
  <2>8. ASSUME NEW v \in Workers, NEW m \in Held(v)'
        PROVE  status[m] = "pending" /\ ~due'[m]
    <3>1. CASE v = w
      BY <2>1, <2>3, <2>5, <3>1
    <3>2. CASE v # w
      <4>1. m \in Held(v) /\ m \in Msgs /\ m \notin B
        BY <2>4, <2>6, <3>2, HeldInMsgs
      <4> QED
        BY <2>1, <4>1 DEF Exclusive
    <3> QED
      BY <3>1, <3>2
  <2> QED
    BY <2>2, <2>7, <2>8 DEF Exclusive
<1>4. ASSUME NEW w \in Workers, RunStep(w) \/ Abort(w), ~Claim(w),
             UNCHANGED <<status, due, recovering>>
      PROVE  Goal
  BY <1>4, HeldShrinks DEF Exclusive
<1>5. ASSUME NEW w \in Workers,
             MarkPublished(w) \/ MarkForRetry(w) \/ MarkDeadLetter(w)
      PROVE  Goal
  <2> DEFINE m == msg[w]
  <2>1. /\ m \in Msgs /\ status[m] = "pending"
        /\ \A v \in Workers : m \notin Held(v)'
    BY <1>5, MarkSettles
  <2>2. \A v \in Workers : Held(v)' \subseteq Held(v)
    BY <1>5, HeldShrinks DEF RunStep, Claim, MarkPublished, LoopDone,
       MarkForRetry, MarkDeadLetter
  <2>3. PICK s \in {"published", "pending", "dead_letter"} :
          status' = [status EXCEPT ![m] = s]
    BY <1>5 DEF MarkPublished, MarkForRetry, MarkDeadLetter
  <2>4. /\ \A n \in Msgs \ {m} : due'[n] = due[n] /\ status'[n] = status[n]
        /\ recovering' = recovering
    BY <1>5, <2>1 DEF MarkPublished, MarkForRetry, MarkDeadLetter, NextMessage,
       recVars, TypeOK
  <2> HIDE DEF m
  <2>5. Exclusive'
    <3>1. \A a \in Admins : recovering[a] # m
      BY <2>1 DEF Exclusive
    <3> QED
      BY <2>1, <2>2, <2>4, <3>1, ExclusiveKept
  <2>6. [Lifecycle!Next]_status
    BY <2>1, <2>3 DEF TypeOK
  <2> QED
    BY <2>5, <2>6
<1>6. ASSUME NEW a \in Admins, NEW m \in Msgs, RecoverRead(a, m) PROVE Goal
  <2>1. \A v \in Workers : Held(v)' = Held(v)
    BY <1>6 DEF RecoverRead, Held, runVars
  <2> QED
    BY <1>6, <2>1 DEF RecoverRead, Recoverable, Exclusive, rowVars, TypeOK
<1>7. ASSUME NEW a \in Admins, RecoverCommit(a) PROVE Goal
  <2> DEFINE m == recovering[a]
  <2>1. m \in Msgs /\ status[m] = "dead_letter"
    BY <1>7 DEF RecoverCommit, Exclusive, TypeOK
  <2>2. \A v \in Workers : m \notin Held(v) /\ Held(v)' = Held(v)
    BY <1>7, <2>1 DEF RecoverCommit, Exclusive, Held, runVars
  <2>3. \A b \in Admins : recovering'[b] = NoMsg
    BY <1>7 DEF RecoverCommit, Orderly, TypeOK
  <2>4. \A n \in Msgs \ {m} : due'[n] = due[n] /\ status'[n] = status[n]
    BY <1>7, <2>1 DEF RecoverCommit, TypeOK
  <2> HIDE DEF m
  <2>5. Exclusive'
    BY <2>2, <2>3, <2>4, HeldInMsgs DEF Exclusive
  <2> QED
    BY <1>7, <2>1, <2>5 DEF RecoverCommit, m
<1>8. ASSUME NEW a \in Admins, RecoverRollback(a) PROVE Goal
  <2>1. \A v \in Workers : Held(v)' = Held(v)
    BY <1>8 DEF RecoverRollback, Held, runVars
  <2> QED
    BY <1>8, <2>1 DEF RecoverRollback, Exclusive, rowVars, TypeOK
<1>9. CASE UNCHANGED vars
  BY <1>9 DEF vars, rowVars, runVars, recVars, Exclusive, Held
<1>10. ASSUME NEW w \in Workers,
              \/ TakeNext(w) \/ RecordFirst(w) \/ RecordDuplicate(w) \/ Deliver(w)
              \/ DeliverFails(w) \/ MarkPublishedFails(w) \/ Abort(w)
       PROVE  ~Claim(w) /\ UNCHANGED <<status, due, recovering>>
  BY <1>10 DEF Claim, TakeNext, RecordFirst, RecordDuplicate, AtConsumer, Deliver,
     DeliverFails, MarkPublishedFails, LoopDone, Abort, rowVars, recVars
<1> QED
  BY <1>1, <1>2, <1>3, <1>4, <1>5, <1>6, <1>7, <1>8, <1>9, <1>10 DEF Next, RunStep

(* No row is ever in the hands of two workers, nor of a worker and of a    *)
(* recovery: the marks by id need no check of lease or status.             *)
THEOREM ClaimsExclusive == Spec => []ExclusiveClaim
<1>1. CASE Orderly
  <2>1. TypeInv /\ Exclusive /\ [Next]_vars => Exclusive'
    BY <1>1, ExclusiveStep DEF TypeInv
  <2>2. Exclusive => ExclusiveClaim
    BY DEF Exclusive, ExclusiveClaim
  <2> QED
    BY InitExclusive, TypeInvHolds, <2>1, <2>2, PTL DEF Spec
<1>2. CASE ~Orderly
  <2>1. ExclusiveClaim
    BY <1>2 DEF ExclusiveClaim
  <2> QED
    BY <2>1, PTL
<1> QED
  BY <1>1, <1>2

(* The outbox implements the lifecycle: a published row is final, and a    *)
(* dead letter is left by a recovery only.                                 *)
THEOREM LifecycleRefined ==
  ASSUME Orderly
  PROVE  Spec => LifecycleSpec
<1>1. Init => Lifecycle!Init
  BY DEF Init, Lifecycle!Init
<1>2. TypeInv /\ Exclusive /\ [Next]_vars => Exclusive' /\ [Lifecycle!Next]_status
  BY ExclusiveStep DEF TypeInv
<1> QED
  BY <1>1, <1>2, InitExclusive, TypeInvHolds, PTL
     DEF Spec, LifecycleSpec, Lifecycle!Spec

-----------------------------------------------------------------------------
(* PublishedMeansRecorded: the consumer loop has passed only recorded      *)
(* consumers, and no recovery takes the records of a row in hand away.     *)
LoopRecorded(w) ==
  /\ pc[w] \in {"consume", "deliver"} =>
       \A c \in Consumers : c < next[w] => <<c, msg[w]>> \in dedup
  /\ pc[w] = "deliver" => Pair(w) \in dedup

AllRecorded(m) == status[m] = "published" => \A c \in Consumers : <<c, m>> \in dedup

Recorded == /\ \A w \in Workers : LoopRecorded(w)
            /\ \A m \in Msgs : AllRecorded(m)

LEMMA InitRecorded == Init => Recorded
BY DEF Init, Recorded, LoopRecorded, AllRecorded

LEMMA RecordedStep ==
  ASSUME Orderly, ~StoreFaults, TypeOK, RunOK, Exclusive, Recorded, [Next]_vars
  PROVE  Recorded'
<1> USE ConstantsAssumption
<1>1. ASSUME UNCHANGED runVars, dedup \subseteq dedup',
             \A m \in Msgs : status'[m] = "published" => status[m] = "published"
      PROVE  Recorded'
  BY <1>1 DEF Recorded, LoopRecorded, AllRecorded, Pair, runVars
<1>2. ASSUME NEW m \in Msgs, Append(m) \/ NextAttemptDue(m) PROVE Recorded'
  BY <1>1, <1>2 DEF Append, NextAttemptDue, TypeOK
<1>3. ASSUME NEW a \in Admins, RecoverRollback(a) \/ \E m \in Msgs : RecoverRead(a, m)
      PROVE  Recorded'
  BY <1>1, <1>3 DEF RecoverRollback, RecoverRead, rowVars
<1>4. ASSUME NEW a \in Admins, RecoverCommit(a) PROVE Recorded'
  <2> DEFINE r == recovering[a]
  <2>1. /\ r \in Msgs /\ status[r] = "dead_letter"
        /\ dedup' = {p \in dedup : p[2] # r}
        /\ status' = [status EXCEPT ![r] = "pending"]
        /\ UNCHANGED runVars
    BY <1>4 DEF RecoverCommit, Exclusive, TypeOK
  <2> HIDE DEF r
  <2>2. ASSUME NEW m \in Msgs PROVE AllRecorded(m)'
    BY <2>1 DEF Recorded, AllRecorded, TypeOK
  <2>3. ASSUME NEW w \in Workers, pc[w] \in {"consume", "deliver"} PROVE msg[w] # r
    <3>1. msg[w] \in Held(w)
      BY <2>3 DEF Held, RunOK, RunOf
    <3> QED
      BY <2>1, <3>1 DEF Exclusive
  <2>4. ASSUME NEW w \in Workers PROVE LoopRecorded(w)'
    BY <2>1, <2>3 DEF Recorded, LoopRecorded, Pair, runVars
  <2> QED
    BY <2>2, <2>4 DEF Recorded
<1>5. ASSUME NEW w \in Workers, RunStep(w) \/ Abort(w) PROVE Recorded'
  <2>1. dedup \subseteq dedup'
    BY <1>5 DEF RunStep, Claim, TakeNext, RecordFirst, RecordDuplicate, Deliver,
       DeliverFails, MarkPublished, MarkPublishedFails, MarkForRetry,
       MarkDeadLetter, NextMessage, Abort
  <2>2. ASSUME NEW v \in Workers, v # w PROVE LoopRecorded(v)'
    <3>1. UNCHANGED <<pc[v], next[v], msg[v]>>
      BY <1>5, <2>2 DEF RunStep, Claim, TakeNext, RecordFirst, RecordDuplicate,
         Deliver, DeliverFails, MarkPublished, MarkPublishedFails, MarkForRetry,
         MarkDeadLetter, NextMessage, Abort, TypeOK
    <3> QED
      BY <2>1, <3>1 DEF Recorded, LoopRecorded, Pair
  <2>3. LoopRecorded(w)'
    <3>1. CASE TakeNext(w)
      BY <3>1 DEF TakeNext, LoopRecorded, TypeOK
    <3>2. CASE RecordFirst(w)
      BY <3>2 DEF RecordFirst, AtConsumer, Recorded, LoopRecorded, Pair, TypeOK
    <3>3. CASE RecordDuplicate(w)
      <4>1. next'[w] = next[w] + 1 /\ UNCHANGED <<pc, msg, dedup>>
        BY <3>3 DEF RecordDuplicate, TypeOK
      <4>2. pc[w] = "consume" /\ <<next[w], msg[w]>> \in dedup
        BY <3>3 DEF RecordDuplicate, AtConsumer, FirstTime, Pair
      <4>3. ASSUME NEW c \in Consumers, c < next'[w] PROVE <<c, msg[w]>> \in dedup
        <5>1. c < next[w] \/ c = next[w]
          BY <4>1, <4>3 DEF TypeOK
        <5> QED
          BY <4>2, <5>1 DEF Recorded, LoopRecorded
      <4> QED
        BY <4>1, <4>2, <4>3 DEF LoopRecorded
    <3>4. CASE Deliver(w)
      <4>1. next'[w] = next[w] + 1 /\ UNCHANGED <<msg, dedup>> /\ pc'[w] = "consume"
        BY <3>4 DEF Deliver, TypeOK
      <4>2. pc[w] = "deliver" /\ <<next[w], msg[w]>> \in dedup
        BY <3>4 DEF Deliver, Pair, Recorded, LoopRecorded
      <4>3. ASSUME NEW c \in Consumers, c < next'[w] PROVE <<c, msg[w]>> \in dedup
        <5>1. c < next[w] \/ c = next[w]
          BY <4>1, <4>3 DEF TypeOK
        <5> QED
          BY <4>2, <5>1 DEF Recorded, LoopRecorded
      <4> QED
        BY <4>1, <4>3 DEF LoopRecorded
    <3>5. ASSUME \/ Claim(w) \/ DeliverFails(w) \/ MarkPublished(w) \/ MarkForRetry(w)
                 \/ MarkDeadLetter(w) \/ MarkPublishedFails(w) \/ Abort(w)
          PROVE  pc'[w] \notin {"consume", "deliver"}
      BY <3>5 DEF Claim, DeliverFails, MarkPublished, MarkForRetry, MarkDeadLetter,
         MarkPublishedFails, NextMessage, Abort, TypeOK
    <3> QED
      BY <1>5, <3>1, <3>2, <3>3, <3>4, <3>5 DEF RunStep, LoopRecorded
  <2>4. ASSUME NEW m \in Msgs PROVE AllRecorded(m)'
    <3>1. CASE MarkPublished(w) /\ m = msg[w]
      <4>1. pc[w] = "consume" /\ \A c \in Consumers : c < next[w]
        BY <3>1 DEF MarkPublished, LoopDone, TypeOK
      <4> QED
        BY <2>1, <3>1, <4>1 DEF Recorded, LoopRecorded, AllRecorded
    <3>2. CASE MarkPublished(w) /\ m # msg[w]
      BY <2>1, <3>2 DEF MarkPublished, Recorded, AllRecorded, TypeOK
    <3>3. CASE MarkForRetry(w) \/ MarkDeadLetter(w)
      BY <2>1, <3>3 DEF MarkForRetry, MarkDeadLetter, Recorded, AllRecorded, TypeOK
    <3>4. ASSUME \/ Claim(w) \/ TakeNext(w) \/ RecordFirst(w) \/ RecordDuplicate(w)
                 \/ Deliver(w) \/ DeliverFails(w) \/ MarkPublishedFails(w) \/ Abort(w)
          PROVE  status' = status
      BY <3>4 DEF Claim, TakeNext, RecordFirst, RecordDuplicate, Deliver,
         DeliverFails, MarkPublishedFails, Abort, rowVars
    <3> QED
      BY <1>5, <2>1, <3>1, <3>2, <3>3, <3>4 DEF RunStep, Recorded, AllRecorded
  <2> QED
    BY <2>2, <2>3, <2>4 DEF Recorded
<1>6. CASE UNCHANGED vars
  BY <1>1, <1>6 DEF vars, rowVars
<1> QED
  BY <1>2, <1>3, <1>4, <1>5, <1>6 DEF Next

(* A row is published only after every consumer has its record: none is    *)
(* passed over, in any interleaving of runs, crashes, retries, recoveries. *)
THEOREM PublishedRecorded == Spec => []PublishedMeansRecorded
<1>1. CASE Orderly /\ ~StoreFaults
  <2>1. TypeInv /\ Exclusive /\ [Next]_vars => Exclusive'
    BY <1>1, ExclusiveStep DEF TypeInv
  <2>2. TypeInv /\ Exclusive /\ Recorded /\ [Next]_vars => Recorded'
    BY <1>1, RecordedStep DEF TypeInv
  <2>3. Recorded => PublishedMeansRecorded
    BY DEF Recorded, AllRecorded, PublishedMeansRecorded
  <2> QED
    BY InitExclusive, InitRecorded, TypeInvHolds, <2>1, <2>2, <2>3, PTL DEF Spec
<1>2. CASE ~(Orderly /\ ~StoreFaults)
  <2>1. PublishedMeansRecorded
    BY <1>2 DEF PublishedMeansRecorded
  <2> QED
    BY <2>1, PTL
<1> QED
  BY <1>1, <1>2

-----------------------------------------------------------------------------
(* OnlyPoisonDies: a delivery that fails has first used up a deduplication  *)
(* row of its event, and nobody takes it back while the row is in hand.  So *)
(* a readable row has failed no more often than it has deduplication rows,  *)
(* one for each consumer at most.                                           *)
Attempted(m) == {c \in Consumers : <<c, m>> \in dedup}

\* What worker w has claimed is as it was claimed, and a failure is paid for.
AttemptPaid(w) ==
  /\ \A c \in batch[w] : c.attempt = attempts[c.id]
  /\ msg[w] # NoMsg => att[w] = attempts[msg[w]]
  /\ \A m \in Msgs \ Poison :
       pc[w] \in {"deliver", "failed"} /\ msg[w] = m => att[w] < Cardinality(Attempted(m))

FailuresPaid == \A m \in Msgs \ Poison : attempts[m] <= Cardinality(Attempted(m))

ReadableAlive == \A m \in Msgs \ Poison : status[m] # "dead_letter"

Paid == FailuresPaid /\ ReadableAlive /\ \A w \in Workers : AttemptPaid(w)

\* At most one deduplication row for each consumer; more of them count for more.
LEMMA AttemptedBound ==
  ASSUME NEW m
  PROVE  /\ IsFiniteSet(Attempted(m))
         /\ Cardinality(Attempted(m)) \in Nat
         /\ Cardinality(Attempted(m)) <= NumConsumers
<1>1. IsFiniteSet(Consumers) /\ Cardinality(Consumers) = NumConsumers
  BY ConstantsAssumption, FS_Interval
<1>2. Attempted(m) \in SUBSET Consumers
  BY DEF Attempted
<1> QED
  BY <1>1, <1>2, FS_Subset, FS_CardinalityType

LEMMA AttemptedGrows ==
  ASSUME NEW m, \A c \in Consumers : <<c, m>> \in dedup => <<c, m>> \in dedup'
  PROVE  /\ Cardinality(Attempted(m)) \in Nat /\ Cardinality(Attempted(m)') \in Nat
         /\ Cardinality(Attempted(m)) <= Cardinality(Attempted(m)')
<1>1. Attempted(m) \in SUBSET Attempted(m)'
  BY DEF Attempted
<1>2. Attempted(m)' \in SUBSET Consumers
  BY DEF Attempted
<1>3. IsFiniteSet(Attempted(m)')
  BY <1>2, ConstantsAssumption, FS_Interval, FS_Subset
<1> QED
  BY <1>1, <1>3, FS_Subset, FS_CardinalityType

LEMMA InitPaid == Init => Paid
<1> SUFFICES ASSUME Init PROVE Paid
  OBVIOUS
<1>1. FailuresPaid
  BY AttemptedBound DEF Init, FailuresPaid
<1> QED
  BY <1>1 DEF Init, Paid, ReadableAlive, AttemptPaid

\* A worker whose locals and whose rows are left alone stays within what it paid for.
LEMMA AttemptPaidKept ==
  ASSUME TypeOK, RunOK, NEW w \in Workers, AttemptPaid(w),
         UNCHANGED <<pc[w], batch[w], msg[w], att[w]>>,
         \A m \in Held(w) : attempts'[m] = attempts[m],
         \A m \in Held(w), c \in Consumers : <<c, m>> \in dedup => <<c, m>> \in dedup'
  PROVE  AttemptPaid(w)'
<1>1. \A c \in batch[w] : c.id \in Held(w)
  BY DEF Held
<1>2. msg[w] # NoMsg => msg[w] \in Held(w)
  BY DEF Held
<1>3. pc[w] \in {"deliver", "failed"} => msg[w] \in Held(w)
  BY DEF Held, RunOK, RunOf
<1>4. ASSUME NEW m \in Msgs \ Poison, pc'[w] \in {"deliver", "failed"}, msg'[w] = m
      PROVE  att'[w] < Cardinality(Attempted(m)')
  <2>1. pc[w] \in {"deliver", "failed"} /\ msg[w] = m /\ m \in Held(w)
    BY <1>3, <1>4
  <2>2. /\ Cardinality(Attempted(m)) \in Nat /\ Cardinality(Attempted(m)') \in Nat
        /\ Cardinality(Attempted(m)) <= Cardinality(Attempted(m)')
    BY <2>1, AttemptedGrows
  <2>3. att[w] \in Nat /\ att[w] < Cardinality(Attempted(m))
    BY <2>1 DEF AttemptPaid, TypeOK
  <2> QED
    BY <2>2, <2>3
<1>5. \A c \in batch'[w] : c.attempt = attempts'[c.id]
  BY <1>1 DEF AttemptPaid
<1>6. msg'[w] # NoMsg => att'[w] = attempts'[msg'[w]]
  BY <1>2 DEF AttemptPaid
<1> QED
  BY <1>4, <1>5, <1>6 DEF AttemptPaid

LEMMA PaidStep ==
  ASSUME Orderly, ~StoreFaults, NumConsumers < MaxAttempts,
         TypeOK, RunOK, Exclusive, Paid, [Next]_vars
  PROVE  Paid'
<1> USE ConstantsAssumption
\* Nothing is forgotten, and no row in hand changes its attempts.
<1>1. ASSUME UNCHANGED <<attempts, runVars>>, dedup \subseteq dedup',
             \A m \in Msgs \ Poison : status'[m] # "dead_letter"
      PROVE  Paid'
  <2>1. ASSUME NEW m \in Msgs \ Poison
        PROVE  attempts'[m] <= Cardinality(Attempted(m)')
    <3>1. /\ Cardinality(Attempted(m)) \in Nat /\ Cardinality(Attempted(m)') \in Nat
          /\ Cardinality(Attempted(m)) <= Cardinality(Attempted(m)')
      BY <1>1, AttemptedGrows
    <3> QED
      BY <1>1, <3>1 DEF Paid, FailuresPaid, TypeOK
  <2>2. \A w \in Workers : AttemptPaid(w)'
    BY <1>1, AttemptPaidKept DEF Paid, runVars
  <2> QED
    BY <1>1, <2>1, <2>2 DEF Paid, FailuresPaid, ReadableAlive
<1>2. ASSUME NEW m \in Msgs, Append(m) \/ NextAttemptDue(m) PROVE Paid'
  <2>1. \A n \in Msgs \ Poison : status'[n] # "dead_letter"
    BY <1>2 DEF Append, NextAttemptDue, Paid, ReadableAlive, TypeOK
  <2>2. dedup' = dedup /\ UNCHANGED <<attempts, runVars>>
    BY <1>2 DEF Append, NextAttemptDue
  <2> QED
    BY <1>1, <2>1, <2>2
<1>3. ASSUME NEW a \in Admins, RecoverRollback(a) \/ \E m \in Msgs : RecoverRead(a, m)
      PROVE  Paid'
  <2>1. UNCHANGED <<status, dedup, attempts, runVars>>
    BY <1>3 DEF RecoverRollback, RecoverRead, rowVars
  <2> QED
    BY <1>1, <2>1 DEF Paid, ReadableAlive
<1>4. ASSUME NEW a \in Admins, RecoverCommit(a) PROVE Paid'
  <2> DEFINE r == recovering[a]
  <2>1. /\ r \in Msgs /\ status[r] = "dead_letter"
        /\ dedup' = {p \in dedup : p[2] # r}
        /\ status' = [status EXCEPT ![r] = "pending"]
        /\ attempts' = [attempts EXCEPT ![r] = 0]
        /\ UNCHANGED runVars
    BY <1>4 DEF RecoverCommit, Exclusive, TypeOK
  <2> HIDE DEF r
  <2>2. ASSUME NEW m \in Msgs \ Poison PROVE attempts'[m] <= Cardinality(Attempted(m)')
    <3>1. m # r
      BY <2>1 DEF Paid, ReadableAlive
    <3>2. Attempted(m)' = Attempted(m) /\ attempts'[m] = attempts[m]
      BY <2>1, <3>1 DEF Attempted, TypeOK
    <3> QED
      BY <3>2 DEF Paid, FailuresPaid
  <2>3. ReadableAlive'
    BY <2>1 DEF Paid, ReadableAlive, TypeOK
  <2>4. ASSUME NEW w \in Workers PROVE AttemptPaid(w)'
    <3>1. \A m \in Held(w) : m \in Msgs /\ m # r
      BY <2>1, HeldInMsgs DEF Exclusive
    <3>2. \A m \in Held(w) : attempts'[m] = attempts[m]
      BY <2>1, <3>1 DEF TypeOK
    <3>3. \A m \in Held(w), c \in Consumers : <<c, m>> \in dedup => <<c, m>> \in dedup'
      BY <2>1, <3>1
    <3> QED
      BY <2>1, <3>2, <3>3, AttemptPaidKept DEF Paid, runVars
  <2> QED
    BY <2>2, <2>3, <2>4 DEF Paid, FailuresPaid
<1>5. ASSUME NEW w \in Workers, RunStep(w) \/ Abort(w) PROVE Paid'
  <2>1. dedup \subseteq dedup'
    BY <1>5 DEF RunStep, Claim, TakeNext, RecordFirst, RecordDuplicate, Deliver,
       DeliverFails, MarkPublished, MarkPublishedFails, MarkForRetry,
       MarkDeadLetter, NextMessage, Abort
  <2>2. ~MarkPublishedFails(w)
    BY DEF MarkPublishedFails
  \* The rows: only a retry counts an attempt, and it was paid for.
  <2>3. ASSUME MarkForRetry(w) \/ MarkDeadLetter(w)
        PROVE  /\ msg[w] \in Msgs
               /\ att[w] = attempts[msg[w]]
               /\ \A m \in Msgs \ Poison :
                    m = msg[w] => att[w] < Cardinality(Attempted(m))
    BY <2>3 DEF MarkForRetry, MarkDeadLetter, Paid, AttemptPaid, RunOK, RunOf
  <2>4. ASSUME NEW m \in Msgs \ Poison PROVE attempts'[m] <= Cardinality(Attempted(m)')
    <3>1. /\ Cardinality(Attempted(m)) \in Nat /\ Cardinality(Attempted(m)') \in Nat
          /\ Cardinality(Attempted(m)) <= Cardinality(Attempted(m)')
      BY <2>1, AttemptedGrows
    <3>2. attempts[m] \in Nat /\ attempts[m] <= Cardinality(Attempted(m))
      BY DEF Paid, FailuresPaid, TypeOK
    <3>3. CASE MarkForRetry(w) /\ m = msg[w]
      <4>1. attempts'[m] = att[w] + 1 /\ att[w] \in Nat
        BY <3>3 DEF MarkForRetry, TypeOK
      <4>2. att[w] < Cardinality(Attempted(m))
        BY <2>3, <3>3
      <4> QED
        BY <3>1, <4>1, <4>2
    <3>4. CASE MarkForRetry(w) /\ m # msg[w]
      BY <3>1, <3>2, <3>4 DEF MarkForRetry, TypeOK
    <3>5. CASE ~MarkForRetry(w)
      <4>1. attempts' = attempts
        BY <1>5, <3>5 DEF RunStep, Claim, TakeNext, RecordFirst, RecordDuplicate, Deliver,
           DeliverFails, MarkPublished, MarkPublishedFails, MarkDeadLetter, NextMessage,
           Abort, rowVars
      <4> QED
        BY <3>1, <3>2, <4>1
    <3> QED
      BY <3>3, <3>4, <3>5
  <2>5. ASSUME NEW m \in Msgs \ Poison PROVE status'[m] # "dead_letter"
    <3>1. status[m] # "dead_letter"
      BY DEF Paid, ReadableAlive
    <3>2. CASE MarkDeadLetter(w) /\ m = msg[w]
      <4>1. att[w] < Cardinality(Attempted(m)) /\ att[w] + 1 >= MaxAttempts /\ att[w] \in Nat
        BY <2>3, <3>2 DEF MarkDeadLetter, Exhausted, TypeOK
      <4>2. Cardinality(Attempted(m)) \in Nat /\ Cardinality(Attempted(m)) <= NumConsumers
        BY AttemptedBound
      <4> QED
        BY <4>1, <4>2
    <3>3. CASE MarkDeadLetter(w) /\ m # msg[w]
      BY <3>1, <3>3 DEF MarkDeadLetter, TypeOK
    <3>4. CASE MarkPublished(w) \/ MarkForRetry(w)
      BY <3>1, <3>4 DEF MarkPublished, MarkForRetry, TypeOK
    <3>5. CASE ~MarkDeadLetter(w) /\ ~MarkPublished(w) /\ ~MarkForRetry(w)
      BY <1>5, <3>1, <3>5 DEF RunStep, Claim, TakeNext, RecordFirst, RecordDuplicate,
         Deliver, DeliverFails, MarkPublishedFails, Abort, rowVars
    <3> QED
      BY <3>2, <3>3, <3>4, <3>5
  \* The other workers: the row in hand is none of theirs.
  <2>6. ASSUME NEW v \in Workers, v # w PROVE AttemptPaid(v)'
    <3>1. UNCHANGED <<pc[v], batch[v], msg[v], att[v]>>
      BY <1>5, <2>6 DEF RunStep, Claim, TakeNext, RecordFirst, RecordDuplicate,
         Deliver, DeliverFails, MarkPublished, MarkPublishedFails, MarkForRetry,
         MarkDeadLetter, NextMessage, Abort, TypeOK
    <3>2. \A m \in Held(v) : attempts'[m] = attempts[m]
      <4>1. CASE MarkForRetry(w)
        <5>1. msg[w] \in Held(w)
          BY <2>3, <4>1 DEF Held
        <5>2. \A m \in Held(v) : m \in Msgs /\ m # msg[w]
          BY <2>6, <5>1, HeldInMsgs DEF Exclusive
        <5> QED
          BY <4>1, <5>2 DEF MarkForRetry, TypeOK
      <4>2. CASE ~MarkForRetry(w)
        BY <1>5, <4>2 DEF RunStep, Claim, TakeNext, RecordFirst, RecordDuplicate, Deliver,
           DeliverFails, MarkPublished, MarkPublishedFails, MarkDeadLetter, NextMessage,
           Abort, rowVars
      <4> QED
        BY <4>1, <4>2
    <3> QED
      BY <2>1, <3>1, <3>2, AttemptPaidKept DEF Paid
  <2>7. AttemptPaid(w)'
    <3> AttemptPaid(w)
      BY DEF Paid
    <3>1. CASE Claim(w)
      <4>1. PICK B \in SUBSET Msgs :
              batch' = [batch EXCEPT ![w] = {[id |-> m, attempt |-> attempts[m]] : m \in B}]
        BY <3>1 DEF Claim, Eligible
      <4>2. /\ batch'[w] = {[id |-> m, attempt |-> attempts[m]] : m \in B}
            /\ pc'[w] = "next" /\ msg'[w] = NoMsg /\ attempts' = attempts
        BY <3>1, <4>1 DEF Claim, TypeOK, RunOK, RunOf
      <4> QED
        BY <4>2 DEF AttemptPaid
    <3>2. CASE TakeNext(w)
      <4>1. PICK c \in batch[w] :
              /\ msg' = [msg EXCEPT ![w] = c.id]
              /\ att' = [att EXCEPT ![w] = c.attempt]
              /\ batch' = [batch EXCEPT ![w] = @ \ {c}]
              /\ pc' = [pc EXCEPT ![w] = IF c.id \in Poison THEN "failed" ELSE "consume"]
        BY <3>2 DEF TakeNext
      <4>2. attempts' = attempts
        BY <3>2 DEF TakeNext, rowVars
      <4>3. /\ batch'[w] \subseteq batch[w] /\ msg'[w] = c.id /\ att'[w] = c.attempt
            /\ pc'[w] = IF c.id \in Poison THEN "failed" ELSE "consume"
        BY <4>1 DEF TypeOK
      <4> QED
        BY <4>2, <4>3 DEF AttemptPaid
    <3>3. CASE RecordFirst(w)
      <4>1. /\ UNCHANGED <<batch, msg, att, attempts>> /\ pc'[w] = "deliver"
            /\ dedup' = dedup \cup {<<next[w], msg[w]>>}
            /\ next[w] \in Consumers /\ msg[w] \in Msgs
            /\ <<next[w], msg[w]>> \notin dedup
        BY <3>3 DEF RecordFirst, AtConsumer, FirstTime, Pair, rowVars, TypeOK, RunOK, RunOf
      <4>2. ASSUME NEW m \in Msgs \ Poison, msg[w] = m
            PROVE  att[w] < Cardinality(Attempted(m)')
        <5>1. Attempted(m)' = Attempted(m) \cup {next[w]} /\ next[w] \notin Attempted(m)
          BY <4>1, <4>2 DEF Attempted
        <5>2. IsFiniteSet(Attempted(m)) /\ Cardinality(Attempted(m)) \in Nat
          BY AttemptedBound
        <5>3. Cardinality(Attempted(m)') = Cardinality(Attempted(m)) + 1
          BY <5>1, <5>2, FS_AddElement
        <5>4. att[w] = attempts[m] /\ att[w] \in Nat
          BY <4>1, <4>2 DEF AttemptPaid, TypeOK
        <5>5. attempts[m] <= Cardinality(Attempted(m))
          BY DEF Paid, FailuresPaid
        <5> QED
          BY <5>2, <5>3, <5>4, <5>5
      <4> QED
        BY <4>1, <4>2 DEF AttemptPaid
    <3>4. CASE DeliverFails(w)
      <4>1. UNCHANGED <<batch, msg, att, attempts, dedup>> /\ pc[w] = "deliver"
        BY <3>4 DEF DeliverFails, rowVars
      <4> QED
        BY <4>1 DEF AttemptPaid, Attempted
    <3>5. CASE RecordDuplicate(w) \/ Deliver(w)
      <4>1. UNCHANGED <<batch, msg, att, attempts>> /\ pc'[w] = "consume"
        BY <3>5 DEF RecordDuplicate, AtConsumer, Deliver, rowVars, TypeOK
      <4> QED
        BY <4>1 DEF AttemptPaid
    <3>6. CASE MarkPublished(w) \/ MarkForRetry(w) \/ MarkDeadLetter(w)
      <4>1. /\ UNCHANGED <<batch, att>> /\ msg'[w] = NoMsg
            /\ pc'[w] \in {"idle", "next"}
        BY <3>6 DEF MarkPublished, MarkForRetry, MarkDeadLetter, NextMessage, TypeOK
      <4>2. \A n \in Msgs \ {msg[w]} : attempts'[n] = attempts[n]
        BY <3>6 DEF MarkPublished, MarkForRetry, MarkDeadLetter, TypeOK
      <4>3. \A c \in batch[w] : c.id \in Msgs \ {msg[w]}
        BY DEF RunOK, RunOf, TypeOK
      <4> QED
        BY <4>1, <4>2, <4>3 DEF AttemptPaid
    <3>7. CASE Abort(w)
      <4>1. batch'[w] = {} /\ msg'[w] = NoMsg /\ pc'[w] = "idle"
        BY <3>7 DEF Abort, TypeOK
      <4> QED
        BY <4>1 DEF AttemptPaid
    <3> QED
      BY <1>5, <2>2, <3>1, <3>2, <3>3, <3>4, <3>5, <3>6, <3>7 DEF RunStep
  <2> QED
    BY <2>4, <2>5, <2>6, <2>7 DEF Paid, FailuresPaid, ReadableAlive
<1>6. CASE UNCHANGED vars
  <2>1. UNCHANGED <<status, dedup, attempts, runVars>>
    BY <1>6 DEF vars, rowVars
  <2> QED
    BY <1>1, <2>1 DEF Paid, ReadableAlive
<1> QED
  BY <1>2, <1>3, <1>4, <1>5, <1>6 DEF Next

(* With fewer consumers than attempts a row that can be read is never dead- *)
(* lettered, however often its consumers throw and its workers die.         *)
THEOREM ReadableNeverDies == Spec => []OnlyPoisonDies
<1> DEFINE Premise == Orderly /\ ~StoreFaults /\ NumConsumers < MaxAttempts
<1>1. CASE Premise
  <2>1. TypeInv /\ Exclusive /\ [Next]_vars => Exclusive'
    BY <1>1, ExclusiveStep DEF TypeInv
  <2>2. TypeInv /\ Exclusive /\ Paid /\ [Next]_vars => Paid'
    BY <1>1, PaidStep DEF TypeInv
  <2>3. Paid => OnlyPoisonDies
    BY DEF Paid, ReadableAlive, OnlyPoisonDies
  <2> QED
    BY InitExclusive, InitPaid, TypeInvHolds, <2>1, <2>2, <2>3, PTL DEF Spec
<1>2. CASE ~Premise
  <2>1. OnlyPoisonDies
    BY <1>2 DEF OnlyPoisonDies
  <2> QED
    BY <2>1, PTL
<1> QED
  BY <1>1, <1>2
=============================================================================
