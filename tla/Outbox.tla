------------------------------- MODULE Outbox -------------------------------
(***************************************************************************)
(* The transactional outbox of packages/os-events and its Postgres store.  *)
(*                                                                         *)
(* Commands append a row to os_outbox_messages in their own transaction.   *)
(* Workers (one OutboxWorkerHost in each os-api process) claim a batch of  *)
(* pending rows under a lease, and for each row go through the projection  *)
(* consumers in order: record (consumer, event) in the deduplication       *)
(* table, in a transaction of its own, and only then call deliver().  The  *)
(* row is then published, retried later or dead-lettered.  Administrators  *)
(* may requeue a dead letter.                                              *)
(*                                                                         *)
(* Time is abstracted to due[m]: next_attempt_at is NULL or has passed.    *)
(***************************************************************************)
EXTENDS Naturals, FiniteSets

CONSTANTS
  NumMsgs,        \* rows, numbered in the order of created_at
  NumConsumers,   \* consumers of the ProjectionRunner, in array order
  Workers,        \* os-api processes polling the outbox
  Admins,         \* concurrent calls of retryDeadLetterDelivery
  Poison,         \* rows whose envelope this release cannot parse
  MaxAttempts,    \* config.maxAttempts
  BatchSize,      \* config.batchSize
  SlowWorkers,    \* TRUE: a run may outlast its 120 s lease
  StoreFaults,    \* TRUE: a statement of the store may fail
  MaxCrashes,     \* bound: process crashes and aborted runs
  MaxRecoveries   \* bound: no recovery of a row begins after this many

Msgs      == 1 .. NumMsgs
Consumers == 1 .. NumConsumers
NoMsg     == 0

ASSUME ConstantsAssumption ==
  /\ NumMsgs \in Nat /\ NumConsumers \in Nat
  /\ MaxAttempts \in Nat \ {0} /\ BatchSize \in Nat \ {0}
  /\ MaxCrashes \in Nat /\ MaxRecoveries \in Nat
  /\ Poison \subseteq Msgs
  /\ SlowWorkers \in BOOLEAN /\ StoreFaults \in BOOLEAN

VARIABLES
  \* os_outbox_messages and os_outbox_consumer_dedup
  status,       \* [Msgs -> Status]
  attempts,     \* attempt_count
  due,          \* next_attempt_at is NULL or has passed
  dedup,        \* recorded <<consumer, message>> pairs
  \* each worker's run (runOnce)
  pc,           \* where the run is
  batch,        \* claimed rows still to process, with the attempts claimed
  msg, att,     \* the row in hand, and its attemptCount as claimed
  next,         \* index of the consumer the inner loop is at
  anyDelivered, \* local variable anyDelivered
  duplicates,   \* result.duplicates > 0 (counted over the whole run)
  \* recovery transactions
  recovering,   \* the dead letter an admin's transaction has read, or NoMsg
  \* history and bounds
  starts,       \* deliver() calls made, by consumer and message
  handled,      \* pairs whose deliver() has returned
  recoveries,   \* recoveries committed, by message
  crashes

rowVars  == <<status, attempts, due>>
runVars  == <<pc, batch, msg, att, next, anyDelivered, duplicates>>
histVars == <<starts, handled>>
recVars  == <<recovering, recoveries>>
vars     == <<rowVars, dedup, runVars, recVars, histVars, crashes>>

Status == {"none", "pending", "published", "dead_letter"}
Claims == [id : Msgs, attempt : 0 .. MaxAttempts - 1]

TypeOK ==
  /\ status \in [Msgs -> Status]
  /\ attempts \in [Msgs -> 0 .. MaxAttempts - 1]
  /\ due \in [Msgs -> BOOLEAN]
  /\ dedup \subseteq Consumers \X Msgs
  /\ pc \in [Workers -> {"idle", "next", "consume", "deliver", "failed"}]
  /\ batch \in [Workers -> SUBSET Claims]
  /\ msg \in [Workers -> Msgs \cup {NoMsg}]
  /\ att \in [Workers -> 0 .. MaxAttempts - 1]
  /\ next \in [Workers -> 1 .. NumConsumers + 1]
  /\ anyDelivered \in [Workers -> BOOLEAN]
  /\ duplicates \in [Workers -> BOOLEAN]
  /\ recovering \in [Admins -> Msgs \cup {NoMsg}]
  /\ starts \in [Consumers \X Msgs -> Nat]
  /\ handled \subseteq Consumers \X Msgs
  /\ recoveries \in [Msgs -> Nat]
  /\ crashes \in 0 .. MaxCrashes

Init ==
  /\ status = [m \in Msgs |-> "none"]
  /\ attempts = [m \in Msgs |-> 0]
  /\ due = [m \in Msgs |-> TRUE]
  /\ dedup = {}
  /\ pc = [w \in Workers |-> "idle"]
  /\ batch = [w \in Workers |-> {}]
  /\ msg = [w \in Workers |-> NoMsg]
  /\ att = [w \in Workers |-> 0]
  /\ next = [w \in Workers |-> 1]
  /\ anyDelivered = [w \in Workers |-> FALSE]
  /\ duplicates = [w \in Workers |-> FALSE]
  /\ recovering = [a \in Admins |-> NoMsg]
  /\ starts = [cm \in Consumers \X Msgs |-> 0]
  /\ handled = {}
  /\ recoveries = [m \in Msgs |-> 0]
  /\ crashes = 0

\* The rows worker w has claimed and not settled.
Held(w) == {c.id : c \in batch[w]} \cup ({msg[w]} \ {NoMsg})

-----------------------------------------------------------------------------
(* A command's transaction commits its event and outbox row.               *)
Append(m) ==
  /\ status[m] = "none"
  /\ status' = [status EXCEPT ![m] = "pending"]
  /\ UNCHANGED <<attempts, due, dedup, runVars, recVars, histVars, crashes>>

(* The lease or the retry delay of a pending row runs out.                 *)
NextAttemptDue(m) ==
  /\ status[m] = "pending"
  /\ ~due[m]
  /\ SlowWorkers \/ \A w \in Workers : m \notin Held(w)
  /\ due' = [due EXCEPT ![m] = TRUE]
  /\ UNCHANGED <<status, attempts, dedup, runVars, recVars, histVars, crashes>>

EligibleOnce == {m \in Msgs : status[m] = "pending" /\ due[m] /\ attempts[m] = 0}
EligibleLeased == {m \in Msgs : status[m] = "pending"}
Eligible == {m \in Msgs : status[m] = "pending" /\ due[m]}

\* The oldest BatchSize eligible rows; the order of the batch is not given.
OldestFirst(B) ==
  /\ Cardinality(B) = IF Cardinality(Eligible) < BatchSize
                      THEN Cardinality(Eligible) ELSE BatchSize
  /\ \A m \in B, n \in Eligible \ B : m < n

(* claimPendingBatch: one UPDATE ... FOR UPDATE SKIP LOCKED.               *)
Claim(w) ==
  /\ pc[w] = "idle"
  /\ \E B \in SUBSET Eligible :
       /\ B # {}
       /\ OldestFirst(B)
       /\ due' = [m \in Msgs |-> IF m \in B THEN FALSE ELSE due[m]]
       /\ batch' = [batch EXCEPT ![w] =
                      {[id |-> m, attempt |-> attempts[m]] : m \in B}]
  /\ pc' = [pc EXCEPT ![w] = "next"]
  /\ duplicates' = [duplicates EXCEPT ![w] = FALSE]
  /\ UNCHANGED <<status, attempts, dedup, msg, att, next, anyDelivered,
                 recVars, histVars, crashes>>

(* The head of the message loop: parse the envelope, or throw.             *)
TakeNext(w) ==
  /\ pc[w] = "next"
  /\ \E c \in batch[w] :
       /\ msg' = [msg EXCEPT ![w] = c.id]
       /\ att' = [att EXCEPT ![w] = c.attempt]
       /\ batch' = [batch EXCEPT ![w] = @ \ {c}]
       /\ pc' = [pc EXCEPT ![w] = IF c.id \in Poison THEN "failed" ELSE "consume"]
  /\ next' = [next EXCEPT ![w] = 1]
  /\ anyDelivered' = [anyDelivered EXCEPT ![w] = FALSE]
  /\ UNCHANGED <<rowVars, dedup, duplicates, recVars, histVars, crashes>>

\* The inner loop of runOnce is at a consumer.
AtConsumer(w) == pc[w] = "consume" /\ next[w] \in Consumers
Pair(w)       == <<next[w], msg[w]>>

\* The primary key of the deduplication table admits the row.
FirstTimeUnkeyed(w) == TRUE
FirstTime(w) == Pair(w) \notin dedup

(* tryRecordConsumerDelivery inserts the row: this worker will deliver.    *)
RecordFirst(w) ==
  /\ AtConsumer(w)
  /\ FirstTime(w)
  /\ dedup' = dedup \cup {Pair(w)}
  /\ starts' = [starts EXCEPT ![Pair(w)] = @ + 1]
  /\ pc' = [pc EXCEPT ![w] = "deliver"]
  /\ UNCHANGED <<rowVars, batch, msg, att, next, anyDelivered, duplicates,
                 recVars, handled, crashes>>

(* It returns false: the row exists, or (catch) the insert failed at all.  *)
RecordDuplicate(w) ==
  /\ AtConsumer(w)
  /\ ~FirstTime(w) \/ StoreFaults
  /\ duplicates' = [duplicates EXCEPT ![w] = TRUE]
  /\ next' = [next EXCEPT ![w] = @ + 1]
  /\ UNCHANGED <<rowVars, dedup, pc, batch, msg, att, anyDelivered, recVars,
                 histVars, crashes>>

(* consumer.deliver returns.                                               *)
Deliver(w) ==
  /\ pc[w] = "deliver"
  /\ handled' = handled \cup {Pair(w)}
  /\ anyDelivered' = [anyDelivered EXCEPT ![w] = TRUE]
  /\ next' = [next EXCEPT ![w] = @ + 1]
  /\ pc' = [pc EXCEPT ![w] = "consume"]
  /\ UNCHANGED <<rowVars, dedup, batch, msg, att, duplicates, recVars, starts,
                 crashes>>

(* consumer.deliver throws.                                                *)
DeliverFails(w) ==
  /\ pc[w] = "deliver"
  /\ pc' = [pc EXCEPT ![w] = "failed"]
  /\ UNCHANGED <<rowVars, dedup, batch, msg, att, next, anyDelivered,
                 duplicates, recVars, histVars, crashes>>

\* The row in hand is settled: on to the rest of the batch, or the run ends.
NextMessage(w) ==
  /\ pc' = [pc EXCEPT ![w] = IF batch[w] = {} THEN "idle" ELSE "next"]
  /\ msg' = [msg EXCEPT ![w] = NoMsg]
  /\ UNCHANGED <<dedup, batch, att, next, anyDelivered, duplicates, recVars,
                 histVars, crashes>>

\* Both publishing branches after the consumer loop.
LoopLeftEarly(w) == pc[w] = "consume" /\ (anyDelivered[w] \/ duplicates[w])
LoopDone(w) ==
  /\ pc[w] = "consume"
  /\ next[w] \notin Consumers
  /\ anyDelivered[w] \/ NumConsumers = 0 \/ duplicates[w]

(* markPublished: by id, whatever the row's status has become.             *)
MarkPublished(w) ==
  /\ LoopDone(w)
  /\ status' = [status EXCEPT ![msg[w]] = "published"]
  /\ NextMessage(w)
  /\ UNCHANGED <<attempts, due>>

(* markPublished throws: the message takes the path of a failed delivery.  *)
MarkPublishedFails(w) ==
  /\ StoreFaults
  /\ LoopDone(w)
  /\ pc' = [pc EXCEPT ![w] = "failed"]
  /\ UNCHANGED <<rowVars, dedup, batch, msg, att, next, anyDelivered,
                 duplicates, recVars, histVars, crashes>>

\* nextAttempt >= maxAttempts
ExhaustedLate(w)  == att[w] + 1 > MaxAttempts
ExhaustedEarly(w) == att[w] + 2 >= MaxAttempts
Exhausted(w)      == att[w] + 1 >= MaxAttempts

(* markForRetry, by id: attempts as claimed plus one, and a delay.         *)
MarkForRetry(w) ==
  /\ pc[w] = "failed"
  /\ ~Exhausted(w)
  /\ status' = [status EXCEPT ![msg[w]] = "pending"]
  /\ attempts' = [attempts EXCEPT ![msg[w]] = att[w] + 1]
  /\ due' = [due EXCEPT ![msg[w]] = FALSE]
  /\ NextMessage(w)

(* markDeadLetter, by id: next_attempt_at NULL, attempt_count left alone.  *)
MarkDeadLetter(w) ==
  /\ pc[w] = "failed"
  /\ Exhausted(w)
  /\ status' = [status EXCEPT ![msg[w]] = "dead_letter"]
  /\ due' = [due EXCEPT ![msg[w]] = TRUE]
  /\ NextMessage(w)
  /\ UNCHANGED attempts

(* The process dies, or a statement of the catch block throws and runOnce  *)
(* rejects: what was claimed stays leased until the lease runs out.        *)
Abort(w) ==
  /\ pc[w] # "idle"
  /\ crashes < MaxCrashes
  /\ crashes' = crashes + 1
  /\ pc' = [pc EXCEPT ![w] = "idle"]
  /\ batch' = [batch EXCEPT ![w] = {}]
  /\ msg' = [msg EXCEPT ![w] = NoMsg]
  /\ UNCHANGED <<rowVars, dedup, att, next, anyDelivered, duplicates, recVars,
                 histVars>>

\* What findFirst asks of the row to recover.
RecoverableAny(m) == status[m] # "none"
Recoverable(m)    == status[m] = "dead_letter"

(* recoverDeadLetterDelivery, its unlocked read inside the transaction.    *)
RecoverRead(a, m) ==
  /\ recovering[a] = NoMsg
  /\ Recoverable(m)
  /\ recoveries[m] < MaxRecoveries
  /\ recovering' = [recovering EXCEPT ![a] = m]
  /\ UNCHANGED <<rowVars, dedup, runVars, recoveries, histVars, crashes>>

(* ... and its writes: forget who was delivered, back to pending, by id.   *)
RecoverCommit(a) ==
  LET m == recovering[a] IN
  /\ m # NoMsg
  /\ dedup' = {p \in dedup : p[2] # m}
  /\ status' = [status EXCEPT ![m] = "pending"]
  /\ attempts' = [attempts EXCEPT ![m] = 0]
  /\ due' = [due EXCEPT ![m] = TRUE]
  /\ recovering' = [recovering EXCEPT ![a] = NoMsg]
  /\ recoveries' = [recoveries EXCEPT ![m] = @ + 1]
  /\ UNCHANGED <<runVars, histVars, crashes>>

(* The transaction rolls back: a statement failed, or a concurrent request *)
(* with the same idempotency key committed first.                          *)
RecoverRollback(a) ==
  /\ recovering[a] # NoMsg
  /\ StoreFaults
  /\ recovering' = [recovering EXCEPT ![a] = NoMsg]
  /\ UNCHANGED <<rowVars, dedup, runVars, recoveries, histVars, crashes>>

-----------------------------------------------------------------------------
RunStep(w) ==
  \/ Claim(w)
  \/ TakeNext(w)
  \/ RecordFirst(w)
  \/ RecordDuplicate(w)
  \/ Deliver(w)
  \/ DeliverFails(w)
  \/ MarkPublished(w)
  \/ MarkPublishedFails(w)
  \/ MarkForRetry(w)
  \/ MarkDeadLetter(w)

Next ==
  \/ \E m \in Msgs : Append(m) \/ NextAttemptDue(m)
  \/ \E w \in Workers : RunStep(w) \/ Abort(w)
  \/ \E a \in Admins : \/ RecoverCommit(a)
                         \/ RecoverRollback(a)
                         \/ \E m \in Msgs : RecoverRead(a, m)

(* setInterval keeps calling runOnce and every awaited call returns or     *)
(* throws; clocks advance; a recovery transaction ends.  Nothing obliges a *)
(* command to append, an administrator to act or a process to crash.       *)
Fairness ==
  /\ \A w \in Workers : WF_vars(RunStep(w))
  /\ \A m \in Msgs : WF_vars(NextAttemptDue(m))
  /\ \A a \in Admins : WF_vars(RecoverCommit(a))

Spec     == Init /\ [][Next]_vars
FairSpec == Spec /\ Fairness

-----------------------------------------------------------------------------
(* Properties                                                              *)

(* Each consumer is handed each event at most once, and once more for each *)
(* recovery of its row: whatever runs overlap, crash or retry, the   *)
(* insert into os_outbox_consumer_dedup decides who delivers.              *)
AtMostOncePerRecovery ==
  \A cm \in Consumers \X Msgs : starts[cm] <= 1 + recoveries[cm[2]]

\* Runs end within their leases and recoveries are not concurrent.
Orderly == ~SlowWorkers /\ \A a, b \in Admins : a = b

(* As long as runs end within their lease, no row is in the hands of two   *)
(* workers, nor of a worker and of a recovery, and a row in somebody's     *)
(* hands is pending: the marks by id, which check nothing, are safe.       *)
ExclusiveClaim ==
  Orderly =>
    /\ \A v, w \in Workers : v # w => Held(v) \cap Held(w) = {}
    /\ \A w \in Workers : \A m \in Held(w) : status[m] = "pending" /\ ~due[m]
    /\ \A a \in Admins : recovering[a] # NoMsg
                            => status[recovering[a]] = "dead_letter"

(* Then a published row has a deduplication row of every consumer: no      *)
(* consumer is passed over before publication (if no insert fails).        *)
PublishedMeansRecorded ==
  Orderly /\ ~StoreFaults =>
    \A c \in Consumers, m \in Msgs : status[m] = "published" => <<c, m>> \in dedup

(* With fewer consumers than attempts (4 and 5 in os-store.module.ts) a    *)
(* consumer that keeps failing never dead-letters a row, since each failed *)
(* attempt uses up a deduplication row: only an unreadable envelope does.  *)
OnlyPoisonDies ==
  Orderly /\ ~StoreFaults /\ NumConsumers < MaxAttempts =>
    \A m \in Msgs : status[m] = "dead_letter" => m \in Poison

(* Outbox rows follow the lifecycle of OutboxLifecycle.                    *)
Lifecycle == INSTANCE OutboxLifecycle
LifecycleSpec == Lifecycle!Spec

(* Every appended row is settled in the end: a crashed worker's lease runs *)
(* out, retries are bounded, and the poll claims what is due.              *)
EventuallySettled ==
  \A m \in Msgs : status[m] = "pending" ~> status[m] \in {"published", "dead_letter"}

(* The comment of outbox-worker.ts where only duplicates were found: "All  *)
(* consumers already processed".  A published row was processed by all.    *)
PublishedMeansHandled ==
  \A c \in Consumers, m \in Msgs : status[m] = "published" => <<c, m>> \in handled
=============================================================================
