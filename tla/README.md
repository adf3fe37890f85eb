# ISALWA OS in TLA+

Models, model-checking runs and machine-checked proofs for the operating core of
this repository: the command services under `src/packages/os-*`, the Postgres
stores they run on and the transactional outbox that carries their events to the
read models.  Paths below are relative to the repository.

1. [The system](#1-the-system)
2. [Inventory of its components](#2-inventory)
3. [Modules](#3-modules)
4. [Runs and bounds](#4-runs-and-bounds)
5. [Fairness](#5-fairness)
6. [Proofs](#6-proofs)
7. [Disagreements found](#7-disagreements-found)
8. [Not modelled](#8-not-modelled)
9. [Plan](#9-plan)

## 1. The system

`apps/os-api` is a NestJS process.  A client sends a *command* (`commands.controller.ts`)
with an idempotency key; the controller hands it to one of six *command services*
(work, workforce, party, location, commercial, import), each a singleton of the
process.  A service looks the key up, opens one Postgres transaction (READ COMMITTED,
Prisma's default), checks authority and the state it reads, writes its rows, and inserts
the business event, the audit entry and the **outbox row** in the same transaction
(`execute`, `emit`).  After the commit, nobody waits for the read models.

Each process also runs an **outbox worker** (`OutboxWorkerHost`): it polls
`os_outbox_messages`, claims a batch under a lease of 120 s and hands each event to four
**projection consumers**, which read the canonical rows and write the read models the
query services answer from.  An **attention clock** rebuilds overdue attention from the wall
clock.  Administrators may put a dead letter back (`OutboxRecoveryService`).

What makes it hard:

* requests interleave at every `await` inside one process, and transactions of several
  processes interleave at every statement;
* checks are made on rows read one statement earlier, and only some updates carry the
  version they read;
* clients retry, workers crash holding leases, leases run out under slow workers;
* a consumer's deduplication row is committed before the consumer does its work;
* document numbers are computed by counting.

## 2. Inventory

State, operations, neighbours, and what makes the component correct.  *Modelled* names the module.

| component (main files) | state | operations | talks to | correct when | modelled |
|---|---|---|---|---|---|
| **Outbox**: `os-events/src/outbox-worker.ts`, `outbox-worker-host.ts`, `outbox-recovery-service.ts`, `append.ts`; `os-database/src/prisma-outbox-store.ts` | `os_outbox_messages` (status, attempt_count, next_attempt_at), `os_outbox_consumer_dedup` | append, claim, record delivery, publish, retry, dead-letter, recover | command services append; consumers are called | at most one delivery per consumer, event and recovery; claims exclusive; nothing published unseen; every row settled | `Outbox` |
| **Command execution**: `execute`/`emit` of each service, `findIdempotency`/`saveIdempotency` | `os_idempotency_keys`, `os_business_events`, the field `activeIdempotencyKey` | look up, begin, emit, save key, commit, fail | every service, Postgres unique indexes | one effect per key; replays answer with the committed result; everyone is answered | `CommandExecution` |
| **Quotes and orders**: `os-commercial/src/commercial-command-service.ts`, `money.ts`, `os-database/src/prisma-commercial-store.ts` | `os_quotes`, `os_quote_lines`, `os_orders` | ten commands, CreateQuote … CancelOrder | command execution, parties, members | money agrees with lines; one order per accepted quote; numbers never block | `Money`, `QuoteOrder` |
| Opportunities, account owners (same service) | `os_opportunities`, `os_commercial_accounts` | create, update, stage, close, assign; reassign account | quotes | single-row updates under a version | – |
| **Work and approvals**: `os-work/src/work-command-service.ts`, `os-database/src/prisma-work-store.ts` | `os_work_items`, ownership history, `os_approval_requests` | create, reassign, complete, cancel, request, approve, reject | workforce (owner must be active) | an approval is decided once; the ownership history is the true story; nothing happens to closed work | `WorkAndWorkforce` |
| **Workforce**: `os-workforce/src/*`, `prisma-workforce-store.ts` | members (access and employment status), auth identities, roles, managers, delegations | fifteen commands, InviteMember … RetryAuthProviderSync | the auth provider after the commit; work | whoever has access is employed; a revocation is carried out or leaves a trace; a terminated member has no open work | `WorkAndWorkforce` (not roles, managers, departments, delegations) |
| **Projections**: `os-query/src/work/work-projection-consumer.ts`, `prisma-projection-store.ts`; the party and commercial consumers | read models, checkpoints, freshness | deliver per event type, replay | outbox, canonical rows | read models converge to the canonical rows, whatever the order, unless the newest event of a row was lost | `Projection` (work consumer) |
| **Attention**: `attention-clock.ts`, `attention-derivation.ts` | attention read models | tick, rebuild | projections | overdue work is noticed by a later tick, closed work disappears, rebuilds do not overwrite each other | `Projection` |
| Query services | none | reads | read models | scope and visibility filters | – |
| **Parties, merge, locations**: `os-party/src/*`, `prisma-party-store.ts` | parties, roles, contacts, fiscal identities, leads, merge requests, locations | thirteen party and three location commands | imports, commercial | a merged party stays merged and an approved request was carried out, as long as the party's version only grows | `PartyCommands` |
| **Client import**: `os-import/src/*` | batches and rows | dry run, validate, execute, reverse | party and location services, by keyed commands | a repeated execution creates no client twice; reversal undoes what was recorded | `ClientImport` |
| Contracts with logic: `os-contracts/src/{commitments,notifications,reported-operational-fact,conversation-evidence}.ts` | none | derivations | query services, web | pure functions | – |
| Authorization: `os-domain/src/authorization.ts`, `os-contracts/src/scopes.ts` | none | predicates | every service | pure functions | – |
| os-api wiring | sessions, configuration | HTTP | services | – | – |
| os-web: `apps/os-web/lib/*` | UI state, walkthrough | derivations | os-api | pure functions, one small state machine | – |
| **Architect autosave**: `apps/architect/lib/persistence` | interviews in Supabase, a pending buffer in the browser | save, flush, load, clear | Supabase, browser events | what was saved last is pending or was stored; a flush that returned was carried out or failed visibly | `Autosave` |
| Architect workspaces, document pipeline, nightly review route | whole workspaces in Supabase | read, analyse, write back | Supabase | – | – |
| Architect reasoning, simulation, reports | – | scoring, text | – | – | – |
| Legacy API and packages, user interface, generated client, seeds, docs | – | – | – | – | – |

`PROJECT.json` lists these components with their status, and, under `hazards`, each place where the
code is exposed to something a test would hardly reach, with the property that covers it or the reason
why none does.

## 3. Modules

| module | what it is |
|---|---|
| `OutboxLifecycle` | abstract: one row, pending until settled once; only a recovery reopens a dead letter |
| `Outbox` | the worker runs, the store's statements, crashes, leases, recovery; implements `OutboxLifecycle` |
| `OutboxProofs` | theorems of `Outbox` |
| `IdempotentCommands` | abstract: of the requests with one key one takes effect, with all its events at once; the others get its result or an error |
| `CommandExecution` | `execute` and `emit` as the services share them, with the unique indexes and the service field; implements `IdempotentCommands` |
| `MCCommandExecution` | initial states for TLC: one of those that differ by the names of requests and keys |
| `CommandExecutionProofs` | theorems of `CommandExecution` |
| `Money` | `money.ts`: line totals, quote totals and what is refused |
| `QuoteLifecycle` | abstract: a quote as one document, turned into at most one order |
| `QuoteOrder` | the ten quote and order commands, statement by statement; implements `QuoteLifecycle` |
| `MCQuoteOrder` | small payloads, a prepared initial state and symmetry for TLC |
| `QuoteOrderProofs` | theorems of `QuoteOrder` |
| `WorkLifecycle` | abstract: a work item is opened, handed on, closed once, and its trail tells so |
| `WorkAndWorkforce` | members, identities, provider accounts, work items, approvals: fourteen commands, statement by statement, and the effects after the commit; implements `WorkLifecycle` |
| `MCWorkAndWorkforce` | symmetry for TLC |
| `WorkAndWorkforceProofs` | theorems of `WorkAndWorkforce` |
| `Projection` | the work consumer of the outbox, the attention rebuild and the attention clock |
| `ProjectionProofs` | theorems of `Projection` |
| `ProjectionConvergence` | the theorem that its read models come to show the canonical rows |
| `PartyCommands` | parties, contacts, locations, accounts, merge requests, statement by statement, with idempotency keys; no specification of its own |
| `ClientImport` | runs that execute or reverse a batch by keyed commands of `PartyCommands`, beside users' commands |
| `MCClientImport` | the initial scenarios and the symmetry for TLC |
| `ClientImportProofs` | theorems of `ClientImport` and of the commands of `PartyCommands` |
| `Autosave` | save, flush and clear of the interview autosave, requests reordered, lost or refused |
| `AutosaveProofs` | theorems of `Autosave` |

Definitions whose comment starts with "Plausible bug" are faulty variants of the definition
next to them.  No specification uses them: with the variant in place of the definition, TLC
finds the property violated that `PROJECT.json` pairs it with, so each property is known to
tell this code from a broken one.

### Outbox

`status`, `attempts`, `due` are the columns of a row; `due` stands for "`next_attempt_at` is NULL
or has passed", so a lease and a retry delay are `due = FALSE` until `NextAttemptDue`.  A worker's run
(`runOnce`) keeps `pc`, `batch`, `msg`, `att`, `next`, `anyDelivered`, `duplicates`: its local variables.  One action per
awaited store call or callback:

| action | code |
|---|---|
| `Claim` | `claimPendingBatch`, one `UPDATE … FOR UPDATE SKIP LOCKED` |
| `TakeNext` | head of the message loop; an unreadable envelope throws |
| `RecordFirst`, `RecordDuplicate` | `tryRecordConsumerDelivery` (its own statement, committed at once) |
| `Deliver`, `DeliverFails` | `consumer.deliver` returns or throws |
| `MarkPublished`, `MarkForRetry`, `MarkDeadLetter` | the three marks, by id only, with the attempts *as claimed* |
| `Abort` | the process dies or the catch block throws: claimed rows stay leased |
| `RecoverRead`, `RecoverCommit`, `RecoverRollback` | `recoverDeadLetterDelivery`: an unlocked read, then the writes |

`SlowWorkers` lets a lease run out under a run in progress; `StoreFaults` lets store statements fail
(and `tryRecordConsumerDelivery` returns false on *any* error, so a failure looks like a duplicate).

### CommandExecution

A request goes `new → looked → open → saved → committed`, or is replayed or fails.  The lookup is *before* the transaction and compares the
key only; the transaction overwrites the singleton's `activeIdempotencyKey`.  A handler emits `wants[r]` events: one mostly, none when there is nothing to do
(`ReassignCommercialAccountOwner` to the same owner, `GrantAdditionalRole` of a role the member has), two in `ResolveLead`, and in `CreateParty` and `UpdateFiscalIdentity` when the NIT is somebody else's too.
Each goes through `Build`, which stamps the event with whatever the field holds by then, and `Insert`, which comes later: a change of the field in between does not reach the event.  An insert under a unique index
waits while another open transaction holds the value (`EventHeld`, `RowHeld`) and fails once it is committed, or at once when it is the transaction's own (`EventTaken`, `RowTaken`).  Transactions that wait for each other
in a circle are `Deadlocked`, and Postgres aborts one of them (`DeadlockDetected`).  `Expire` is the passing of 24 h: the row stays, the lookup no longer sees it.
`IdempotentCommands` knows of all this only how many events each request records, which of them are recorded, and what each request was answered.

### QuoteOrder

A command of one of `Calls` runs through the statements of its handler: `line`, `quote`, `order`, `number`, `write`, `list`,
`count`, `insert`, `commit`.  Each statement reads what is committed when it runs, plus the transaction's own
line write (`Written`).  The last one is the update `where id and version`, which either
finds the version that was read or throws CONFLICT: `Commit` is that update, the event rows and the commit as one step, because from
the update on the row is locked and nothing in the transaction is read any more.  Uncommitted inserts hold their unique values (`LineLocked`,
`NumberHeld`).  `Fail` rolls back at any point: refused authority, a broken precondition, a conflict, a crash.  A precondition that
does not hold is a statement that is not enabled, so that `Fail` is what is left.  Ids are generated, so a line id is never reused
(`lineIds`) and two calls never create one quote.

Abstracted: amounts are small naturals (they are `bigint` in the code, which does not overflow); of a line only its total is kept;
valid-until dates, notes, currencies and party checks can only refuse.

### WorkAndWorkforce

Commands run like those of `QuoteOrder`: `pc[c]` names the next statement, the last one, `Commit`, is the first update together with everything after it.
`updateWorkItem` asks for the version read (`VersionHolds`), `decidePendingApprovalRequest` for a pending row
(`StillPending`); updates of members and identities ask for nothing, so they apply whatever the rows say by then.  `access` and
`employment` are the two status columns of a member; `identity[m]` is the identity inserted with membership `m`, looked up
by person and status (`FindFirst`).  After the commit of a suspension or a termination the call stays at `effect`: up to `Attempts` attempts, each of which
may fail with or without having been carried out, then `Audit`, or a `Crash` that forgets it.  `RetryAuthProviderSync` calls the provider inside its
transaction (`Sync`).  `SignIn` is the person signing in again at the provider.

### Projection

A delivery is `CheckApproval … WriteWork` and a rebuild of attention (`Lock`, `Snapshot`, `Replace` under `pg_advisory_xact_lock`), one action per
statement.  Commands go on between any two of them, and an event's `at` is the time its request *began*, up to `Lag` before its commit, because
`occurredAt` is taken there.  `waiting` are the events the outbox has still to deliver, in any order.  `Fault` lets a delivery or a tick throw or die anywhere, and then the event of the delivery is `lost`: `tryRecordConsumerDelivery` has committed its deduplication row before `deliver` began, so
the retry counts as a duplicate and the row is published (section 7).  An administrator cannot bring it back either, because with the four consumers and five attempts of the deployment a row whose
delivery threw is never a dead letter (`OnlyPoisonDies`).  `hydrateWorkReadModel` reads the row, its ownership history and the pending approval by three statements (`ReadWork`, `ReadHistory`, `FindPendingApproval`).  The clock compares the organizations' work past due with the overdue rows and rebuilds when they differ (`NeedsRefresh`).

### PartyCommands and ClientImport

`call[c]` is the record of the command in progress; `at` is its next statement.  `UpdateParty` names a version of the client's choice, up to `Foreseen` ahead of the row (the API
accepts any natural number); where the row has that version when it commits, it writes the version after the one it *read*.  `ahead` is an observer: the parties for which the two were not the same.  `Lookup` finds only keys that have not expired, the
insert of `Return` fails on any row with that key, expired or not.  A run of `ClientImport` issues one keyed command after another through the
same statements, records the ids of a row when all its commands returned, and finishes by writing the batch's status by id.  `Die` ends a run anywhere; the next one starts
at the first row and finds the keys of what was done.

### Autosave

`flushes[f]` is a call of `flush` that waits for a write or makes one; what follows an awaited promise runs in the step that settles it.  `wire` holds the requests on
their way, which `Store` carries out in any order; `FailWrite` is an error, or no answer, to a request that was refused, carried out, or still may be.

## 4. Runs and bounds

| run | instance | checks | shows |
|---|---|---|---|
| `outbox_lease` | 2 rows, one unreadable; 2 consumers, 2 workers, 1 administrator; 3 attempts; 1 crash, 1 recovery; leases outlast runs | `TypeOK`, `AtMostOncePerRecovery`, `ExclusiveClaim`, `PublishedMeansRecorded`, `OnlyPoisonDies`, `LifecycleSpec`, `EventuallySettled` | claims are exclusive without any check in the marks; no consumer is passed over; only unreadable rows die; every row is settled |
| `outbox_slow` | 1 row, 2 consumers, 2 workers, 2 administrators; runs may outlast leases, recoveries race, statements fail | `AtMostOncePerRecovery` | the deduplication key alone keeps delivery at most once, with everything else gone wrong |
| `outbox_processed` | 1 row, 1 consumer, 1 worker, no fault but a consumer that throws once | `PublishedMeansHandled` (violated) | section 7 |
| `command_retries` | 3 requests, 2 keys or none, 1 crash, any expiry; one service and handlers with 0, 1 or 2 events, or two services and one event each | `TypeOK`, `OncePerKey`, `ReplayIsTheCommitted`, `IdempotentSpec`, `EveryRequestAnswered` | two retries may both miss the lookup and still only one commits, and what a client sees of it, all the events included, is one step; nobody waits for an index for ever, though two handlers with two events can each hold the key the other waits for |
| `command_event_key` | 2 requests of one service, 0 to 2 events each | `EventCarriesItsKey` (violated) | section 7 |
| `quote_race` | 2 quotes, 2 transactions at a time, 5 commands, from an empty store | `TypeOK`, `TotalsAgree`, `NumbersDense`, `EditsExact`, `LifecycleSpec` | line edits, header discounts, submissions, cancellations and conversions of both quotes interleave statement by statement; an edit that commits moves the money by what it writes and by nothing else |
| `quote_convert` | 2 submitted quotes, 3 transactions at a time, 5 commands | `OrdersMatch`, `NumbersDense` | conversions of one quote race each other and cancellations; two inserts want one number |
| `work_race` | 3 memberships (2 seeded), 1 work item, 1 approval, 2 transactions at a time, 4 commands, 3 attempts per effect | `TypeOK`, `DecidedOnce`, `ActiveIsEmployed`, `RevocationAccounted`, `LifecycleSpec` | one owner story per item, one decision per approval, no access without employment, no revocation that leaves no trace |
| `work_terminate` | 2 members, 1 work item, 2 transactions, 3 commands | `TerminatedOwnsNothing` (violated) | section 7 |
| `projection_clock` | 1 work item, 1 approval, 1 worker and the clock, 3 events, 1 unit of time, 1 fault | `TypeOK`, `RowsConverge`, `AttentionCurrent`, `OverdueShown` | read models converge whatever the order of deliveries, and after a lost one with the next event of the row; rebuilds do not overwrite each other, overdue work is noticed |
| `party_import` | five scenarios: merge requests of one source, merge requests both ways, three runs of an import of 2 rows, runs mixed with users' commands; versions named up to 2 ahead | `TypeOK`, `ApprovedIsMerged`, `MergedIsFinal`, `OneEntityPerRow`, `ImportedComplete`, `ReversalDone` | merges survive racing commands; imports that overlap, die and outlive their keys make each client once |
| `autosave_overlap` | 3 saves, 2 flushes beside the timer's, any failure | `TypeOK`, `NothingDropped`, `FlushLands`, `EverySaveTried` | what was saved last is pending or was stored, and no save is untried, whatever overlaps and fails; not that it was stored *last* (section 7) |

Why these bounds are enough for the question asked:

* *Outbox.* Two workers, two rows and two consumers are the least for which a worker can hold a row
  while another publishes one, and for which one consumer of several fails; three attempts separate the first,
  the middle and the last.  One crash and one recovery suffice for a crash inside a recovered row's second life.
* *CommandExecution.* Three requests over two keys give two retries of one key and a stranger that overwrites the service's field; two events are what it takes to hold one key of the event index and wait for another.  `MCCommandExecution` leaves out
  initial states that differ from another by the names of requests and keys, which a symmetry set may not do in a run with liveness.
* *QuoteOrder.* Five commands reach create, edit, submit, convert, cancel of one quote, or races of two conversions
  with a cancellation when both quotes start as submitted (`Submitted` is the state three commands per quote lead to).  The payloads give one line worth 1, one worth 4 and
  one refused, and header discounts 0 and 2, so that a discount may exceed the lines.
* *WorkAndWorkforce.* The races are between two commands, and two more prepare them: a suspension and a termination before two activations, a creation and a request before two
  closings or decisions.  The third membership is one to invite or to rehire a founder with.
* *Projection.* Three events are a creation, a change while it is delivered, and one more that is committed out of the order it began in (`Lag = 1`); one unit of time makes the item overdue; one fault kills any
  delivery or tick between any two of its statements.
* *ClientImport.* Two rows, one with a location, and two runs at a time cover overlap and a death between any two commands; a version two ahead is reached by one update in between, after which the row falls back by one; three runs in sequence an import that died, was repeated and reversed.
  `Scenarios` splits one large instance into five so that each is explored completely.
* *Autosave.* Three saves and two more flushes allow two flushes that wait for one write and a save between the two; more of either repeats this.
* Commands, requests, rows and saves are bounded and used up at the end, which is the only reason a model stops; hence `CHECK_DEADLOCK FALSE`.

The proofs of section 6 have none of these bounds.

Symmetry is used over calls, quotes, members and runs where no definition tells them apart, and in no run that checks liveness.

## 5. Fairness

* `Outbox!FairSpec`: `WF(RunStep(w))` because `setInterval` keeps calling `runOnce` and every awaited call returns or throws;
  `WF(NextAttemptDue(m))` because clocks advance; `WF(RecoverCommit(a))` because a transaction ends.  Nothing obliges a command to
  append, an administrator to act or a process to crash, and no consumer is obliged to succeed.
* `CommandExecution!FairSpec`: `WF(Advance(r))`, as the event loop resumes every `await` and the database answers every statement it can, and
  `WF(∃ r : DeadlockDetected(r))`, as Postgres looks for deadlocks.  A statement that waits for another transaction is disabled meanwhile, and `HandlerFails` is no part of `Advance`: no request is answered by being made to fail.
  `EveryRequestAnswered` is so about the waits: whatever they form, a chain or a circle, every request gets through or is refused.
* `Projection!Spec`: `WF(ClockStep)` because the clock ticks on an interval and its statements return, `WF(WorkerStep(p))` because the outbox worker polls and every awaited call of a delivery
  returns or throws; an event is offered once, and one whose delivery died is not offered again.  Neither commands nor time nor the end of faults is assumed, only that faults are finitely many.
* `Autosave!Spec`: `WF(TimerFires)` because a browser fires a timer that is not cleared, and for each flush `WF(Succeed(f) \/ FailWrite(f))` because every request ends, well or badly.
* The quote, work and import specifications state no fairness: only safety is checked.

## 6. Proofs

All for every value of the constants that satisfies the module's `ASSUME`, with no bound on rows, requests, quotes or steps.

| theorem | statement | argument |
|---|---|---|
| `OutboxProofs!TypeCorrect` | `Spec => []TypeOK` | `RunOK` ties each program counter to its local variables |
| `OutboxProofs!AtMostOnce` | `Spec => []AtMostOncePerRecovery` | `StartsCovered`: every first delivery is paid for by a deduplication row, every further one by a recovery, which deletes that row. Needs no lease at all |
| `OutboxProofs!ClaimsExclusive` | `Spec => []ExclusiveClaim` | held rows are pending and not due, so nobody can claim them; a recovery's row is dead and stays so. `SlowWorkers = FALSE` and one administrator are premises *inside* the property |
| `OutboxProofs!PublishedRecorded` | `Spec => []PublishedMeansRecorded` | `LoopRecorded`: the consumers before the loop index have their rows; deletion needs a dead letter, which nobody holds |
| `OutboxProofs!ReadableNeverDies` | `Spec => []OnlyPoisonDies` | `Paid`: a readable row has no more failed attempts than deduplication rows, and there are at most as many of these as consumers |
| `OutboxProofs!LifecycleRefined` | `ASSUME Orderly PROVE Spec => LifecycleSpec` | each step maps to a lifecycle step or a stutter, with exclusivity as the invariant |
| `CommandExecutionProofs!TypeCorrect` | `Spec => []TypeOK` | by cases |
| `CommandExecutionProofs!OneEffectPerKey` | `Spec => []OncePerKey` | `KeyInv`: rows and committed keyed requests correspond, one request per key, and the holder of an uncommitted row is alone. Also across expiry, since expired rows still block the insert |
| `CommandExecutionProofs!ReplaysAreHonest` | `Spec => []ReplayIsTheCommitted` | same invariant |
| `CommandExecutionProofs!CommandsRefined` | `Spec => IdempotentSpec` | `KeyInv` and `EventsWhole`: of a request that has committed all its events are there, of any other none, so the commit alone is the visible step, for handlers with any number of events |
| `QuoteOrderProofs!TypeCorrect` | `Spec => []TypeOK` | `IInv` |
| `QuoteOrderProofs!TotalsAlwaysAgree` | `Spec => []TotalsAgree` | `Fresh`, below |
| `QuoteOrderProofs!OneOrderPerAcceptedQuote` | `Spec => []OrdersMatch` | `Fresh`: a conversion that commits has read a submitted quote, which has no order |
| `QuoteOrderProofs!NumbersAlwaysDense` | `Spec => []NumbersDense` | `NumberInv`: who has counted will insert at most count + 1; that number is not taken, so it is the next one |
| `QuoteOrderProofs!MoneyAlwaysWhole` | `Spec => []MoneyWhole` | `MoneyInv`: line ids are given once, so the lines are finitely many, and a sum of natural numbers is one |
| `QuoteOrderProofs!EditsAlwaysExact` | `Spec => EditsExact` | `MoneyInv` and `Fresh`: the line an edit writes is still there, and what was listed is the quote's lines |
| `QuoteOrderProofs!SubmittedStays` | `Spec => SubmittedIsFrozen` | `Fresh`: a command that would commit an edit has read the draft that the row still is |
| `QuoteOrderProofs!LifecycleRefined` | `Spec => LifecycleSpec` | what `Fresh` says at the commit makes each commit one step of the document; every other step stutters |
| `WorkAndWorkforceProofs!TypeCorrect` | `Spec => []TypeOK` | `IInv` |
| `WorkAndWorkforceProofs!OneDecision` | `Spec => []DecidedOnce` | `Claims`: a request is inserted once; an update needs a pending row, which has no decision yet |
| `WorkAndWorkforceProofs!AccessNeedsEmployment` | `Spec => []ActiveIsEmployed` | the two columns are set together by whichever update comes last |
| `WorkAndWorkforceProofs!RevocationNeverForgotten` | `Spec => []RevocationAccounted` | from the commit that revokes to deletion, audit or crash the call stays at the effect; no account of a revoked identity comes back |
| `WorkAndWorkforceProofs!LifecycleRefined` | `Spec => LifecycleSpec` | `SeenHolds`, below |
| `WorkAndWorkforceProofs!TrailsAlwaysConnect` | `Spec => []TrailConnected` | by induction over steps: a reassignment appends a hand from the owner it read, who by `SeenHolds` still is the owner |
| `WorkAndWorkforceProofs!SettledStays` | `Spec => [][SettledKept]_vars` | `SeenHolds` and `Claims`: a row is written only while open or pending |
| `ProjectionProofs!TypeCorrect` | `Spec => []TypeOK` | `IInv` |
| `ProjectionProofs!AttentionAlwaysCurrent` | `Spec => []AttentionCurrent` | `LockHeld` and `SnapshotFresh`, below |
| `ProjectionConvergence!RowsAlwaysConverge` | `ASSUME OneWorker PROVE Spec => []RowsConverge` | `Converging`: a read model that does not show its row is owed that row's newest event, unless that was lost, below |
| `ClientImportProofs!TypeCorrect` | `Spec => []TypeOK` | `IInv` |
| `ClientImportProofs!MergesAreFinal` | `Spec => MergedIsFinal` | `Later`: of a party not in `ahead` the version only grows, every update needs the version it read, and the party is not merged while it has that version |
| `ClientImportProofs!ApprovalsCarriedOut` | `Spec => []ApprovedIsMerged` | the approval that commits is the one that merges; `Later` keeps it while the source is not in `ahead` |
| `ClientImportProofs!RowsMadeOnce` | `Spec => []OneEntityPerRow` | `KeysUnique` and `MadeKeyed`: what was made for a row has the key that says so, expired or not |
| `ClientImportProofs!ImportsComplete` | `Spec => []ImportedComplete` | `ExecuteFit`: a run knows from the results of its keyed commands what it has made, and has recorded the rows before its own |
| `ClientImportProofs!ReversalsComplete` | `Spec => []ReversalDone` | `ReverseFit`: what is recorded for the rows a run has passed is gone |
| `AutosaveProofs!TypeCorrect` | `Spec => []TypeOK` | `IInv` |
| `AutosaveProofs!NothingEverDropped` | `Spec => []NothingDropped` | `Written`, `Served`: what is pending leaves the buffer only once it is stored |
| `AutosaveProofs!FlushesLand` | `Spec => []FlushLands` | `Waits`, `Expected`: a flush writes, or waits for a write that is still under way and then writes itself, what was asked of it or something newer |

The invariant of `QuoteOrder` is the argument optimistic locking rests on.  `TotalsAgree` is not inductive: the totals are computed from
`listed[c]`, read a statement before.  `Fresh(c)` says that *while the version `c` read is still the row's version*,
status, money and lines of the quote are what `c` has read, and `listed[c]` is what its own write will leave.  It is
inductive because every commit that changes any of these raises the version; without that (`BumpForgotten`) TLC finds two orders of one quote.
`Placed` and `Existing` say where a command may stand, `OwnLine`, `RowIds`, `Apart` that no two commands write one line as lines of two quotes, and
`OwnOrder`, `OrderVersions` that an order of version 0 is open.

`EditsExact` needs the arithmetic of `Subtotal`, a fold that takes rows out of a set in an order nobody knows.  That a line more is worth its total more, *whichever row the fold takes first* (`SubtotalWithLine`), is proved by
induction over the size of the set; as induction theorems with an operator parameter cannot be cited, `EverySize` states induction for a set of sizes and is proved from the well-foundedness of `<`.  What the model adds is
`MoneyInv`: one row per line id (`OneRowPerId`), natural discounts (`DiscountsNat`), and that the line an edit is about is there as long as the version holds (`EditedLineThere`).

The invariant of `WorkAndWorkforce` is of the same kind: `SeenHolds` says that a command which has read a work item knows its row as long as the version has not
moved, `Claims` and `Apart` that a row to be inserted is not there and is one command's only, `Inserted` that an identity has its member.  Of members no such thing holds, as their updates check
nothing; what is proved of them follows from each update alone.

`AttentionCurrent` rests on the advisory lock: whoever stands between the snapshot and the replacement holds it (`LockHeld`), and what it is about to write is what the read models say unless one of them
was written since (`SnapshotFresh`).

`RowsConverge` speaks of a state in which nothing is left to deliver; `Converging` says what holds before.  A read model that does not show its canonical row is *owed* the newest event of that row: the event is still to be delivered or was lost,
what was applied to the model is older, and the worker, if it has that event in hand, has still to write the model.  The check of `shouldApply` cannot turn that event away while the events of the row are in order (`OwedApplies`, by `Dated`: the time kept with a
model is that of the event it names).  And what a worker has hydrated is the row as it is, or *overtaken* by a newer event than the one it delivers, which is then owed once the stale row is written.  A command adds the newest event of its row,
which is owed at once; a later one takes the debt of a lost event over.  At rest nothing waits, so what is owed was lost and is the newest of its row, which is what `Told` excludes.  The premise `OneWorker` is needed: with two workers the one that read first may write last, and TLC finds the read model left behind.

`OnlyPoisonDies` rests on counting: each failed delivery of a readable row was preceded by the insert of a deduplication row that no other attempt can insert, so the attempts are at most the row's deduplication rows and those at most the consumers
(`AttemptedBound`), while a lease keeps a second worker from counting twice.  `NumbersDense` rests on two facts about who is about to insert: it counted what was there, of which only more can have come (`Counted`), and the unique index rejects what is taken.

The invariant of `ClientImport` is about facts that stay.  A saved idempotency key means that something was made or undone (`Meaning`); `Later` lists what no commit takes back: rows, their owners and import rows, keys,
deactivations, and, of the parties not in `ahead`, versions and merges.  What a command or a run knows (`Fit`, `RunFit`) is made of such facts and of versions, so a commit of another cannot falsify it, and each step needs an argument for itself alone.
A reversal recognizes its location by two keys with one answer: the key it saved says which location was deactivated, the key of the import which one was made, and keys are unique (`SavedOnce`).

Assumptions on constants: `ConstantsAssumption`, `CommandAssumption`, `QuoteAssumption`, `WorkAssumption`, `ProjectionAssumption`, `PartyAssumption`, `ImportAssumption`, `AutosaveAssumption`.  `ProjectionAssumption` says among others that ids of work items and approvals differ, as `createId` makes them.  TLC evaluates all of them.
Premises of single theorems: `Orderly` of the outbox's `LifecycleRefined` (runs end within their lease, one recovery at a time) and `OneWorker` of `RowsAlwaysConverge`.  Premises inside properties: commits in order and `Told` in `RowsConverge`, `ahead` in `MergedIsFinal` and `ApprovedIsMerged`;
TLC refutes each of the three without them.  That the versions of a party only grow is no assumption of the model but a consequence of `ahead`, proved as part of `Later`.

Only model-checked: `EventuallySettled`, `EveryRequestAnswered`, `OverdueShown` and `EverySaveTried`, which are liveness under fairness and beyond this prover.
Every safety property that a passing run checks is a theorem.  The invariants of `QuoteOrder` and `ClientImport` and those of `ReadableNeverDies`, `NumbersAlwaysDense`, `EditsAlwaysExact`, `TrailsAlwaysConnect` and `RowsAlwaysConverge` were checked by TLC before they were proved, as were
`MoneyWhole`, `SubmittedIsFrozen`, `TrailConnected` and `SettledKept`, which are stated beside their proofs and add nothing to what the runs tell apart.

## 7. Disagreements found

* **Published without having been processed** (`outbox_processed`).  The worker publishes a row when all consumers come back as duplicates,
  with the comment "All consumers already processed".  But a consumer's deduplication row is committed *before* `deliver()`: one that threw, or whose
  process died, is a duplicate at the retry.  One consumer, one worker and one exception suffice; the retry scheduled by the catch block can never reach the
  consumer it was scheduled for.  What does hold is `PublishedMeansRecorded`.  `Projection` shows what becomes of the read models: the one the delivery did not reach stays as it was until a later event of its row.
* **Events with a stranger's key** (`command_event_key`).  `activeIdempotencyKey` is a field of a singleton, written when a transaction begins and read
  when an event is built.  Two overlapping requests of one service, sent with the keys `k1` and `k2`, suffice: the first begins its transaction before the second builds its event, and the second commits an event under `k1`, although the
  integration test of the workforce transactions asserts that an event carries the key its command was sent with.  `OncePerKey` holds all the same, as it rests on `os_idempotency_keys`.  The cost is borne by the owner of `k1`: the events are
  unique by key, so any event it or a retry of it inserts under `k1` from then on is refused.
* **Terminated with open work** (`work_terminate`).  `docs/architecture/PRODUCTION_STAGING_IMPLEMENTATION_PLAN.md` and the tests of os-workforce say that a member with open work cannot be terminated.
  `TerminateMember` lists the open work in one statement and updates the member in another; `CreateWorkItem` and `ReassignWork` read the member as active without locking it.  A work item
  created in between, or by a command that read before and commits after, stays with a terminated member.

What the models also show; but for the autosave, it contradicts no sentence of the repository (no property claims the opposite, and `hazards` lists most of it at its line):

* *Commands with two events.* A handler that emits two events under a key always collides with its own first event, because both are stamped with the same key under one unique index: `ResolveLead`, and `CreateParty` or `UpdateFiscalIdentity`
  when the NIT is somebody else's too, can only succeed without a key, or when another request has overwritten the field in between.  A handler with no event commits the row of its key alone.
* *Members.* An activation that read the member before a termination commits brings the terminated member back, employed and with access, while the identity stays revoked.  A suspension after a termination turns `revoked` into
  `suspended`, after which `RetryAuthProviderSync` no longer retries the revocation.  `TerminateMember` looks the identity up by person: terminating the old membership again after a rehire revokes the new identity.
  Terminating somebody whose identity is still `invited` leaves it invited.
* *Projections.* A command that began earlier and committed later is skipped for good by `shouldApply` (hence `InOrder` in `RowsConverge`).  A delivery that throws or dies is not made again: the read
  models it did not reach wait for the next event of their row (hence `Told`), assignment and approval rows for the next rebuild; only overdue rows are put right, by the clock.
* *Parties.* `UpdateParty` finds the row by the version the client named and writes the version after the one it read (`party-command-service.ts:347-351`).  Without the premise on `ahead` TLC refutes both `MergedIsFinal` and `ApprovedIsMerged`: an update that names version 2 reads the party at 0,
  another update makes it 1, a deactivation reads it at 1, an approved merge makes it 2, the first update commits under 2 and writes 1, and the deactivation commits under 1: the merged party is inactive, with `mergedIntoPartyId` still set.  It takes a client that guesses a version; the web client sends
  those it has read (`apps/os-web/lib/party/actions.ts`).
  Requests `A -> B` and `B -> A` may both be approved at a time, leaving two parties merged into each other.  Approval and rejection of one request may both succeed: merged, and the request rejected.  What is inserted
  for a party that is being merged stays with the source.
* *Import.* A run that died before it recorded a row leaves entities that no reversal finds.  A retry after the keys have expired fails on the unique index for good.  A reversal stops for good at a party merged meanwhile.
* *Autosave.* Two flushes that waited for one write both write what is pending by then, and their requests may arrive in the other order than those of a later save: an older interview is stored last.  This does
  contradict `guided-assessment.tsx:318`, "returning to the workspace never loses an answer"; `NothingDropped` says only that the newest interview is pending or was stored at some time.  A `clear` may be overtaken by a write still on its way, which stores the completed interview again.

## 8. Not modelled

* Parts listed as `–` above: query services and authorization are pure predicates; HTTP wiring, rendering, generated code, seeds and the legacy
  product keep no state that several actors change.  Workspaces of the architect product are read and written whole (the nightly review included), so writers
  overwrite each other and no property of it is left to check.
* In modelled components: the health and list queries of the outbox; audit entries other than those of provider effects; organizations (every query is
  scoped to one); authority checks, which can only refuse, and a refusal is `HandlerFails` or `Fail`.
* Workforce: an `appendStandaloneAudit` that throws in a living process, which leaves what a `Crash` after the effect leaves; a rehire under the same e-mail address; role, department and manager assignments, delegations, change of e-mail, the invite completion page.  Concurrent changes of a member's role, department or manager may leave two
  active rows: the code ends the active row it read and inserts another, without a lock or an index.
* Projections: `replayWorkProjectionForOrg` (only tests call it), checkpoints and freshness (nothing decides on them), and the party and commercial consumers, which have the same form over other rows.
* Parties: roles other than customer, fiscal identities, duplicate suggestions, leads, updates that change data only.  Import: the dry run, validation and receipts, each written once.
* Autosave: `load`, and the variant over localStorage, which writes synchronously.
* Postgres is modelled by what the code relies on: atomic commit, READ COMMITTED statements, row locks until commit, unique indexes.  Deadlock
  detection and serialization failures are rollbacks, `DeadlockDetected`, `HandlerFails` or `Fail`.
* Fields of a line other than its total: an update of a line takes the fields it is not given from a row it read before any check of version.  The hazard is recorded, no property covers it.

## 9. Plan

1. `Outbox`, `CommandExecution`, `QuoteOrder`, `WorkAndWorkforce`, `ClientImport` with `PartyCommands`, `Autosave`: modelled, checked, proved.
2. `Projection`: modelled, checked, `AttentionCurrent` and, for one worker, `RowsConverge` proved.
3. Left: assignments and delegations of the workforce, leads and roles of parties, the party and commercial consumers, opportunities, and the pure derivations (`commitments.ts`, `notifications.ts`,
   `reported-operational-fact.ts`) as operators checked against reference definitions.
