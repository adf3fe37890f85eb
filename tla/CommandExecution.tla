-------------------------- MODULE CommandExecution --------------------------
(***************************************************************************)
(* The skeleton every command service shares (execute and emit in          *)
(* CommercialCommandService and its siblings): look the idempotency key    *)
(* up, open a transaction, remember the key in a field of the service, run *)
(* the handler, insert event + outbox row + audit entry for each event the *)
(* handler emits, insert the idempotency row, commit.  The services are    *)
(* singletons of one process, so requests interleave at every await; the   *)
(* database adds what its unique indexes do: an insert of a key another    *)
(* open transaction holds waits for it, an insert of a committed key fails *)
(* (P2002), and of transactions that wait for each other one is aborted.   *)
(*                                                                         *)
(* Requests stands for every call clients make, retries included: a retry  *)
(* is another request with the same key.  A handler emits one event, none  *)
(* (GrantAdditionalRole of a role the member has, ReassignCommercial-      *)
(* AccountOwner to the same owner) or two (ResolveLead, and CreateParty    *)
(* and UpdateFiscalIdentity when the NIT is somebody else's too).          *)
(***************************************************************************)
EXTENDS Integers, Sequences

CONSTANTS
  Requests,   \* calls of execute
  Keys,       \* values of the idempotency-key header
  Services,   \* command services of the process: one activeIdempotencyKey each
  NoKey,      \* the header is absent
  Nobody,     \* no request
  MaxEvents,  \* the most events a handler emits
  MaxCrashes  \* bound on process crashes

ASSUME CommandAssumption ==
  NoKey \notin Keys /\ Nobody \notin Requests /\ MaxEvents \in Nat /\ MaxCrashes \in Nat

VARIABLES
  key,        \* key[r]: the key request r was sent with
  service,    \* service[r]: the service that executes it
  wants,      \* wants[r]: how many events its handler emits
  pc,         \* pc[r]: where execute stands
  answer,     \* answer[r]: the request whose result r was given, Nobody until then or on an error
  activeKey,  \* activeKey[s]: this.activeIdempotencyKey
  built,      \* built[r]: idempotencyKey of the event r is inserting
  sent,       \* sent[r]: keys of the events inserted by the open transaction of r
  idem,       \* committed idempotency rows: [key, req, live]
  events,     \* committed business events, the n-th of its request: [req, n, key]
  crashes     \* crashes so far

vars == <<key, service, wants, pc, answer, activeKey, built, sent, idem, events, crashes>>

InTransaction == {"open", "insert", "saved"}
InFlight == {"looked"} \union InTransaction
Answered == {"committed", "replayed", "failed"}

TypeOK ==
  /\ key \in [Requests -> Keys \union {NoKey}]
  /\ service \in [Requests -> Services]
  /\ wants \in [Requests -> 0..MaxEvents]
  /\ pc \in [Requests -> {"new"} \union InFlight \union Answered]
  /\ answer \in [Requests -> Requests \union {Nobody}]
  /\ activeKey \in [Services -> Keys \union {NoKey}]
  /\ built \in [Requests -> Keys \union {NoKey}]
  /\ sent \in [Requests -> Seq(Keys \union {NoKey})]
  /\ \A r \in Requests : Len(sent[r]) <= wants[r] /\ (pc[r] = "insert" => Len(sent[r]) < wants[r])
  /\ idem \subseteq [key : Keys, req : Requests, live : BOOLEAN]
  /\ events \subseteq [req : Requests, n : 1..MaxEvents, key : Keys \union {NoKey}]
  /\ crashes \in 0..MaxCrashes

Init ==
  /\ key \in [Requests -> Keys \union {NoKey}]
  /\ service \in [Requests -> Services]
  /\ wants \in [Requests -> 0..MaxEvents]
  /\ pc = [r \in Requests |-> "new"]
  /\ answer = [r \in Requests |-> Nobody]
  /\ activeKey = [s \in Services |-> NoKey]
  /\ built = [r \in Requests |-> NoKey]
  /\ sent = [r \in Requests |-> <<>>]
  /\ idem = {}
  /\ events = {}
  /\ crashes = 0

Keyed(r) == key[r] # NoKey
Sent(r) == {sent[r][i] : i \in DOMAIN sent[r]}

\* Plausible bug: the lookup forgets the key and takes any row that has not expired.
StoredAny(k) == {row \in idem : k # NoKey /\ row.live}

\* findIdempotency: the row of the key that has not expired.
Stored(k) == {row \in idem : row.key = k /\ row.live}

Goto(r, label) == pc' = [pc EXCEPT ![r] = label]

\* The lookup happens before the transaction, and compares the key only.
Replay(r) ==
  /\ pc[r] = "new"
  /\ \E row \in Stored(key[r]) : answer' = [answer EXCEPT ![r] = row.req]
  /\ Goto(r, "replayed")
  /\ UNCHANGED <<key, service, wants, activeKey, built, sent, idem, events, crashes>>

LookupMisses(r) ==
  /\ pc[r] = "new"
  /\ Stored(key[r]) = {}
  /\ Goto(r, "looked")
  /\ UNCHANGED <<key, service, wants, answer, activeKey, built, sent, idem, events, crashes>>

\* The transaction's callback starts by overwriting the service's field.
Begin(r) ==
  /\ pc[r] = "looked"
  /\ activeKey' = [activeKey EXCEPT ![service[r]] = key[r]]
  /\ Goto(r, "open")
  /\ UNCHANGED <<key, service, wants, answer, built, sent, idem, events, crashes>>

\* Plausible bug: the error is returned while the transaction stays open with what it inserted.
RollbackForgotten(r) ==
  /\ Goto(r, "failed")
  /\ UNCHANGED <<key, service, wants, answer, activeKey, built, sent, idem, events, crashes>>
Rollback(r) ==
  /\ Goto(r, "failed")
  /\ sent' = [sent EXCEPT ![r] = <<>>]
  /\ built' = [built EXCEPT ![r] = NoKey]
  /\ UNCHANGED <<key, service, wants, answer, activeKey, idem, events, crashes>>

\* Any throw inside the transaction, or its time limit, rolls it back.
HandlerFails(r) == pc[r] \in InTransaction /\ Rollback(r)

\* buildBusinessEvent stamps the event with the field before the first await of the insert.
Build(r) ==
  /\ pc[r] = "open" /\ Len(sent[r]) < wants[r]
  /\ built' = [built EXCEPT ![r] = activeKey[service[r]]]
  /\ Goto(r, "insert")
  /\ UNCHANGED <<key, service, wants, answer, activeKey, sent, idem, events, crashes>>

\* business_events has @@unique([organizationId, idempotencyKey]); nulls never collide.
\* A transaction sees the committed events and its own.
EventTaken(r, k) == k # NoKey /\ (k \in Sent(r) \/ \E e \in events : e.key = k)
EventHeld(q, k) == k # NoKey /\ k \in Sent(q)

Insert(r) ==
  /\ pc[r] = "insert"
  /\ ~EventTaken(r, built[r]) /\ \A q \in Requests : ~EventHeld(q, built[r])
  /\ sent' = [sent EXCEPT ![r] = Append(@, built[r])]
  /\ built' = [built EXCEPT ![r] = NoKey]
  /\ Goto(r, "open")
  /\ UNCHANGED <<key, service, wants, answer, activeKey, idem, events, crashes>>

InsertCollides(r) == pc[r] = "insert" /\ EventTaken(r, built[r]) /\ Rollback(r)

\* The insert of r waits for the transaction of q to end.
WaitsFor(r, q) ==
  q # r /\ pc[r] = "insert" /\ ~EventTaken(r, built[r]) /\ EventHeld(q, built[r])

\* Transactions that wait for each other in a circle: the database aborts one.
Deadlocked(r) ==
  \E S \in SUBSET Requests :
    /\ r \in S
    /\ \A p \in S : (\E q \in S : WaitsFor(p, q)) /\ (\E q \in S : WaitsFor(q, p))
DeadlockDetected(r) == Deadlocked(r) /\ Rollback(r)

\* Plausible bug: only rows that have not expired block the insert.
RowTakenLive(k) == Stored(k) # {}
\* os_idempotency_keys has @@unique([organizationId, key]); expired rows stay.
RowTaken(k) == \E row \in idem : row.key = k
RowHeld(r, k) == \E q \in Requests \ {r} : pc[q] = "saved" /\ key[q] = k

\* The handler has returned.
Handled(r) == pc[r] = "open" /\ Len(sent[r]) = wants[r]

SaveIdempotency(r) ==
  /\ Handled(r)
  /\ Keyed(r) => ~RowTaken(key[r]) /\ ~RowHeld(r, key[r])
  /\ Goto(r, "saved")
  /\ UNCHANGED <<key, service, wants, answer, activeKey, built, sent, idem, events, crashes>>

\* The events a commit makes visible.
EventsOf(r) == {[req |-> r, n |-> i, key |-> sent[r][i]] : i \in DOMAIN sent[r]}

\* Plausible bug: the events are inserted outside the transaction, and a rollback leaves them.
SaveCollidesLeaves(r) ==
  /\ Handled(r)
  /\ Keyed(r) /\ RowTaken(key[r])
  /\ Goto(r, "failed")
  /\ sent' = [sent EXCEPT ![r] = <<>>]
  /\ events' = events \union EventsOf(r)
  /\ UNCHANGED <<key, service, wants, answer, activeKey, built, idem, crashes>>
SaveCollides(r) == Handled(r) /\ Keyed(r) /\ RowTaken(key[r]) /\ Rollback(r)

\* Plausible bug: the row is written even when the header is absent.
RowOfAlways(r) == {[key |-> key[r], req |-> r, live |-> TRUE]}
\* The row a commit makes visible.
RowOf(r) == IF Keyed(r) THEN {[key |-> key[r], req |-> r, live |-> TRUE]} ELSE {}

Commit(r) ==
  /\ pc[r] = "saved"
  /\ idem' = idem \union RowOf(r)
  /\ events' = events \union EventsOf(r)
  /\ sent' = [sent EXCEPT ![r] = <<>>]
  /\ answer' = [answer EXCEPT ![r] = r]
  /\ Goto(r, "committed")
  /\ UNCHANGED <<key, service, wants, activeKey, built, crashes>>

\* 24 hours pass (expiresAt).
Expire(k) ==
  /\ Stored(k) # {}
  /\ idem' = (idem \ Stored(k)) \union {[row EXCEPT !.live = FALSE] : row \in Stored(k)}
  /\ UNCHANGED <<key, service, wants, pc, answer, activeKey, built, sent, events, crashes>>

\* The process dies: open transactions roll back, the fields come back undefined.
Crash ==
  /\ crashes < MaxCrashes
  /\ crashes' = crashes + 1
  /\ pc' = [r \in Requests |-> IF pc[r] \in InFlight THEN "failed" ELSE pc[r]]
  /\ sent' = [r \in Requests |-> <<>>]
  /\ built' = [r \in Requests |-> NoKey]
  /\ activeKey' = [s \in Services |-> NoKey]
  /\ UNCHANGED <<key, service, wants, answer, idem, events>>

\* What execute does by itself when its awaits resume.
Advance(r) ==
  \/ Replay(r) \/ LookupMisses(r) \/ Begin(r) \/ Build(r) \/ Insert(r) \/ InsertCollides(r)
  \/ SaveIdempotency(r) \/ SaveCollides(r) \/ Commit(r)

Next ==
  \/ \E r \in Requests : Advance(r) \/ HandlerFails(r) \/ DeadlockDetected(r)
  \/ \E k \in Keys : Expire(k)
  \/ Crash

Spec == Init /\ [][Next]_vars

\* Every await whose statement can run resumes, and deadlocks are detected; no handler need fail.
Fairness ==
  /\ \A r \in Requests : WF_vars(Advance(r))
  /\ WF_vars(\E r \in Requests : DeadlockDetected(r))
FairSpec == Spec /\ Fairness

-----------------------------------------------------------------------------
(* However retries, expiries, crashes and other commands interleave, the   *)
(* commands sent with one idempotency key take effect once at most: execute *)
(* looks the key up before the transaction, so two retries may both miss.  *)
Effects(k) == {r \in Requests : pc[r] = "committed" /\ key[r] = k}
OncePerKey == \A k \in Keys : \A p, q \in Effects(k) : p = q

(* A request that is answered from the table is given the result of the    *)
(* command that committed under its own key (existing.resultJson).         *)
ReplayIsTheCommitted ==
  \A r \in Requests : pc[r] = "replayed" => answer[r] \in Effects(key[r])

(* A request is given an error or a result whatever other transactions     *)
(* hold, though no handler fails of itself: an insert that waits for the   *)
(* event or the row of another key is let through or refused in the end.   *)
EveryRequestAnswered == \A r \in Requests : <>(pc[r] \in Answered)

(* What a client sees of execute is one step: all the events of the        *)
(* command, the row of its key and the answer appear together or not at    *)
(* all, a request that was refused never takes effect later, and of the    *)
(* requests with one key the others are given an error or what the first   *)
(* was given, as long as the table remembers and after it has forgotten.   *)
Outcome(r) ==
  CASE pc[r] = "committed" -> "done"
    [] pc[r] = "replayed" -> "repeated"
    [] pc[r] = "failed" -> "refused"
    [] OTHER -> "none"
Commands == INSTANCE IdempotentCommands WITH
  outcome <- [r \in Requests |-> Outcome(r)],
  result <- answer,
  effects <- [r \in Requests |-> {e.n : e \in {f \in events : f.req = r}}]
IdempotentSpec == Commands!Spec

(* workforce-transaction.integration.test.ts asserts of a committed command *)
(* that its event carries the key it was sent with (event.idempotencyKey    *)
(* equals key); here of commands that were sent with a key.                *)
EventCarriesItsKey ==
  \A e \in events : Keyed(e.req) /\ e.key # NoKey => e.key = key[e.req]
=============================================================================
