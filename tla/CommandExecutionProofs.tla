----------------------- MODULE CommandExecutionProofs -----------------------
(* Proofs about CommandExecution, for any number of requests, keys and     *)
(* services, any interleaving, any expiry and any number of crashes.       *)
EXTENDS CommandExecution, TLAPS

LEMMA RolledBack ==
  ASSUME TypeOK, NEW r \in Requests, Rollback(r)
  PROVE  TypeOK'
<1>1. /\ pc' = [pc EXCEPT ![r] = "failed"] /\ sent' = [sent EXCEPT ![r] = <<>>] /\ built' = [built EXCEPT ![r] = NoKey]
      /\ UNCHANGED <<key, service, wants, answer, activeKey, idem, events, crashes>>
  BY DEF Rollback, Goto
<1>2. sent' \in [Requests -> Seq(Keys \union {NoKey})]
  BY <1>1 DEF TypeOK
<1>3. \A q \in Requests : Len(sent'[q]) <= wants'[q] /\ (pc'[q] = "insert" => Len(sent'[q]) < wants'[q])
  BY <1>1 DEF TypeOK
<1> QED BY <1>1, <1>2, <1>3 DEF TypeOK, Answered

(* Each action keeps the types of the variables. *)
THEOREM TypeCorrect == Spec => []TypeOK
<1> USE CommandAssumption
<1>1. Init => TypeOK
  BY SMT DEF Init, TypeOK, InFlight, Answered
<1>2. TypeOK /\ [Next]_vars => TypeOK'
  <2> SUFFICES ASSUME TypeOK, [Next]_vars PROVE TypeOK'
    OBVIOUS
  <2> USE DEF TypeOK, InFlight, InTransaction, Answered, Goto
  <2>1. ASSUME NEW r \in Requests, Advance(r) PROVE TypeOK'
    <3>1. CASE Replay(r)
      BY <3>1 DEF Replay, Stored
    <3>2. CASE LookupMisses(r)
      BY <3>2 DEF LookupMisses
    <3>3. CASE Begin(r)
      BY <3>3 DEF Begin
    <3>4. CASE InsertCollides(r) \/ SaveCollides(r)
      BY <3>4, RolledBack DEF InsertCollides, SaveCollides
    <3>5. CASE Build(r)
      BY <3>5 DEF Build
    <3>6. CASE Insert(r)
      <4> DEFINE more == Append(sent[r], built[r])
      <4>0. sent' = [sent EXCEPT ![r] = more] /\ built[r] \in Keys \union {NoKey} /\ sent[r] \in Seq(Keys \union {NoKey})
        BY <3>6 DEF Insert
      <4>1. more \in Seq(Keys \union {NoKey}) /\ Len(more) = Len(sent[r]) + 1
        BY <4>0
      <4>2. sent' \in [Requests -> Seq(Keys \union {NoKey})]
        BY <4>0, <4>1
      <4>3. \A q \in Requests : Len(sent'[q]) <= wants'[q] /\ (pc'[q] = "insert" => Len(sent'[q]) < wants'[q])
        BY <3>6, <4>0, <4>1 DEF Insert
      <4> HIDE DEF more
      <4> QED BY <3>6, <4>2, <4>3 DEF Insert
    <3>7. CASE SaveIdempotency(r)
      BY <3>7 DEF SaveIdempotency
    <3>8. CASE Commit(r)
      <4>1. RowOf(r) \subseteq [key : Keys, req : Requests, live : BOOLEAN]
        <5>1. CASE Keyed(r)
          <6>1. key[r] \in Keys
            BY <5>1 DEF Keyed
          <6>2. [key |-> key[r], req |-> r, live |-> TRUE] \in [key : Keys, req : Requests, live : BOOLEAN]
            BY <6>1
          <6> QED BY <5>1, <6>2 DEF RowOf
        <5>2. CASE ~Keyed(r)
          BY <5>2 DEF RowOf
        <5> QED BY <5>1, <5>2
      <4>2. EventsOf(r) \subseteq [req : Requests, n : 1..MaxEvents, key : Keys \union {NoKey}]
        <5> SUFFICES ASSUME NEW i \in DOMAIN sent[r]
                     PROVE  [req |-> r, n |-> i, key |-> sent[r][i]] \in [req : Requests, n : 1..MaxEvents, key : Keys \union {NoKey}]
          BY DEF EventsOf
        <5>1. i \in 1..MaxEvents /\ sent[r][i] \in Keys \union {NoKey}
          OBVIOUS
        <5> QED BY <5>1
      <4>3. sent' \in [Requests -> Seq(Keys \union {NoKey})]
        BY <3>8 DEF Commit
      <4>4. \A q \in Requests : Len(sent'[q]) <= wants'[q] /\ (pc'[q] = "insert" => Len(sent'[q]) < wants'[q])
        BY <3>8 DEF Commit
      <4> QED BY <3>8, <4>1, <4>2, <4>3, <4>4 DEF Commit
    <3> QED BY <2>1, <3>1, <3>2, <3>3, <3>4, <3>5, <3>6, <3>7, <3>8 DEF Advance
  <2>2. ASSUME NEW r \in Requests, HandlerFails(r) \/ DeadlockDetected(r) PROVE TypeOK'
    BY <2>2, RolledBack DEF HandlerFails, DeadlockDetected
  <2>3. ASSUME NEW k \in Keys, Expire(k) PROVE TypeOK'
    <3>1. \A row \in idem : [row EXCEPT !.live = FALSE] \in [key : Keys, req : Requests, live : BOOLEAN]
      <4>1. idem \subseteq [key : Keys, req : Requests, live : BOOLEAN]
        OBVIOUS
      <4> QED BY ONLY <4>1
    <3> QED BY <2>3, <3>1 DEF Expire, Stored
  <2>4. CASE Crash
    <3>1. sent' = [r \in Requests |-> <<>>] /\ \A q \in Requests : Len(sent'[q]) <= wants'[q] /\ (pc'[q] = "insert" => Len(sent'[q]) < wants'[q])
      BY <2>4 DEF Crash
    <3> QED BY <2>4, <3>1 DEF Crash
  <2>5. CASE UNCHANGED vars
    BY <2>5 DEF vars
  <2> QED BY <2>1, <2>2, <2>3, <2>4, <2>5 DEF Next
<1> QED BY <1>1, <1>2, PTL DEF Spec

(***************************************************************************)
(* The strengthening.  The idempotency table is the record of what has     *)
(* taken effect: one request a key, each row's request committed with that *)
(* key, each committed keyed request in the table; and the request that    *)
(* holds the uncommitted row of a key is alone with it.                    *)
(***************************************************************************)
RowsAreEffects == \A row \in idem : row.req \in Effects(row.key)
EffectsHaveRows ==
  \A r \in Requests : pc[r] = "committed" /\ Keyed(r) => \E row \in idem : row.key = key[r] /\ row.req = r
RowsKeyed == \A x, y \in idem : x.key = y.key => x.req = y.req
HolderAlone ==
  \A r \in Requests : pc[r] = "saved" /\ Keyed(r) => ~RowTaken(key[r]) /\ ~RowHeld(r, key[r])
KeyInv == TypeOK /\ RowsAreEffects /\ EffectsHaveRows /\ RowsKeyed /\ HolderAlone /\ ReplayIsTheCommitted

LEMMA KeyInvInit == Init => KeyInv
  BY CommandAssumption, SMT DEF Init, KeyInv, TypeOK, InFlight, Answered, RowsAreEffects, EffectsHaveRows, RowsKeyed,
     HolderAlone, ReplayIsTheCommitted

(* A step that commits nothing, saves nothing, replays nothing and leaves   *)
(* the table's keys and requests alone keeps the strengthening.             *)
LEMMA QuietStep ==
  ASSUME KeyInv, TypeOK', key' = key,
         \A row \in idem' : \E old \in idem : old.key = row.key /\ old.req = row.req,
         \A old \in idem : \E row \in idem' : old.key = row.key /\ old.req = row.req,
         \A r \in Requests : pc'[r] # pc[r] => pc[r] # "committed" /\ pc'[r] \notin {"saved", "committed", "replayed"},
         answer' = answer
  PROVE  KeyInv'
<1> USE DEF KeyInv
<1>1. \A k : Effects(k)' = Effects(k)
  BY DEF Effects
<1>2. RowsAreEffects'
  BY <1>1 DEF RowsAreEffects
<1>3. EffectsHaveRows'
  <2> SUFFICES ASSUME NEW r \in Requests, pc'[r] = "committed", key[r] # NoKey
               PROVE  \E row \in idem' : row.key = key[r] /\ row.req = r
    BY DEF EffectsHaveRows, Keyed
  <2>1. PICK old \in idem : old.key = key[r] /\ old.req = r
    BY DEF EffectsHaveRows, Keyed
  <2> QED BY <2>1
<1>4. RowsKeyed'
  <2> SUFFICES ASSUME NEW x \in idem', NEW y \in idem', x.key = y.key PROVE x.req = y.req
    BY DEF RowsKeyed
  <2>1. PICK a \in idem : a.key = x.key /\ a.req = x.req
    OBVIOUS
  <2>2. PICK b \in idem : b.key = y.key /\ b.req = y.req
    OBVIOUS
  <2> QED BY <2>1, <2>2 DEF RowsKeyed
<1>5. HolderAlone'
  <2>1. \A k : RowTaken(k)' => RowTaken(k)
    BY DEF RowTaken
  <2>2. \A r \in Requests : pc'[r] = "saved" => pc[r] = "saved"
    OBVIOUS
  <2>3. \A r \in Requests : \A k : RowHeld(r, k)' => RowHeld(r, k)
    BY <2>2 DEF RowHeld
  <2> QED BY <2>1, <2>2, <2>3 DEF HolderAlone, Keyed
<1>6. ReplayIsTheCommitted'
  BY <1>1 DEF ReplayIsTheCommitted
<1> QED BY <1>2, <1>3, <1>4, <1>5, <1>6

\* The four ways in which an open transaction is rolled back alone.
Refused(r) == HandlerFails(r) \/ InsertCollides(r) \/ SaveCollides(r) \/ DeadlockDetected(r)

LEMMA RefusedStep ==
  ASSUME NEW r \in Requests, Refused(r)
  PROVE  /\ pc[r] \in InTransaction /\ pc' = [pc EXCEPT ![r] = "failed"]
         /\ UNCHANGED <<key, wants, answer, idem, events>>
<1>1. DeadlockDetected(r) => pc[r] = "insert"
  BY DEF DeadlockDetected, Deadlocked, WaitsFor
<1> QED BY <1>1 DEF Refused, HandlerFails, InsertCollides, SaveCollides, DeadlockDetected, Handled, Rollback, Goto, InTransaction

LEMMA KeyInvStep == KeyInv /\ TypeOK' /\ [Next]_vars => KeyInv'
<1> SUFFICES ASSUME KeyInv, TypeOK', [Next]_vars PROVE KeyInv'
  OBVIOUS
<1> USE DEF KeyInv
<1>1. ASSUME NEW r \in Requests, Replay(r) PROVE KeyInv'
  <2>1. PICK row \in Stored(key[r]) : answer' = [answer EXCEPT ![r] = row.req]
    BY <1>1 DEF Replay
  <2>2. row.req \in Effects(key[r])
    BY <2>1 DEF Stored, RowsAreEffects
  <2>3. pc' = [pc EXCEPT ![r] = "replayed"] /\ pc[r] = "new" /\ UNCHANGED <<key, idem>>
    BY <1>1 DEF Replay, Goto
  <2>4. \A k : Effects(k)' = Effects(k)
    BY <2>3 DEF Effects, TypeOK
  <2>5. ReplayIsTheCommitted'
    <3> SUFFICES ASSUME NEW q \in Requests, pc'[q] = "replayed" PROVE answer'[q] \in Effects(key[q])
      BY <2>3, <2>4 DEF ReplayIsTheCommitted
    <3>1. CASE q = r
      BY <2>1, <2>2, <3>1 DEF TypeOK
    <3>2. CASE q # r
      BY <2>1, <2>3, <3>2 DEF TypeOK, ReplayIsTheCommitted
    <3> QED BY <3>1, <3>2
  <2>6. RowsAreEffects' /\ RowsKeyed'
    BY <2>3, <2>4 DEF RowsAreEffects, RowsKeyed
  <2>7. EffectsHaveRows'
    BY <2>3 DEF EffectsHaveRows, Keyed, TypeOK
  <2>8. HolderAlone'
    BY <2>3 DEF HolderAlone, Keyed, RowTaken, RowHeld, TypeOK
  <2> QED BY <2>5, <2>6, <2>7, <2>8
<1>2. ASSUME NEW r \in Requests, LookupMisses(r) \/ Begin(r) \/ Build(r) \/ Insert(r) \/ Refused(r)
      PROVE  KeyInv'
  <2>1. /\ UNCHANGED <<key, idem, answer>>
        /\ pc[r] \notin Answered
        /\ \E l \in {"looked", "open", "failed", "insert"} : pc' = [pc EXCEPT ![r] = l]
    BY <1>2, RefusedStep DEF LookupMisses, Begin, Build, Insert, Goto, Answered, InTransaction
  <2>2. \A q \in Requests : pc'[q] # pc[q] => pc[q] # "committed" /\ pc'[q] \notin {"saved", "committed", "replayed"}
    BY <2>1 DEF TypeOK, Answered
  <2> QED BY <2>1, <2>2, QuietStep
<1>3. ASSUME NEW r \in Requests, SaveIdempotency(r) PROVE KeyInv'
  <2>1. /\ pc[r] = "open" /\ pc' = [pc EXCEPT ![r] = "saved"] /\ UNCHANGED <<key, idem, answer>>
        /\ Keyed(r) => ~RowTaken(key[r]) /\ ~RowHeld(r, key[r])
    BY <1>3 DEF SaveIdempotency, Handled, Goto
  <2>2. \A k : Effects(k)' = Effects(k)
    BY <2>1 DEF Effects, TypeOK
  <2>3. RowsAreEffects' /\ RowsKeyed'
    BY <2>1, <2>2 DEF RowsAreEffects, RowsKeyed
  <2>4. EffectsHaveRows'
    BY <2>1 DEF EffectsHaveRows, Keyed, TypeOK
  <2>5. ReplayIsTheCommitted'
    BY <2>1, <2>2 DEF ReplayIsTheCommitted, TypeOK
  <2>6. HolderAlone'
    <3> SUFFICES ASSUME NEW q \in Requests, pc'[q] = "saved", key[q] # NoKey
                 PROVE  ~RowTaken(key[q]) /\ ~RowHeld(q, key[q])'
      BY <2>1 DEF HolderAlone, Keyed, RowTaken
    <3>1. CASE q = r
      BY <2>1, <3>1 DEF RowHeld, Keyed, TypeOK
    <3>2. CASE q # r
      <4>1. pc[q] = "saved" /\ ~RowTaken(key[q]) /\ ~RowHeld(q, key[q])
        BY <2>1, <3>2 DEF HolderAlone, Keyed, TypeOK
      <4>2. key[r] # key[q]
        BY <2>1, <3>2, <4>1 DEF RowHeld, Keyed
      <4> QED BY <2>1, <4>1, <4>2 DEF RowHeld, TypeOK
    <3> QED BY <3>1, <3>2
  <2> QED BY <2>3, <2>4, <2>5, <2>6
<1>4. ASSUME NEW r \in Requests, Commit(r) PROVE KeyInv'
  <2>1. /\ pc[r] = "saved" /\ pc' = [pc EXCEPT ![r] = "committed"] /\ key' = key
        /\ idem' = idem \union RowOf(r) /\ answer' = [answer EXCEPT ![r] = r]
    BY <1>4 DEF Commit, Goto
  <2>2. \A row \in RowOf(r) : row.key = key[r] /\ row.req = r /\ Keyed(r)
    BY DEF RowOf
  <2>3. \A k : Effects(k) \subseteq Effects(k)'
    BY <2>1 DEF Effects, TypeOK
  <2>4. r \in Effects(key[r])'
    BY <2>1 DEF Effects, TypeOK
  <2>5. RowsAreEffects'
    BY <2>1, <2>2, <2>3, <2>4 DEF RowsAreEffects
  <2>6. EffectsHaveRows'
    <3> SUFFICES ASSUME NEW q \in Requests, pc'[q] = "committed", key[q] # NoKey
                 PROVE  \E row \in idem' : row.key = key[q] /\ row.req = q
      BY <2>1 DEF EffectsHaveRows, Keyed
    <3>1. CASE q = r
      <4> DEFINE row == [key |-> key[r], req |-> r, live |-> TRUE]
      <4>1. row \in idem'
        BY <2>1, <3>1 DEF RowOf, Keyed
      <4>2. row.key = key[q] /\ row.req = q
        BY <3>1
      <4> QED BY <4>1, <4>2
    <3>2. CASE q # r
      BY <2>1, <3>2 DEF EffectsHaveRows, Keyed, TypeOK
    <3> QED BY <3>1, <3>2
  <2>7. RowsKeyed'
    <3>1. Keyed(r) => \A row \in idem : row.key # key[r]
      BY <2>1 DEF HolderAlone, RowTaken
    <3> QED BY <2>1, <2>2, <3>1 DEF RowsKeyed
  <2>8. HolderAlone'
    <3> SUFFICES ASSUME NEW q \in Requests, pc'[q] = "saved", key[q] # NoKey
                 PROVE  (\A row \in idem' : row.key # key[q]) /\ ~RowHeld(q, key[q])'
      BY <2>1 DEF HolderAlone, Keyed, RowTaken
    <3>1. q # r /\ pc[q] = "saved" /\ ~RowTaken(key[q]) /\ ~RowHeld(q, key[q])
      BY <2>1 DEF HolderAlone, Keyed, TypeOK
    <3>2. key[r] # key[q]
      BY <2>1, <3>1 DEF RowHeld
    <3> QED BY <2>1, <2>2, <3>1, <3>2 DEF RowHeld, RowTaken, TypeOK
  <2>9. ReplayIsTheCommitted'
    <3> SUFFICES ASSUME NEW q \in Requests, pc'[q] = "replayed" PROVE answer'[q] \in Effects(key[q])'
      BY <2>1 DEF ReplayIsTheCommitted
    <3>1. q # r /\ pc[q] = "replayed" /\ answer'[q] = answer[q]
      BY <2>1 DEF TypeOK
    <3> QED BY <2>1, <2>3, <3>1 DEF ReplayIsTheCommitted
  <2> QED BY <2>5, <2>6, <2>7, <2>8, <2>9
<1>5. ASSUME NEW k \in Keys, Expire(k) PROVE KeyInv'
  <2>1. /\ UNCHANGED <<key, pc, answer>>
        /\ idem' = (idem \ Stored(k)) \union {[row EXCEPT !.live = FALSE] : row \in Stored(k)}
    BY <1>5 DEF Expire
  <2>2. \A row \in idem : [row EXCEPT !.live = FALSE].key = row.key /\ [row EXCEPT !.live = FALSE].req = row.req
    BY DEF TypeOK
  <2>3. \A row \in idem' : \E old \in idem : old.key = row.key /\ old.req = row.req
    BY <2>1, <2>2 DEF Stored
  <2>4. \A old \in idem : \E row \in idem' : old.key = row.key /\ old.req = row.req
    <3> SUFFICES ASSUME NEW old \in idem PROVE \E row \in idem' : old.key = row.key /\ old.req = row.req
      OBVIOUS
    <3>1. CASE old \in Stored(k)
      <4>1. [old EXCEPT !.live = FALSE] \in idem'
        BY <2>1, <3>1
      <4> QED BY <2>2, <4>1
    <3>2. CASE old \notin Stored(k)
      BY <2>1, <3>2
    <3> QED BY <3>1, <3>2
  <2> QED BY <2>1, <2>3, <2>4, QuietStep
<1>6. CASE Crash
  <2>1. /\ UNCHANGED <<key, idem, answer>>
        /\ pc' = [r \in Requests |-> IF pc[r] \in InFlight THEN "failed" ELSE pc[r]]
    BY <1>6 DEF Crash
  <2>2. \A q \in Requests : pc'[q] # pc[q] => pc[q] # "committed" /\ pc'[q] \notin {"saved", "committed", "replayed"}
    BY <2>1 DEF InFlight, InTransaction
  <2> QED BY <2>1, <2>2, QuietStep
<1>7. CASE UNCHANGED vars
  <2>1. UNCHANGED <<key, idem, answer, pc>>
    BY <1>7 DEF vars
  <2> QED BY <2>1, QuietStep
<1> QED BY <1>1, <1>2, <1>3, <1>4, <1>5, <1>6, <1>7 DEF Next, Advance, Refused

LEMMA KeyInvAlways == Spec => []KeyInv
<1>1. KeyInv /\ TypeOK' /\ [Next]_vars => KeyInv'
  BY KeyInvStep
<1> QED BY KeyInvInit, TypeCorrect, <1>1, PTL DEF Spec

(* The commands sent with one idempotency key take effect once at most, for *)
(* any number of retries, crashes and expiries: the insert of the row waits *)
(* for the request that holds it and fails once a row of the key is there.  *)
THEOREM OneEffectPerKey == Spec => []OncePerKey
<1>1. KeyInv => OncePerKey
  <2> SUFFICES ASSUME KeyInv, NEW k \in Keys, NEW p \in Effects(k), NEW q \in Effects(k) PROVE p = q
    BY DEF OncePerKey
  <2>1. p \in Requests /\ q \in Requests /\ key[p] = k /\ key[q] = k /\ k # NoKey
    BY CommandAssumption DEF Effects
  <2>2. PICK x \in idem : x.key = k /\ x.req = p
    BY <2>1 DEF KeyInv, EffectsHaveRows, Keyed, Effects
  <2>3. PICK y \in idem : y.key = k /\ y.req = q
    BY <2>1 DEF KeyInv, EffectsHaveRows, Keyed, Effects
  <2> QED BY <2>2, <2>3 DEF KeyInv, RowsKeyed
<1> QED BY <1>1, KeyInvAlways, PTL

(* A replayed request is given the result of the command that committed     *)
(* under its own key (findIdempotency).                                     *)
THEOREM ReplaysAreHonest == Spec => []ReplayIsTheCommitted
<1>1. KeyInv => ReplayIsTheCommitted
  BY DEF KeyInv
<1> QED BY <1>1, KeyInvAlways, PTL

-----------------------------------------------------------------------------
(* What a client sees: IdempotentCommands.                                 *)

Outcomes == [r \in Requests |-> Outcome(r)]
Recorded(r) == {e.n : e \in {f \in events : f.req = r}}
Records == [r \in Requests |-> Recorded(r)]

\* A transaction that has saved its row has inserted all its events; what is recorded is of a
\* committed request, and all of it.
EventsWhole ==
  /\ \A r \in Requests : pc[r] = "saved" => Len(sent[r]) = wants[r]
  /\ \A r \in Requests : pc[r] # "committed" => Recorded(r) = {}

LEMMA CommitAddsItsEvents ==
  ASSUME TypeOK, NEW r \in Requests, Commit(r), Recorded(r) = {}, Len(sent[r]) = wants[r]
  PROVE  Records' = [Records EXCEPT ![r] = 1..wants[r]]
<1>1. events' = events \union EventsOf(r) /\ DOMAIN sent[r] = 1..wants[r]
  BY DEF Commit, TypeOK
<1>2. \A f \in EventsOf(r) : f.req = r /\ f.n \in 1..wants[r]
  BY <1>1 DEF EventsOf
<1>3. \A i \in 1..wants[r] : \E f \in EventsOf(r) : f.n = i
  <2> TAKE i \in 1..wants[r]
  <2> DEFINE f == [req |-> r, n |-> i, key |-> sent[r][i]]
  <2>1. f \in EventsOf(r) /\ f.n = i
    BY <1>1 DEF EventsOf
  <2> QED BY <2>1
<1>4. Recorded(r)' = 1..wants[r]
  <2>1. \A f \in events : f.req # r
    BY DEF Recorded
  <2>2. \A n : n \in Recorded(r)' <=> \E f \in events' : f.req = r /\ f.n = n
    BY DEF Recorded
  <2>3. \A n : n \in Recorded(r)' <=> \E f \in EventsOf(r) : f.n = n
    BY <1>1, <1>2, <2>1, <2>2
  <2>4. \A n : n \in Recorded(r)' <=> n \in 1..wants[r]
    BY <1>2, <1>3, <2>3
  <2> QED BY <2>4
<1>5. \A q \in Requests \ {r} : Recorded(q)' = Recorded(q)
  BY <1>1, <1>2 DEF Recorded
<1> QED BY <1>4, <1>5 DEF Records

LEMMA EventsInit == Init => EventsWhole
BY DEF Init, EventsWhole, Recorded

LEMMA EventsStep == TypeOK /\ EventsWhole /\ [Next]_vars => EventsWhole'
<1> SUFFICES ASSUME TypeOK, EventsWhole, [Next]_vars PROVE EventsWhole'
  OBVIOUS
<1>1. ASSUME NEW r \in Requests, Commit(r) PROVE EventsWhole'
  <2>1. /\ pc[r] = "saved" /\ pc' = [pc EXCEPT ![r] = "committed"] /\ sent' = [sent EXCEPT ![r] = <<>>] /\ wants' = wants
        /\ Records' = [Records EXCEPT ![r] = 1..wants[r]]
    BY <1>1, CommitAddsItsEvents DEF Commit, Goto, EventsWhole
  <2>2. \A q \in Requests \ {r} : pc'[q] = pc[q] /\ sent'[q] = sent[q] /\ Records'[q] = Records[q]
    BY <2>1 DEF TypeOK, Records
  <2>3. pc'[r] = "committed"
    BY <2>1 DEF TypeOK
  <2> QED BY <2>1, <2>2, <2>3 DEF EventsWhole, Records
<1>2. ASSUME NEW r \in Requests, SaveIdempotency(r) PROVE EventsWhole'
  <2>1. /\ UNCHANGED <<events, sent, wants>> /\ pc' = [pc EXCEPT ![r] = "saved"]
        /\ pc[r] = "open" /\ Len(sent[r]) = wants[r]
    BY <1>2 DEF SaveIdempotency, Handled, Goto
  <2> QED BY <2>1 DEF EventsWhole, Recorded, TypeOK
<1>3. ASSUME NEW r \in Requests,
             Replay(r) \/ LookupMisses(r) \/ Begin(r) \/ Build(r) \/ Insert(r) \/ Refused(r)
      PROVE  EventsWhole'
  <2>1. /\ UNCHANGED <<events, wants>> /\ pc[r] \in {"new", "looked", "open", "insert", "saved"}
        /\ \E l \in {"replayed", "looked", "open", "insert", "failed"} : pc' = [pc EXCEPT ![r] = l]
    BY <1>3, RefusedStep DEF Replay, LookupMisses, Begin, Build, Insert, Goto, InTransaction
  <2>2. \A q \in Requests \ {r} : sent'[q] = sent[q] /\ pc'[q] = pc[q]
    BY <1>3, <2>1 DEF Replay, LookupMisses, Begin, Build, Insert, Refused, HandlerFails, InsertCollides, SaveCollides,
       DeadlockDetected, Rollback, TypeOK
  <2>3. pc'[r] \notin {"saved", "committed"}
    BY <2>1 DEF TypeOK
  <2>4. \A q \in Requests : Recorded(q)' = Recorded(q)
    BY <2>1 DEF Recorded
  <2>5. Recorded(r) = {}
    BY <2>1 DEF EventsWhole
  <2> QED BY <2>1, <2>2, <2>3, <2>4, <2>5 DEF EventsWhole
<1>4. CASE Crash
  <2>1. /\ events' = events /\ wants' = wants
        /\ pc' = [r \in Requests |-> IF pc[r] \in InFlight THEN "failed" ELSE pc[r]]
    BY <1>4 DEF Crash
  <2>2. \A q \in Requests : pc'[q] # "saved" /\ (pc'[q] = "committed" <=> pc[q] = "committed")
    BY <2>1 DEF InFlight, InTransaction
  <2> QED BY <2>1, <2>2 DEF EventsWhole, Recorded
<1>5. CASE (\E k \in Keys : Expire(k)) \/ UNCHANGED vars
  <2>1. UNCHANGED <<events, pc, sent, wants>>
    BY <1>5 DEF Expire, vars
  <2> QED BY <2>1 DEF EventsWhole, Recorded
<1> QED BY <1>1, <1>2, <1>3, <1>4, <1>5 DEF Next, Advance, Refused

LEMMA EventsAlways == Spec => []EventsWhole
BY EventsInit, EventsStep, TypeCorrect, PTL DEF Spec

\* One request moves: its outcome is what its program counter says, the others' stays.
LEMMA OneOutcome ==
  ASSUME TypeOK, NEW r \in Requests, NEW l, pc' = [pc EXCEPT ![r] = l]
  PROVE  /\ Outcome(r)' = (CASE l = "committed" -> "done" [] l = "replayed" -> "repeated"
                             [] l = "failed" -> "refused" [] OTHER -> "none")
         /\ Outcomes' = [Outcomes EXCEPT ![r] = Outcome(r)']
BY DEF Outcomes, Outcome, TypeOK

\* Who committed with a key is who the key's first effect was.
LEMMA FirstIsEffect ==
  ASSUME NEW k \in Keys \union {NoKey}
  PROVE  Commands!First(k) = IF k = NoKey THEN {} ELSE Effects(k)
<1>1. \A r \in Requests : Outcomes[r] = "done" <=> pc[r] = "committed"
  BY DEF Outcomes, Outcome
<1> QED BY <1>1 DEF Commands!First, Outcomes, Effects

LEMMA CommitRefines ==
  ASSUME KeyInv, EventsWhole, NEW r \in Requests, Commit(r)
  PROVE  Commands!TakeEffect(r)
<1>1. /\ pc[r] = "saved" /\ pc' = [pc EXCEPT ![r] = "committed"] /\ UNCHANGED <<key, wants>>
      /\ answer' = [answer EXCEPT ![r] = r]
  BY DEF Commit, Goto
<1>2. TypeOK /\ key[r] \in Keys \union {NoKey}
  BY DEF KeyInv, TypeOK
<1>3. Records' = [Records EXCEPT ![r] = 1..wants[r]]
  BY <1>1, <1>2, CommitAddsItsEvents DEF EventsWhole
<1>4. Keyed(r) => Effects(key[r]) = {}
  <2> SUFFICES ASSUME key[r] # NoKey, NEW q \in Effects(key[r]) PROVE FALSE
    BY DEF Keyed
  <2>1. \E row \in idem : row.key = key[r]
    BY DEF KeyInv, EffectsHaveRows, Effects, Keyed
  <2> QED BY <1>1, <2>1 DEF KeyInv, HolderAlone, Keyed, RowTaken
<1>5. Commands!First(key[r]) = {}
  BY <1>2, <1>4, FirstIsEffect DEF Keyed
<1>6. Outcomes[r] = "none" /\ Outcomes' = [Outcomes EXCEPT ![r] = "done"]
  BY <1>1, <1>2, OneOutcome DEF Outcomes, Outcome
<1> QED BY <1>1, <1>3, <1>5, <1>6 DEF Commands!TakeEffect, Commands!Answer, Outcomes, Records, Recorded

LEMMA ReplayRefines ==
  ASSUME KeyInv, NEW r \in Requests, Replay(r)
  PROVE  Commands!Repeat(r)
<1>1. PICK row \in Stored(key[r]) : answer' = [answer EXCEPT ![r] = row.req]
  BY DEF Replay
<1>2. pc[r] = "new" /\ pc' = [pc EXCEPT ![r] = "replayed"] /\ UNCHANGED <<key, wants, events>>
  BY DEF Replay, Goto
<1>3. TypeOK /\ row \in idem /\ row.key = key[r] /\ key[r] \in Keys
  BY <1>1 DEF Stored, KeyInv, TypeOK
<1>4. row.req \in Effects(key[r])
  BY <1>3 DEF KeyInv, RowsAreEffects
<1>5. row.req \in Commands!First(key[r])
  BY <1>3, <1>4, FirstIsEffect, CommandAssumption
<1>6. Outcomes[r] = "none" /\ Outcomes' = [Outcomes EXCEPT ![r] = "repeated"]
  BY <1>2, <1>3, OneOutcome DEF Outcomes, Outcome
<1> QED BY <1>1, <1>2, <1>5, <1>6 DEF Commands!Repeat, Commands!Answer, Outcomes

(* However requests, retries, expiries and crashes interleave, a client     *)
(* sees each command of execute happen at once and whole: its events, be    *)
(* they none, one or several, the row of its key and its answer are of one  *)
(* commit.                                                                  *)
THEOREM CommandsRefined == Spec => IdempotentSpec
<1>1. Init => Commands!Init
  <2> SUFFICES ASSUME Init PROVE Commands!Init
    OBVIOUS
  <2>1. \A r \in Requests : Outcome(r) = "none"
    BY DEF Init, Outcome
  <2> QED BY <2>1 DEF Init, Commands!Init
<1>2. KeyInv /\ EventsWhole /\ [Next]_vars => [Commands!Next]_(Commands!vars)
  <2> SUFFICES ASSUME KeyInv, EventsWhole, [Next]_vars PROVE [Commands!Next]_(Commands!vars)
    OBVIOUS
  <2>0. TypeOK
    BY DEF KeyInv
  <2>1. ASSUME NEW r \in Requests, Commit(r) \/ Replay(r) PROVE Commands!Next
    BY <2>1, CommitRefines, ReplayRefines DEF Commands!Next
  <2>2. ASSUME NEW r \in Requests, LookupMisses(r) \/ Begin(r) \/ Build(r) \/ Insert(r) \/ SaveIdempotency(r)
        PROVE  UNCHANGED Commands!vars
    <3>1. /\ UNCHANGED <<key, wants, answer, events>> /\ pc[r] \in {"new", "looked", "open", "insert"}
          /\ \E l \in {"looked", "open", "insert", "saved"} : pc' = [pc EXCEPT ![r] = l]
      BY <2>2 DEF LookupMisses, Begin, Build, Insert, SaveIdempotency, Handled, Goto
    <3>2. \A q \in Requests : Outcome(q)' = Outcome(q)
      BY <2>0, <3>1 DEF Outcome, TypeOK
    <3> QED BY <3>1, <3>2 DEF Commands!vars
  <2>3. ASSUME NEW r \in Requests, Refused(r) PROVE Commands!Next
    <3>1. /\ UNCHANGED <<key, wants, answer, events>> /\ pc[r] \in InTransaction
          /\ pc' = [pc EXCEPT ![r] = "failed"]
      BY <2>3, RefusedStep
    <3>2. \A q \in Requests : Outcome(q)' = IF q \in {r} THEN "refused" ELSE Outcome(q)
      BY <2>0, <3>1 DEF Outcome, TypeOK
    <3>3. Outcome(r) = "none"
      BY <3>1 DEF Outcome, InTransaction
    <3>4. Commands!Refuse({r})
      BY <3>1, <3>2, <3>3 DEF Commands!Refuse
    <3> QED BY <3>4 DEF Commands!Next
  <2>4. CASE Crash
    <3> DEFINE R == {r \in Requests : pc[r] \in InFlight}
    <3>1. /\ UNCHANGED <<key, wants, answer, events>>
          /\ pc' = [r \in Requests |-> IF pc[r] \in InFlight THEN "failed" ELSE pc[r]]
      BY <2>4 DEF Crash
    <3>2. \A q \in Requests : Outcome(q)' = IF q \in R THEN "refused" ELSE Outcome(q)
      BY <3>1 DEF Outcome
    <3>3. \A q \in R : Outcome(q) = "none"
      BY DEF Outcome, InFlight, InTransaction
    <3>4. Commands!Refuse(R)
      BY <3>1, <3>2, <3>3 DEF Commands!Refuse
    <3> QED BY <3>4 DEF Commands!Next
  <2>5. CASE (\E k \in Keys : Expire(k)) \/ UNCHANGED vars
    <3>1. UNCHANGED <<key, wants, pc, answer, events>>
      BY <2>5 DEF Expire, vars
    <3> QED BY <3>1 DEF Commands!vars, Outcome
  <2> QED BY <2>1, <2>2, <2>3, <2>4, <2>5 DEF Next, Advance, Refused
<1> QED BY <1>1, <1>2, KeyInvAlways, EventsAlways, PTL DEF Spec, IdempotentSpec, Commands!Spec
=============================================================================
