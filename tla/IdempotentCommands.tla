------------------------- MODULE IdempotentCommands -------------------------
(***************************************************************************)
(* What idempotency keys promise to a client, with no tables, transactions *)
(* or expiry: of the requests sent with one key one takes effect, once and *)
(* as a whole, the others are given its result or an error, and an answer  *)
(* is final.  A request without a key takes effect for itself.             *)
(***************************************************************************)
EXTENDS Integers

CONSTANTS Requests, Keys, NoKey, Nobody, MaxEvents

VARIABLES
  key,      \* key[r]: the key request r was sent with
  wants,    \* wants[r]: how many events the handler of r records
  outcome,  \* outcome[r]: "none", "done", "repeated", "refused"
  result,   \* result[r]: the request whose result r was given
  effects   \* effects[r]: the events of r that are recorded, by position

vars == <<key, wants, outcome, result, effects>>

Init ==
  /\ key \in [Requests -> Keys \union {NoKey}]
  /\ wants \in [Requests -> 0..MaxEvents]
  /\ outcome = [r \in Requests |-> "none"]
  /\ result = [r \in Requests |-> Nobody]
  /\ effects = [r \in Requests |-> {}]

First(k) == {r \in Requests : k # NoKey /\ key[r] = k /\ outcome[r] = "done"}

Answer(r, how, q) ==
  /\ outcome[r] = "none"
  /\ outcome' = [outcome EXCEPT ![r] = how]
  /\ result' = [result EXCEPT ![r] = q]
  /\ UNCHANGED <<key, wants>>

TakeEffect(r) ==
  /\ First(key[r]) = {}
  /\ Answer(r, "done", r)
  /\ effects' = [effects EXCEPT ![r] = 1..wants[r]]

Repeat(r) ==
  /\ \E q \in First(key[r]) : Answer(r, "repeated", q)
  /\ UNCHANGED effects

\* An error, or the process dies under several.
Refuse(R) ==
  /\ \A r \in R : outcome[r] = "none"
  /\ outcome' = [r \in Requests |-> IF r \in R THEN "refused" ELSE outcome[r]]
  /\ UNCHANGED <<key, wants, result, effects>>

Next ==
  \/ \E r \in Requests : TakeEffect(r) \/ Repeat(r)
  \/ \E R \in SUBSET Requests : Refuse(R)

Spec == Init /\ [][Next]_vars
=============================================================================
