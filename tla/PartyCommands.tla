---------------------------- MODULE PartyCommands ----------------------------
(***************************************************************************)
(* Parties of one organization with their contacts, locations, commercial  *)
(* accounts and merge requests: PartyCommandService and                    *)
(* LocationCommandService over PrismaOsPartyStore.                         *)
(*                                                                         *)
(* A command looks its idempotency key up, then runs a READ COMMITTED      *)
(* transaction: each statement reads what is committed when it runs.  The  *)
(* updates, the key row and the commit are one step, because the first     *)
(* update locks its row until the commit.  Rows are numbered in the order  *)
(* they are inserted; number 0 is no row.  Any refusal is Fail.            *)
(***************************************************************************)
EXTENDS Naturals, Sequences, FiniteSets

CONSTANTS
  Calls,        \* commands in progress at a time
  Scenarios,    \* [parties, asked, commands, runs]: the parties there are at the start, the merge
                \* requests pending then, and bounds on the commands and the imports started
  Foreseen,     \* bound on how far the version a client names may be ahead of the row's
  Kinds,        \* what an idempotency key is for
  Rows          \* the import rows keys are about

ASSUME PartyAssumption ==
  /\ IsFiniteSet(Calls) /\ Rows \subseteq Nat \ {0} /\ IsFiniteSet(Rows) /\ Foreseen \in Nat
  /\ \A s \in Scenarios :
       /\ s.parties \in Nat /\ s.commands \in Nat /\ s.runs \in Nat
       /\ s.asked \in Seq([status : {"pending"}, source : 1..s.parties, target : 1..s.parties])
       /\ \A r \in DOMAIN s.asked : s.asked[r].source # s.asked[r].target

VARIABLES
  \* committed rows; row is the import row an entity was made for, 0 if none
  parties,    \* parties[p]: [status, into, version, account, row]
  contacts,   \* contacts[k]: [of, active, row]
  locations,  \* locations[l]: [of, active, row]
  requests,   \* requests[r]: [status, source, target]
  keys,       \* idempotency keys: [kind, row, result], in the order they were saved
  expired,    \* how many of them have expired
  call,       \* call[c]: the command in progress
  left,       \* commands users may still start
  ahead       \* an observer: the parties updated under a version they did not have yet
              \* when the update read them

rows == <<parties, contacts, locations, requests, ahead>>
partyVars == <<rows, keys, expired, call, left>>

NoKey == [kind |-> "none", row |-> 0]
\* party and target are parties (of a merge: source and target), version is the
\* one read, expected the client's; sourceHas and targetHas are the accounts read.
NoCall == [op |-> "none", at |-> "idle", key |-> NoKey, party |-> 0, target |-> 0, request |-> 0,
           location |-> 0, version |-> 0, expected |-> 0, sourceHas |-> FALSE, targetHas |-> FALSE,
           result |-> 0]

OfParty == {"UpdateParty", "DeactivateParty", "ReactivateParty", "AssignPartyRole",
            "UpdateContact", "CreateLocation"}
Decisions == {"ApprovePartyMerge", "RejectPartyMerge"}
Ops == OfParty \union Decisions \union {"CreateParty", "RequestPartyMerge", "DeactivateLocation"}
Statements == {"idle", "lookup", "request", "party", "target", "account", "targetAccount",
               "location", "commit", "answered"}

\* The first party is a customer.
PartyInit(s) ==
  /\ parties = [p \in 1..s.parties |-> [status |-> "active", into |-> 0, version |-> 0,
                                        account |-> p = 1, row |-> 0]]
  /\ contacts = <<>> /\ locations = <<>>
  /\ requests = s.asked /\ ahead = {}
  /\ keys = <<>> /\ expired = 0
  /\ call = [c \in Calls |-> NoCall]
  /\ left = s.commands

-----------------------------------------------------------------------------
(* A command arrives.                                                      *)

\* The first statement of a command after the lookup of its key.
First(o) ==
  CASE o = "CreateParty" -> "commit"
    [] o \in Decisions -> "request"
    [] o = "DeactivateLocation" -> "location"
    [] OTHER -> "party"

Begin(c, k) ==
  /\ call[c] = NoCall
  /\ left > 0
  /\ left' = left - 1
  /\ call' = [call EXCEPT ![c] = [k EXCEPT !.at = First(k.op)]]
  /\ UNCHANGED <<rows, keys, expired>>

StartCreate(c) == Begin(c, [NoCall EXCEPT !.op = "CreateParty"])
\* UpdateParty names a version, which need not be one that the party ever had.
StartOnParty(c) == \E o \in OfParty, p \in DOMAIN parties :
                     \E v \in 0..parties[p].version + Foreseen :
  /\ o # "UpdateParty" => v = 0
  /\ Begin(c, [NoCall EXCEPT !.op = o, !.party = p, !.expected = v])
StartRequest(c) == \E p, q \in DOMAIN parties :
  /\ p # q
  /\ Begin(c, [NoCall EXCEPT !.op = "RequestPartyMerge", !.party = p, !.target = q])
StartDecide(c) == \E o \in Decisions, r \in DOMAIN requests :
  Begin(c, [NoCall EXCEPT !.op = o, !.request = r])
StartOnLocation(c) == \E l \in DOMAIN locations :
  Begin(c, [NoCall EXCEPT !.op = "DeactivateLocation", !.location = l])

-----------------------------------------------------------------------------
(* The key and the reads.                                                  *)

Proceed(c, k) ==
  /\ call' = [call EXCEPT ![c] = k]
  /\ UNCHANGED <<rows, keys, expired, left>>

Named(n, key) == keys[n].kind = key.kind /\ keys[n].row = key.row

\* findIdempotency sees the keys that have not expired.
Lookup(c) ==
  LET found == {n \in expired + 1..Len(keys) : Named(n, call[c].key)} IN
  /\ call[c].at = "lookup"
  /\ IF found = {}
     THEN Proceed(c, [call[c] EXCEPT !.at = First(call[c].op)])
     ELSE \E n \in found : Proceed(c, [call[c] EXCEPT !.at = "answered", !.result = keys[n].result])

\* Plausible bug: a party that was merged away is taken for an inactive one.
RequireParty(p) == TRUE
\* requireActiveParty of the party service, and the check of reactivateParty: inactive will do.
RequireActiveParty(p) == parties[p].status # "merged"

ReadRequest(c) == LET r == requests[call[c].request] IN
  /\ call[c].at = "request"
  /\ r.status = "pending"
  /\ Proceed(c, [call[c] EXCEPT !.party = r.source, !.target = r.target,
                   !.at = IF call[c].op = "ApprovePartyMerge" THEN "party" ELSE "commit"])

ReadParty(c) == LET p == call[c].party IN
  /\ call[c].at = "party"
  /\ RequireActiveParty(p)
  /\ call[c].op = "CreateLocation" => parties[p].status = "active"
  /\ Proceed(c, [call[c] EXCEPT !.version = parties[p].version,
                   !.at = CASE call[c].op = "AssignPartyRole" -> "account"
                            [] call[c].op \in {"RequestPartyMerge", "ApprovePartyMerge"} -> "target"
                            [] OTHER -> "commit"])

ReadTarget(c) ==
  /\ call[c].at = "target"
  /\ RequireActiveParty(call[c].target)
  /\ Proceed(c, [call[c] EXCEPT !.at = IF call[c].op = "ApprovePartyMerge" THEN "account" ELSE "commit"])

\* getCommercialAccountForParty, of the party itself and of the target of a merge.
ReadAccount(c) ==
  /\ call[c].at = "account"
  /\ Proceed(c, [call[c] EXCEPT !.sourceHas = parties[call[c].party].account,
                   !.at = IF call[c].op = "ApprovePartyMerge" THEN "targetAccount" ELSE "commit"])
ReadTargetAccount(c) == LET has == parties[call[c].target].account IN
  /\ call[c].at = "targetAccount"
  /\ ~(call[c].sourceHas /\ has)
  /\ Proceed(c, [call[c] EXCEPT !.targetHas = has, !.at = "commit"])

ReadLocation(c) ==
  /\ call[c].at = "location"
  /\ locations[call[c].location].active
  /\ Proceed(c, [call[c] EXCEPT !.at = "commit"])

-----------------------------------------------------------------------------
(* The updates, the idempotency key and the commit.                        *)

At(c, o) == call[c].at = "commit" /\ call[c].op = o

\* Plausible bug: an expired key makes way for a new one.
KeyReplaced(key) == \A n \in expired + 1..Len(keys) : ~Named(n, key)
\* saveIdempotency inserts: (organizationId, key) is unique, expired or not.
KeyUnused(key) == \A n \in DOMAIN keys : ~Named(n, key)

\* The command returns; with a key, the key is saved in the same transaction.
Return(c, result) ==
  LET key == call[c].key IN
  /\ UNCHANGED <<expired, left>>
  /\ IF key = NoKey
     THEN keys' = keys /\ call' = [call EXCEPT ![c] = NoCall]
     ELSE /\ KeyUnused(key)
          /\ keys' = Append(keys, [kind |-> key.kind, row |-> key.row, result |-> result])
          /\ call' = [call EXCEPT ![c].at = "answered", ![c].result = result]

\* Plausible bug: the row is updated whatever its version.
VersionIgnored(c) == TRUE
\* where: { id, version: expectedVersion }
VersionHolds(c) ==
  parties[call[c].party].version = IF call[c].op = "UpdateParty" THEN call[c].expected
                                   ELSE call[c].version

\* A key of the import stands for a customer, which comes with an account.
CreateParty(c) == \E customer \in BOOLEAN :
  /\ At(c, "CreateParty")
  /\ call[c].key # NoKey => customer
  /\ parties' = Append(parties, [status |-> "active", into |-> 0, version |-> 0,
                                 account |-> customer, row |-> call[c].key.row])
  /\ Return(c, Len(parties) + 1)
  /\ UNCHANGED <<contacts, locations, requests, ahead>>

\* UpdateParty changes names only; a deactivation and a reactivation the status.
NewStatus(o, status) ==
  CASE o = "DeactivateParty" -> "inactive"
    [] o = "ReactivateParty" -> "active"
    [] OTHER -> status
\* The version written follows the one read, whatever version the row was found by.
UpdateParty(c) == LET p == call[c].party IN \E o \in {"UpdateParty", "DeactivateParty", "ReactivateParty"} :
  /\ At(c, o)
  /\ VersionHolds(c)
  /\ parties' = [parties EXCEPT ![p].status = NewStatus(o, @), ![p].version = call[c].version + 1]
  /\ ahead' = IF o = "UpdateParty" /\ call[c].expected # call[c].version THEN ahead \union {p} ELSE ahead
  /\ Return(c, p)
  /\ UNCHANGED <<contacts, locations, requests>>

\* AssignPartyRole with the role customer; (organizationId, partyId) is unique among accounts.
AssignPartyRole(c) == LET p == call[c].party IN
  /\ At(c, "AssignPartyRole")
  /\ call[c].sourceHas \/ ~parties[p].account
  /\ parties' = IF call[c].sourceHas THEN parties ELSE [parties EXCEPT ![p].account = TRUE]
  /\ Return(c, p)
  /\ UNCHANGED <<contacts, locations, requests, ahead>>

\* UpdateContact without a contactId inserts one; with one it changes data only.
UpdateContact(c) ==
  /\ At(c, "UpdateContact")
  /\ contacts' = Append(contacts, [of |-> call[c].party, active |-> TRUE, row |-> call[c].key.row])
  /\ Return(c, Len(contacts) + 1)
  /\ UNCHANGED <<parties, locations, requests, ahead>>

CreateLocation(c) ==
  /\ At(c, "CreateLocation")
  /\ locations' = Append(locations, [of |-> call[c].party, active |-> TRUE, row |-> call[c].key.row])
  /\ Return(c, Len(locations) + 1)
  /\ UNCHANGED <<parties, contacts, requests, ahead>>

\* The version of a location is the one read as long as nobody else deactivated it.
DeactivateLocation(c) == LET l == call[c].location IN
  /\ At(c, "DeactivateLocation")
  /\ locations[l].active
  /\ locations' = [locations EXCEPT ![l].active = FALSE]
  /\ Return(c, l)
  /\ UNCHANGED <<parties, contacts, requests, ahead>>

RequestPartyMerge(c) ==
  /\ At(c, "RequestPartyMerge")
  /\ requests' = Append(requests, [status |-> "pending", source |-> call[c].party, target |-> call[c].target])
  /\ Return(c, Len(requests) + 1)
  /\ UNCHANGED <<parties, contacts, locations, ahead>>

\* The account moves if the source had one when it was read and has it still;
\* that the target got one meanwhile is refused by the unique index.
ApprovePartyMerge(c) ==
  LET p == call[c].party
      q == call[c].target
      moves == call[c].sourceHas /\ ~call[c].targetHas /\ parties[p].account IN
  /\ At(c, "ApprovePartyMerge")
  /\ VersionHolds(c)
  /\ ~(moves /\ parties[q].account)
  /\ parties' = [[parties EXCEPT
       ![p] = [parties[p] EXCEPT !.status = "merged", !.into = q, !.version = call[c].version + 1,
                        !.account = @ /\ ~moves]] EXCEPT
       ![q].account = @ \/ moves]
  /\ contacts' = [k \in DOMAIN contacts |->
                    IF contacts[k].of = p THEN [contacts[k] EXCEPT !.of = q] ELSE contacts[k]]
  /\ requests' = [requests EXCEPT ![call[c].request].status = "approved"]
  /\ Return(c, q)
  /\ UNCHANGED <<locations, ahead>>

\* updateMergeRequest names the request by its id alone.
RejectPartyMerge(c) ==
  /\ At(c, "RejectPartyMerge")
  /\ requests' = [requests EXCEPT ![call[c].request].status = "rejected"]
  /\ Return(c, call[c].request)
  /\ UNCHANGED <<parties, contacts, locations, ahead>>

\* A refusal, a version or a unique index that does not hold, a crash: rolled back.
Fail(c) ==
  /\ call[c] # NoCall
  /\ Proceed(c, NoCall)

-----------------------------------------------------------------------------

Start(c) ==
  \/ StartCreate(c) \/ StartOnParty(c) \/ StartRequest(c)
  \/ StartDecide(c) \/ StartOnLocation(c)
Execute(c) ==
  \/ Lookup(c) \/ ReadRequest(c) \/ ReadParty(c) \/ ReadTarget(c)
  \/ ReadAccount(c) \/ ReadTargetAccount(c) \/ ReadLocation(c)
  \/ CreateParty(c) \/ UpdateParty(c) \/ AssignPartyRole(c) \/ UpdateContact(c)
  \/ CreateLocation(c) \/ DeactivateLocation(c)
  \/ RequestPartyMerge(c) \/ ApprovePartyMerge(c) \/ RejectPartyMerge(c)
\* A day after a key was saved it is no longer found.
Expire ==
  /\ expired < Len(keys)
  /\ expired' = expired + 1
  /\ UNCHANGED <<rows, keys, call, left>>

-----------------------------------------------------------------------------
(* Properties.                                                             *)

\* Rows refer to rows that exist; a merged party points to another, and only a merged one
\* does unless it was updated ahead of its version.
PartyTypeOK ==
  /\ \A p \in DOMAIN parties :
       /\ parties[p] \in [status : {"active", "inactive", "merged"}, into : 0..Len(parties),
                          version : Nat, account : BOOLEAN, row : Rows \union {0}]
       /\ parties[p].status = "merged" => parties[p].into # 0
       /\ parties[p].into # 0 => parties[p].status = "merged" \/ p \in ahead
  /\ ahead \subseteq DOMAIN parties
  /\ \A k \in DOMAIN contacts :
       contacts[k] \in [of : DOMAIN parties, active : BOOLEAN, row : Rows \union {0}]
  /\ \A l \in DOMAIN locations :
       locations[l] \in [of : DOMAIN parties, active : BOOLEAN, row : Rows \union {0}]
  /\ \A r \in DOMAIN requests :
       requests[r] \in [status : {"pending", "approved", "rejected"},
                       source : DOMAIN parties, target : DOMAIN parties]
  /\ \A n \in DOMAIN keys : keys[n] \in [kind : Kinds, row : Rows, result : Nat]
  /\ expired \in 0..Len(keys)
  /\ left \in Nat
  /\ call \in [Calls -> [op : Ops \union {"none"}, at : Statements,
                        key : [kind : Kinds \union {"none"}, row : Rows \union {0}],
                        party : 0..Len(parties), target : 0..Len(parties),
                        request : 0..Len(requests), location : 0..Len(locations),
                        version : Nat, expected : Nat, sourceHas : BOOLEAN, targetHas : BOOLEAN,
                        result : Nat]]

(* An approved request was carried out: its source is merged into its      *)
(* target, also when two requests for one source are approved at a time.   *)
(* The version of the source is what keeps them apart, so it holds of the  *)
(* parties whose version never fell back: UpdateParty writes the version   *)
(* after the one it read, and a client that names a later one makes the    *)
(* row return to a version that it has had (updateParty).                  *)
ApprovedIsMerged ==
  \A r \in DOMAIN requests :
    requests[r].status = "approved" /\ requests[r].source \notin ahead =>
      /\ parties[requests[r].source].status = "merged"
      /\ parties[requests[r].source].into = requests[r].target

(* A merged party stays as it is: no update, deactivation, reactivation or *)
(* second merge that read it before the merge changes its status or target *)
(* (where: { id, version: expectedVersion }), as long as no client named a *)
(* version that the party did not have yet.                                *)
MergedIsFinal ==
  [][\A p \in DOMAIN parties \ ahead' : parties[p].status = "merged" =>
       /\ parties'[p].status = "merged"
       /\ parties'[p].into = parties[p].into]_partyVars
=============================================================================
