---------------------------- MODULE ClientImport ----------------------------
(***************************************************************************)
(* A batch of imported clients: executeImport and reverseBatch of          *)
(* ImportCommandService.  The batch is not a transaction.  Each row is a   *)
(* chain of commands of the party services (module PartyCommands), each    *)
(* with an idempotency key of its batch and row, and a run that died is    *)
(* run again from the first row.  Users go on changing the parties.        *)
(*                                                                         *)
(* The batch is validated and every row is to be created.                  *)
(***************************************************************************)
EXTENDS PartyCommands

CONSTANTS
  Importers,  \* runs of the import in progress at a time
  Located     \* the rows with a location

ASSUME ImportAssumption ==
  /\ Importers \subseteq Calls /\ Located \subseteq Rows
  /\ Kinds = {"party", "contact", "location", "reverseLocation", "reverseParty"}
  /\ Rows = 1..Cardinality(Rows)

VARIABLES
  batch,  \* its status
  refs,   \* refs[row]: the entities recorded as created for the row
  run,    \* run[i]: a run, its row and its next command or statement
  runs    \* runs that may still be started

importVars == <<batch, refs, run, runs>>
vars == <<partyVars, importVars>>

Users == Calls \ Importers
NoRefs == [party |-> 0, contact |-> 0, location |-> 0]
\* listed are the references a reversal read, made what an execution made for the row.
NoRun == [task |-> "none", row |-> 0, next |-> "none", made |-> NoRefs, listed |-> [r \in Rows |-> NoRefs]]
Steps == Kinds \union {"none", "reverseContact", "record", "finish"}

Init == \E s \in Scenarios :
  /\ PartyInit(s)
  /\ batch = "validated"
  /\ refs = [r \in Rows |-> NoRefs]
  /\ run = [i \in Importers |-> NoRun]
  /\ runs = s.runs

\* The first row from r on that has something to reverse, or the end.
ReverseFrom(listed, r) ==
  LET recorded == {s \in Rows : s >= r /\ listed[s].party # 0} IN
  IF recorded = {} THEN [row |-> 0, next |-> "finish"]
  ELSE LET s == CHOOSE s \in recorded : \A t \in recorded : s <= t IN
       [row |-> s, next |-> IF listed[s].location # 0 THEN "reverseLocation" ELSE "reverseContact"]
ExecuteFrom(r) == IF r \in Rows THEN [row |-> r, next |-> "party"] ELSE [row |-> 0, next |-> "finish"]

StartRun(i, m, at) ==
  /\ run[i] = NoRun
  /\ runs > 0
  /\ runs' = runs - 1
  /\ run' = [run EXCEPT ![i] = [m EXCEPT !.row = at.row, !.next = at.next]]
  /\ UNCHANGED <<partyVars, batch, refs>>
\* An imported batch is not executed again, a reversed one is refused.
StartExecute(i) ==
  /\ batch = "validated"
  /\ StartRun(i, [NoRun EXCEPT !.task = "execute"], ExecuteFrom(1))
StartReverse(i) ==
  /\ batch # "rolled_back"
  /\ StartRun(i, [NoRun EXCEPT !.task = "reverse", !.listed = refs], ReverseFrom(refs, 1))

-----------------------------------------------------------------------------

\* Plausible bug: the key names the batch but not the row.
KeyOfBatch(kind, r) == [kind |-> kind, row |-> 1]
\* Plausible bug: a reversal uses the keys its import used.
KeyOfEntity(kind, r) ==
  [kind |-> CASE kind = "reverseLocation" -> "location" [] kind = "reverseParty" -> "party"
              [] OTHER -> kind, row |-> r]
\* import-exec-party-<batch>-<row> and the like.
KeyOf(kind, r) == [kind |-> kind, row |-> r]

Command(m) ==
  LET k == [NoCall EXCEPT !.at = "lookup", !.key = KeyOf(m.next, m.row)] IN
  CASE m.next = "party" -> [k EXCEPT !.op = "CreateParty"]
    [] m.next = "contact" -> [k EXCEPT !.op = "UpdateContact", !.party = m.made.party]
    [] m.next = "location" -> [k EXCEPT !.op = "CreateLocation", !.party = m.made.party]
    [] m.next = "reverseLocation" ->
         [k EXCEPT !.op = "DeactivateLocation", !.location = m.listed[m.row].location]
    [] m.next = "reverseParty" ->
         [k EXCEPT !.op = "DeactivateParty", !.party = m.listed[m.row].party]

\* partyCommands.execute or locationCommands.execute
Issue(i) ==
  /\ run[i].next \in Kinds
  /\ call[i] = NoCall
  /\ call' = [call EXCEPT ![i] = Command(run[i])]
  /\ UNCHANGED <<rows, keys, expired, left, importVars>>

\* What follows once the command outstanding returned id.
After(m, id) ==
  CASE m.next = "party" -> [m EXCEPT !.next = "contact", !.made.party = id]
    [] m.next = "contact" ->
         [m EXCEPT !.next = IF m.row \in Located THEN "location" ELSE "record", !.made.contact = id]
    [] m.next = "location" -> [m EXCEPT !.next = "record", !.made.location = id]
    [] m.next = "reverseLocation" -> [m EXCEPT !.next = "reverseContact"]
    [] m.next = "reverseParty" ->
         LET at == ReverseFrom(m.listed, m.row + 1) IN [m EXCEPT !.row = at.row, !.next = at.next]

Continue(i) ==
  /\ call[i].at = "answered"
  /\ call' = [call EXCEPT ![i] = NoCall]
  /\ run' = [run EXCEPT ![i] = After(@, call[i].result)]
  /\ UNCHANGED <<rows, keys, expired, left, batch, refs, runs>>

\* updateRowEntityRefs
Record(i) == LET m == run[i] IN
  /\ m.next = "record"
  /\ refs' = [refs EXCEPT ![m.row] = m.made]
  /\ run' = [run EXCEPT ![i] = [m EXCEPT !.row = ExecuteFrom(m.row + 1).row,
                                 !.next = ExecuteFrom(m.row + 1).next, !.made = NoRefs]]
  /\ UNCHANGED <<partyVars, batch, runs>>

\* deactivateContactInOrg: a statement of its own, without a check or a key.
ReverseContact(i) == LET m == run[i] IN
  /\ m.next = "reverseContact"
  /\ contacts' = [contacts EXCEPT ![m.listed[m.row].contact].active = FALSE]
  /\ run' = [run EXCEPT ![i].next = "reverseParty"]
  /\ UNCHANGED <<parties, locations, requests, ahead, keys, expired, call, left, batch, refs, runs>>

\* updateBatch names the batch by its id, whatever its status is by now.
Finish(i) ==
  /\ run[i].next = "finish"
  /\ batch' = IF run[i].task = "execute" THEN "imported" ELSE "rolled_back"
  /\ run' = [run EXCEPT ![i] = NoRun]
  /\ UNCHANGED <<partyVars, refs, runs>>

\* A command of it was refused, or the process died; what was committed stays.
Die(i) ==
  /\ run[i] # NoRun
  /\ run' = [run EXCEPT ![i] = NoRun]
  /\ call' = [call EXCEPT ![i] = NoCall]
  /\ UNCHANGED <<rows, keys, expired, left, batch, refs, runs>>

Next ==
  \/ \E c \in Users : (Start(c) \/ Fail(c)) /\ UNCHANGED importVars
  \/ \E c \in Calls : Execute(c) /\ UNCHANGED importVars
  \/ Expire /\ UNCHANGED importVars
  \/ \E i \in Importers :
       \/ StartExecute(i) \/ StartReverse(i) \/ Issue(i) \/ Continue(i)
       \/ Record(i) \/ ReverseContact(i) \/ Finish(i) \/ Die(i)

Spec == Init /\ [][Next]_vars

-----------------------------------------------------------------------------
(* Properties.                                                             *)

Refs == [party : 0..Len(parties), contact : 0..Len(contacts), location : 0..Len(locations)]
\* References are to rows that exist; a run that has not begun or has ended holds nothing.
TypeOK ==
  /\ PartyTypeOK
  /\ batch \in {"validated", "imported", "rolled_back"}
  /\ \A r \in Rows : refs[r] \in Refs
  /\ \A i \in Importers :
       /\ run[i].task \in {"none", "execute", "reverse"}
       /\ run[i].row \in Rows \union {0} /\ run[i].next \in Steps
       /\ run[i].made \in Refs
       /\ \A r \in Rows : run[i].listed[r] \in Refs
  /\ runs \in Nat

MadeFor(made, r) == {n \in DOMAIN made : made[n].row = r}
(* However often a batch is run, by however many at a time, and whenever   *)
(* its keys expire, a row makes one party, one contact and one location.   *)
OneEntityPerRow ==
  \A r \in Rows :
    /\ Cardinality(MadeFor(parties, r)) <= 1
    /\ Cardinality(MadeFor(contacts, r)) <= 1
    /\ Cardinality(MadeFor(locations, r)) <= 1

(* Once a run has finished the import, every row names the entities that   *)
(* were made for it, and its location is a location of its party.          *)
ImportedComplete ==
  batch = "imported" => \A r \in Rows :
    /\ MadeFor(parties, r) = {refs[r].party}
    /\ MadeFor(contacts, r) = {refs[r].contact}
    /\ MadeFor(locations, r) = IF r \in Located THEN {refs[r].location} ELSE {}
    /\ r \in Located => locations[refs[r].location].of = refs[r].party

(* A reversal about to finish has deactivated every contact and location   *)
(* the rows it read had recorded, or an earlier reversal that died has.    *)
ReversalDone ==
  \A i \in Importers : run[i].task = "reverse" /\ run[i].next = "finish" =>
    \A r \in Rows : run[i].listed[r].party # 0 =>
      /\ ~contacts[run[i].listed[r].contact].active
      /\ run[i].listed[r].location # 0 => ~locations[run[i].listed[r].location].active
=============================================================================
