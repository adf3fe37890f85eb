------------------------- MODULE ClientImportProofs -------------------------
(***************************************************************************)
(* Proofs about ClientImport and the commands of PartyCommands, for any    *)
(* number of parties, rows, calls, runs and expirations.                   *)
(*                                                                         *)
(* A saved key is a fact that stays: what it says was made or undone       *)
(* (Meaning) is so from then on, whatever is committed later (Later).      *)
(* Commands and runs rely on such facts and on the versions they read      *)
(* (Fit, RunFit), so none of them loses what it knows when another         *)
(* commits.                                                                *)
(***************************************************************************)
EXTENDS ClientImport, TLAPS, SequenceTheorems, FiniteSetTheorems, WellFoundedInduction

PartyRows == [status : {"active", "inactive", "merged"}, into : Nat, version : Nat,
              account : BOOLEAN, row : Rows \union {0}]
EntityRows == [of : Nat, active : BOOLEAN, row : Rows \union {0}]
RequestRows == [status : {"pending", "approved", "rejected"}, source : Nat, target : Nat]
KeyRows == [kind : Kinds, row : Rows, result : Nat]
CallRows == [op : Ops \union {"none"}, at : Statements,
             key : [kind : Kinds \union {"none"}, row : Rows \union {0}],
             party : Nat, target : Nat, request : Nat, location : Nat,
             version : Nat, expected : Nat, sourceHas : BOOLEAN, targetHas : BOOLEAN, result : Nat]
RefRows == [party : Nat, contact : Nat, location : Nat]
RunRows == [task : {"none", "execute", "reverse"}, row : Rows \union {0}, next : Steps,
            made : RefRows, listed : [Rows -> RefRows]]

RowsTyped ==
  /\ parties \in Seq(PartyRows) /\ contacts \in Seq(EntityRows) /\ locations \in Seq(EntityRows)
  /\ requests \in Seq(RequestRows) /\ keys \in Seq(KeyRows)
  /\ expired \in Nat /\ expired <= Len(keys) /\ left \in Nat
Referred ==
  /\ \A p \in DOMAIN parties : /\ parties[p].into \in {0} \union DOMAIN parties
                               /\ parties[p].status = "merged" => parties[p].into # 0
                               /\ parties[p].into # 0 => parties[p].status = "merged" \/ p \in ahead
  /\ ahead \subseteq DOMAIN parties
  /\ \A k \in DOMAIN contacts : contacts[k].of \in DOMAIN parties
  /\ \A l \in DOMAIN locations : locations[l].of \in DOMAIN parties
  /\ \A r \in DOMAIN requests : requests[r].source \in DOMAIN parties /\ requests[r].target \in DOMAIN parties

\* A key of this kind and row was saved with the result x, and means what it says.
Saved(kind, r, x) == \E n \in DOMAIN keys : keys[n] = [kind |-> kind, row |-> r, result |-> x]
Meaning(kind, r, x) ==
  /\ kind = "party" => x \in DOMAIN parties /\ parties[x].row = r
  /\ kind = "contact" => x \in DOMAIN contacts /\ contacts[x].row = r
  /\ kind = "location" => /\ r \in Located /\ x \in DOMAIN locations /\ locations[x].row = r
                          /\ Saved("party", r, locations[x].of)
  /\ kind = "reverseLocation" => /\ x \in DOMAIN locations /\ ~locations[x].active
                                 /\ Saved("location", r, x)
KeysMean == \A n \in DOMAIN keys : Meaning(keys[n].kind, keys[n].row, keys[n].result)
KeysUnique == \A m, n \in DOMAIN keys : keys[m].kind = keys[n].kind /\ keys[m].row = keys[n].row => m = n

\* What was made for a row has the key that says so.
MadeKeyed ==
  /\ \A p \in DOMAIN parties : parties[p].row # 0 => Saved("party", parties[p].row, p)
  /\ \A k \in DOMAIN contacts : contacts[k].row # 0 => Saved("contact", contacts[k].row, k)
  /\ \A l \in DOMAIN locations : locations[l].row # 0 => Saved("location", locations[l].row, l)

-----------------------------------------------------------------------------
(* What a command in progress knows.                                       *)

Versioned == {"UpdateParty", "DeactivateParty", "ReactivateParty", "ApprovePartyMerge"}
AfterRead == {"target", "account", "targetAccount", "commit"}

\* The statements each command goes through.
Stage(k) ==
  /\ k.at # "idle" => k.op \in Ops
  /\ k.at = "request" => k.op \in Decisions
  /\ k.at = "party" => k.op \in OfParty \union {"RequestPartyMerge", "ApprovePartyMerge"}
  /\ k.at = "target" => k.op \in {"RequestPartyMerge", "ApprovePartyMerge"}
  /\ k.at = "account" => k.op \in {"AssignPartyRole", "ApprovePartyMerge"}
  /\ k.at = "targetAccount" => k.op = "ApprovePartyMerge"
  /\ k.at = "location" => k.op = "DeactivateLocation"
\* The rows it is about exist; a decision is about the parties of its request.
Subject(k) ==
  /\ k.party \in {0} \union DOMAIN parties /\ k.target \in {0} \union DOMAIN parties
  /\ k.request \in {0} \union DOMAIN requests /\ k.location \in {0} \union DOMAIN locations
  /\ k.op \in OfParty \union {"RequestPartyMerge"} => k.party # 0
  /\ k.op = "RequestPartyMerge" => k.target # 0
  /\ k.op = "DeactivateLocation" => k.location # 0
  /\ k.op \in Decisions => /\ k.request # 0
                           /\ k.at \in AfterRead \union {"party"} => /\ k.party = requests[k.request].source
                                                                     /\ k.target = requests[k.request].target
\* While the party has the version that was read, it is not merged, unless its version fell back.
Fresh(k) ==
  k.op \in Versioned /\ k.at \in AfterRead /\ k.party \notin ahead =>
    /\ k.version <= parties[k.party].version
    /\ k.version = parties[k.party].version => parties[k.party].status # "merged"
KeyFit(k) ==
  /\ k.key # NoKey =>
       /\ k.key.kind \in Kinds /\ k.key.row \in Rows
       /\ k.key.kind = "party" <=> k.op = "CreateParty"
       /\ k.key.kind = "contact" <=> k.op = "UpdateContact"
       /\ k.key.kind = "location" <=> k.op = "CreateLocation"
       /\ k.key.kind = "reverseLocation" <=> k.op = "DeactivateLocation"
       /\ k.key.kind = "location" => k.key.row \in Located /\ Saved("party", k.key.row, k.party)
       /\ k.key.kind = "reverseLocation" => Saved("location", k.key.row, k.location)
  /\ k.at = "answered" => k.key # NoKey /\ Saved(k.key.kind, k.key.row, k.result)
Fit(k) == k \in CallRows /\ Stage(k) /\ Subject(k) /\ Fresh(k) /\ KeyFit(k)
CallsFit == call \in [Calls -> CallRows] /\ \A c \in Calls : Fit(call[c])

PartyInv == /\ RowsTyped /\ Referred /\ KeysMean /\ KeysUnique /\ MadeKeyed /\ CallsFit
            /\ ApprovedIsMerged

-----------------------------------------------------------------------------
(* What a run knows.                                                       *)

\* e names nothing, or what was made for row r.
Entities(r, e) ==
  \/ e = NoRefs
  \/ /\ Saved("party", r, e.party) /\ Saved("contact", r, e.contact)
     /\ IF r \in Located THEN Saved("location", r, e.location) ELSE e.location = 0
Gone(e) == LET l == e.location IN l # 0 => l \in DOMAIN locations /\ ~locations[l].active
Left(e) == e.contact \in DOMAIN contacts /\ ~contacts[e.contact].active
Before(m) == {r \in Rows : r < m.row \/ m.next = "finish"}

ExecuteFit(m) ==
  /\ m.next \in {"party", "contact", "location", "record", "finish"}
  /\ \A r \in Rows : m.listed[r] = NoRefs
  /\ m.next \in {"party", "finish"} => m.made = NoRefs
  /\ m.next \in {"contact", "location", "record"} => Saved("party", m.row, m.made.party)
  /\ m.next = "contact" => m.made.contact = 0 /\ m.made.location = 0
  /\ m.next \in {"location", "record"} => Saved("contact", m.row, m.made.contact)
  /\ m.next = "location" => m.row \in Located /\ m.made.location = 0
  /\ m.next = "record" => IF m.row \in Located THEN Saved("location", m.row, m.made.location)
                          ELSE m.made.location = 0
  /\ \A r \in Before(m) : refs[r] # NoRefs
ReverseFit(m) ==
  /\ m.next \in {"reverseLocation", "reverseContact", "reverseParty", "finish"}
  /\ m.made = NoRefs
  /\ \A r \in Rows : Entities(r, m.listed[r])
  /\ m.next # "finish" => m.listed[m.row].party # 0
  /\ m.next = "reverseLocation" => m.listed[m.row].location # 0
  /\ m.next \in {"reverseContact", "reverseParty"} => Gone(m.listed[m.row])
  /\ m.next = "reverseParty" => Left(m.listed[m.row])
  /\ \A r \in Before(m) : m.listed[r].party # 0 => Gone(m.listed[r]) /\ Left(m.listed[r])
RunFit(m) ==
  /\ m \in RunRows
  /\ m.task = "none" => m = NoRun
  /\ m.next \notin {"none", "finish"} => m.row \in Rows
  /\ m.task = "execute" => ExecuteFit(m)
  /\ m.task = "reverse" => ReverseFit(m)

RunsFit == run \in [Importers -> RunRows] /\ \A i \in Importers : RunFit(run[i])
\* The command of a run is the one its key names.
Issued == \A i \in Importers : call[i] # NoCall =>
  run[i].next \in Kinds /\ call[i].key = KeyOf(run[i].next, run[i].row)
RefsFit == refs \in [Rows -> RefRows] /\ \A r \in Rows : Entities(r, refs[r])
BatchFit == /\ batch \in {"validated", "imported", "rolled_back"} /\ runs \in Nat
            /\ batch = "imported" => \A r \in Rows : refs[r] # NoRefs

ImportInv == RunsFit /\ Issued /\ RefsFit /\ BatchFit
IInv == PartyInv /\ ImportInv

-----------------------------------------------------------------------------
(* What no commit takes back; of the status and the version, as long as no *)
(* update named a version that the party did not have yet.                 *)

RowsLater ==
  /\ ahead \subseteq ahead'
  /\ DOMAIN parties \subseteq DOMAIN parties' /\ DOMAIN contacts \subseteq DOMAIN contacts'
  /\ DOMAIN locations \subseteq DOMAIN locations' /\ DOMAIN requests \subseteq DOMAIN requests'
  /\ \A p \in DOMAIN parties : parties'[p].row = parties[p].row
  /\ \A p \in DOMAIN parties \ ahead' :
       /\ parties'[p].version >= parties[p].version
       /\ parties'[p].version = parties[p].version => parties'[p].status = parties[p].status
       /\ parties[p].status = "merged" => parties'[p].status = "merged" /\ parties'[p].into = parties[p].into
  /\ \A k \in DOMAIN contacts : /\ contacts'[k].row = contacts[k].row
                                /\ ~contacts[k].active => ~contacts'[k].active
  /\ \A l \in DOMAIN locations : /\ locations'[l].row = locations[l].row /\ locations'[l].of = locations[l].of
                                 /\ ~locations[l].active => ~locations'[l].active
  /\ \A r \in DOMAIN requests : /\ requests'[r].source = requests[r].source
                                /\ requests'[r].target = requests[r].target
KeysLater == DOMAIN keys \subseteq DOMAIN keys' /\ \A n \in DOMAIN keys : keys'[n] = keys[n]
Later == RowsLater /\ KeysLater

LEMMA Replaced ==
  ASSUME NEW S, NEW s \in Seq(S), NEW F \in [DOMAIN s -> S]
  PROVE  F \in Seq(S) /\ Len(F) = Len(s) /\ DOMAIN F = DOMAIN s
<1>1. Len(s) \in Nat /\ DOMAIN s = 1..Len(s)
  BY LenProperties
<1>2. F \in [1..Len(s) -> S]
  BY <1>1
<1>3. F \in Seq(S)
  BY <1>1, <1>2, SeqDef
<1>4. DOMAIN F = 1..Len(F) /\ Len(F) \in Nat /\ DOMAIN F = 1..Len(s)
  BY <1>2, <1>3, LenProperties
<1>5. Len(F) = Len(s)
  BY <1>1, <1>4
<1> QED BY <1>1, <1>3, <1>4, <1>5

LEMMA Appended ==
  ASSUME NEW S, NEW s \in Seq(S), NEW x \in S, NEW t, t = Append(s, x)
  PROVE  /\ t \in Seq(S) /\ Len(t) = Len(s) + 1 /\ Len(s) + 1 \in Nat \ {0}
         /\ DOMAIN t = DOMAIN s \union {Len(s) + 1} /\ Len(s) + 1 \notin DOMAIN s
         /\ \A i \in DOMAIN s : t[i] = s[i]
         /\ t[Len(s) + 1] = x
<1>1. Len(s) \in Nat /\ DOMAIN s = 1..Len(s)
  BY LenProperties
<1>2. t \in Seq(S) /\ Len(t) = Len(s) + 1
  BY AppendProperties
<1>3. DOMAIN t = 1..Len(t)
  BY <1>2, LenProperties
<1>4. 1..(Len(s) + 1) = (1..Len(s)) \union {Len(s) + 1}
  BY <1>1
<1>5. (\A i \in 1..Len(s) : t[i] = s[i]) /\ t[Len(s) + 1] = x
  BY <1>1, AppendProperties
<1> QED BY <1>1, <1>2, <1>3, <1>4, <1>5

LEMMA RowFacts ==
  ASSUME RowsTyped
  PROVE  /\ \A p \in DOMAIN parties : parties[p] \in PartyRows /\ p \in Nat /\ p # 0
         /\ \A k \in DOMAIN contacts : contacts[k] \in EntityRows /\ k \in Nat /\ k # 0
         /\ \A l \in DOMAIN locations : locations[l] \in EntityRows /\ l \in Nat /\ l # 0
         /\ \A r \in DOMAIN requests : requests[r] \in RequestRows /\ r \in Nat /\ r # 0
         /\ \A n \in DOMAIN keys : keys[n] \in KeyRows /\ n \in Nat /\ n # 0
<1>1. ASSUME NEW S, NEW s \in Seq(S) PROVE \A i \in DOMAIN s : s[i] \in S /\ i \in Nat /\ i # 0
  BY ElementOfSeq, LenProperties
<1> QED BY <1>1 DEF RowsTyped

LEMMA RowNumbers == 0 \notin Rows /\ Rows \subseteq Nat /\ "none" \notin Kinds
BY PartyAssumption, ImportAssumption

LEMMA SavedLater == KeysLater => \A kind, r, x : Saved(kind, r, x) => Saved(kind, r, x)'
BY DEF KeysLater, Saved

\* Two keys of one kind and row have one result.
LEMMA SavedOnce ==
  ASSUME KeysUnique, NEW kind, NEW r, NEW x, NEW y, Saved(kind, r, x), Saved(kind, r, y)
  PROVE  x = y
<1>1. PICK m \in DOMAIN keys : keys[m] = [kind |-> kind, row |-> r, result |-> x]
  BY DEF Saved
<1>2. PICK n \in DOMAIN keys : keys[n] = [kind |-> kind, row |-> r, result |-> y]
  BY DEF Saved
<1>3. m = n
  BY <1>1, <1>2 DEF KeysUnique
<1> QED BY <1>1, <1>2, <1>3

LEMMA SavedMeans ==
  ASSUME KeysMean, NEW kind, NEW r, NEW x, Saved(kind, r, x)
  PROVE  Meaning(kind, r, x)
<1>1. PICK n \in DOMAIN keys : keys[n] = [kind |-> kind, row |-> r, result |-> x]
  BY DEF Saved
<1>2. keys[n].kind = kind /\ keys[n].row = r /\ keys[n].result = x
  BY <1>1
<1> QED BY <1>2 DEF KeysMean

LEMMA MeaningLater == Later => \A kind, r, x : Meaning(kind, r, x) => Meaning(kind, r, x)'
<1> SUFFICES ASSUME Later, NEW kind, NEW r, NEW x, Meaning(kind, r, x) PROVE Meaning(kind, r, x)'
  OBVIOUS
<1>1. \A l \in DOMAIN locations : Saved("party", r, locations[l].of) => Saved("party", r, locations[l].of)'
  <2> SUFFICES ASSUME NEW l \in DOMAIN locations, Saved("party", r, locations[l].of)
               PROVE  Saved("party", r, locations[l].of)'
    OBVIOUS
  <2>1. PICK o : o = locations[l].of
    OBVIOUS
  <2>2. Saved("party", r, o) /\ locations'[l].of = o
    BY <2>1 DEF Later, RowsLater
  <2>3. Saved("party", r, o)'
    BY <2>2, SavedLater DEF Later
  <2> QED BY <2>2, <2>3 DEF Saved
<1> QED BY <1>1, SavedLater DEF Meaning, Later, RowsLater

LEMMA FitLater ==
  ASSUME Later, RowsTyped, RowsTyped', Referred, NEW k, Fit(k)
  PROVE  Fit(k)'
<1>1. k \in CallRows
  BY DEF Fit
<1>2. Subject(k)'
  BY <1>1 DEF Fit, Subject, Later, RowsLater
<1>3. Fresh(k)'
  <2>1. ASSUME NEW p \in DOMAIN parties
        PROVE  parties[p].version \in Nat /\ parties'[p].version \in Nat
    <3>1. parties'[p] \in PartyRows /\ parties[p] \in PartyRows
      BY ElementOfSeq, LenProperties DEF RowsTyped, Later, RowsLater
    <3> QED BY <3>1 DEF PartyRows
  <2>2. k.version \in Nat
    BY <1>1 DEF CallRows
  <2> SUFFICES ASSUME k.op \in Versioned, k.at \in AfterRead, k.party \notin ahead'
               PROVE  /\ k.version <= parties'[k.party].version
                      /\ k.version = parties'[k.party].version => parties'[k.party].status # "merged"
    BY DEF Fresh
  <2>3. k.party \in DOMAIN parties /\ k.party \notin ahead
    BY DEF Fit, Subject, Versioned, OfParty, Decisions, Referred, Later, RowsLater
  <2>4. /\ k.version <= parties[k.party].version
        /\ k.version = parties[k.party].version => parties[k.party].status # "merged"
    BY <2>3 DEF Fit, Fresh
  <2>5. /\ parties'[k.party].version >= parties[k.party].version
        /\ parties'[k.party].version = parties[k.party].version => parties'[k.party].status = parties[k.party].status
    BY <2>3 DEF Later, RowsLater
  <2> QED BY <2>1, <2>2, <2>3, <2>4, <2>5
<1>4. KeyFit(k)'
  BY SavedLater DEF Fit, KeyFit, Later
<1> QED BY <1>1, <1>2, <1>3, <1>4 DEF Fit

LEMMA NoCallFits == Fit(NoCall)
BY DEF Fit, Stage, NoCall, NoKey, CallRows, Statements, Subject, Fresh, KeyFit, OfParty, Decisions, Versioned, AfterRead

LEMMA EntitiesLater == Later => \A r, e : Entities(r, e) => Entities(r, e)'
BY SavedLater DEF Entities, Later

LEMMA GoneLater == Later => \A e : (Gone(e) => Gone(e)') /\ (Left(e) => Left(e)')
BY DEF Gone, Left, Later, RowsLater

RefsLater == \A r \in Rows : refs[r] # NoRefs => refs'[r] # NoRefs

LEMMA RunFitLater ==
  ASSUME Later, RefsLater, NEW m, RunFit(m)
  PROVE  RunFit(m)'
<1>1. m.task = "execute" => ExecuteFit(m)'
  <2> SUFFICES ASSUME m.task = "execute" PROVE ExecuteFit(m)'
    OBVIOUS
  <2>1. ExecuteFit(m)
    BY DEF RunFit
  <2>2. (\A r \in Before(m) : refs[r] # NoRefs)'
    BY <2>1 DEF ExecuteFit, Before, RefsLater
  <2> QED BY <2>1, <2>2, SavedLater DEF ExecuteFit, Later
<1>2. m.task = "reverse" => ReverseFit(m)'
  <2> SUFFICES ASSUME m.task = "reverse" PROVE ReverseFit(m)'
    OBVIOUS
  <2>1. ReverseFit(m)
    BY DEF RunFit
  <2>2. \A r \in Rows : Entities(r, m.listed[r])'
    BY <2>1, EntitiesLater DEF ReverseFit
  <2>3. (\A r \in Before(m) : m.listed[r].party # 0 => Gone(m.listed[r]) /\ Left(m.listed[r]))'
    BY <2>1, GoneLater DEF ReverseFit, Before
  <2>4. /\ m.next \in {"reverseContact", "reverseParty"} => Gone(m.listed[m.row])'
        /\ m.next = "reverseParty" => Left(m.listed[m.row])'
    BY <2>1, GoneLater DEF ReverseFit
  <2> QED BY <2>1, <2>2, <2>3, <2>4 DEF ReverseFit
<1> QED BY <1>1, <1>2 DEF RunFit

-----------------------------------------------------------------------------
(* Steps of a command before its commit.                                   *)

\* A step that changes the calls alone, and leaves each knowing what is so.
LEMMA CallsChange ==
  ASSUME PartyInv, UNCHANGED <<rows, keys>>, left' \in Nat, expired' \in Nat, expired' <= Len(keys),
         call' \in [Calls -> CallRows], \A c \in Calls : Fit(call'[c])
  PROVE  PartyInv' /\ Later
<1>1. UNCHANGED <<parties, contacts, locations, requests, ahead, keys>>
  BY DEF rows
<1>2. RowsTyped'
  BY <1>1 DEF PartyInv, RowsTyped
<1>3. Referred' /\ KeysUnique' /\ ApprovedIsMerged'
  BY <1>1 DEF PartyInv, Referred, KeysUnique, ApprovedIsMerged
<1>4. Later
  <2>1. \A p \in DOMAIN parties : parties[p].version >= parties[p].version
    BY RowFacts DEF PartyInv, PartyRows
  <2> QED BY <1>1, <2>1 DEF Later, RowsLater, KeysLater
<1>5. KeysMean'
  <2> SUFFICES ASSUME NEW n \in DOMAIN keys PROVE Meaning(keys[n].kind, keys[n].row, keys[n].result)'
    BY <1>1 DEF KeysMean
  <2>1. PICK kind, r, x : kind = keys[n].kind /\ r = keys[n].row /\ x = keys[n].result
    OBVIOUS
  <2>2. Meaning(kind, r, x)'
    BY <1>4, <2>1, MeaningLater DEF PartyInv, KeysMean
  <2> QED BY <1>1, <2>1, <2>2 DEF Meaning
<1>6. MadeKeyed'
  <2> SUFFICES /\ \A p \in DOMAIN parties : parties[p].row # 0 => Saved("party", parties[p].row, p)'
               /\ \A k \in DOMAIN contacts : contacts[k].row # 0 => Saved("contact", contacts[k].row, k)'
               /\ \A l \in DOMAIN locations : locations[l].row # 0 => Saved("location", locations[l].row, l)'
    BY <1>1 DEF MadeKeyed
  <2> QED BY <1>1 DEF PartyInv, MadeKeyed, Saved
<1>7. CallsFit'
  <2>1. \A k : Fit(k) => Fit(k)'
    BY <1>2, <1>4, FitLater DEF PartyInv
  <2> SUFFICES ASSUME NEW c \in Calls PROVE Fit(call[c])'
    BY DEF CallsFit
  <2>2. PICK k : k = call'[c]
    OBVIOUS
  <2>3. Fit(k)'
    BY <2>1, <2>2
  <2> QED BY <2>2, <2>3 DEF Fit, Stage, Ops, Subject, Fresh, KeyFit
<1> QED BY <1>2, <1>3, <1>4, <1>5, <1>6, <1>7 DEF PartyInv

LEMMA ProceedInv ==
  ASSUME PartyInv, NEW c \in Calls, NEW k, Fit(k), Proceed(c, k)
  PROVE  PartyInv' /\ Later
<1>1. call' = [call EXCEPT ![c] = k] /\ UNCHANGED <<rows, keys, expired, left>> /\ k \in CallRows
  BY DEF Proceed, Fit
<1>2. call' \in [Calls -> CallRows] /\ \A d \in Calls : Fit(call'[d])
  BY <1>1 DEF PartyInv, CallsFit
<1> QED BY <1>1, <1>2, CallsChange DEF PartyInv, RowsTyped

LEMMA BeginInv ==
  ASSUME PartyInv, NEW c \in Calls, NEW k, Fit([k EXCEPT !.at = First(k.op)]), Begin(c, k)
  PROVE  PartyInv' /\ Later
<1> DEFINE j == [k EXCEPT !.at = First(k.op)]
<1>1. /\ call' = [call EXCEPT ![c] = j] /\ UNCHANGED <<rows, keys>> /\ expired' \in Nat /\ expired' <= Len(keys)
      /\ left' \in Nat /\ Fit(j) /\ j \in CallRows
  BY DEF Begin, Fit, PartyInv, RowsTyped
<1> HIDE DEF j
<1>2. call' \in [Calls -> CallRows] /\ \A d \in Calls : Fit(call'[d])
  BY <1>1 DEF PartyInv, CallsFit
<1> QED BY <1>1, <1>2, CallsChange

LEMMA StartInv ==
  ASSUME PartyInv, NEW c \in Calls, Start(c)
  PROVE  PartyInv' /\ Later
<1>0. RowsTyped /\ Referred
  BY DEF PartyInv
<1>1. CASE StartCreate(c)
  <2> DEFINE k == [NoCall EXCEPT !.op = "CreateParty"]
  <2>1. Fit([k EXCEPT !.at = First(k.op)])
    BY DEF NoCall, First, Fit, Stage, CallRows, Ops, Statements, Subject, Fresh, KeyFit, NoKey, OfParty,
           Decisions, Versioned, AfterRead
  <2> QED BY <1>1, <2>1, BeginInv DEF StartCreate
<1>2. CASE StartOnParty(c)
  <2>1. PICK o \in OfParty, p \in DOMAIN parties : \E v \in 0..parties[p].version + Foreseen :
          /\ o # "UpdateParty" => v = 0
          /\ Begin(c, [NoCall EXCEPT !.op = o, !.party = p, !.expected = v])
    BY <1>2 DEF StartOnParty
  <2>2. PICK v \in 0..parties[p].version + Foreseen : Begin(c, [NoCall EXCEPT !.op = o, !.party = p, !.expected = v])
    BY <2>1
  <2> DEFINE k == [NoCall EXCEPT !.op = o, !.party = p, !.expected = v]
  <2>3. p \in Nat /\ p # 0 /\ v \in Nat
    <3>1. p \in Nat /\ p # 0 /\ parties[p].version \in Nat
      BY <1>0, RowFacts DEF PartyRows
    <3> QED BY <3>1, PartyAssumption
  <2>4. [k EXCEPT !.at = First(k.op)] = [k EXCEPT !.at = "party"]
    BY DEF NoCall, First, OfParty, Decisions
  <2> DEFINE j == [k EXCEPT !.at = "party"]
  <2>5. /\ j \in CallRows /\ j.op = o /\ j.party = p /\ j.expected = v /\ j.at = "party" /\ j.key = NoKey
        /\ j.target = 0 /\ j.request = 0 /\ j.location = 0
    BY <2>3 DEF NoCall, CallRows, Ops, Statements, NoKey
  <2> HIDE DEF j
  <2>6. Fit(j)
    BY <2>3, <2>5 DEF Fit, Stage, Ops, Subject, Fresh, KeyFit, OfParty, Decisions, AfterRead
  <2>7. Fit([k EXCEPT !.at = First(k.op)])
    BY <2>4, <2>6 DEF j
  <2> QED BY <2>2, <2>7, BeginInv
<1>3. CASE StartRequest(c)
  <2>1. PICK p, q \in DOMAIN parties :
          Begin(c, [NoCall EXCEPT !.op = "RequestPartyMerge", !.party = p, !.target = q])
    BY <1>3 DEF StartRequest
  <2> DEFINE k == [NoCall EXCEPT !.op = "RequestPartyMerge", !.party = p, !.target = q]
             j == [k EXCEPT !.at = First(k.op)]
  <2>2. p \in Nat /\ p # 0 /\ q \in Nat /\ q # 0
    BY <1>0, RowFacts
  <2>3. /\ j \in CallRows /\ j.op = "RequestPartyMerge" /\ j.party = p /\ j.target = q /\ j.at = "party"
        /\ j.key = NoKey /\ j.request = 0 /\ j.location = 0
    BY <2>2 DEF NoCall, First, CallRows, Ops, OfParty, Decisions, Statements, NoKey
  <2> HIDE DEF j
  <2>4. Fit(j)
    BY <2>2, <2>3 DEF Fit, Stage, Ops, Subject, Fresh, KeyFit, OfParty, Decisions, AfterRead, Versioned
  <2> QED BY <2>1, <2>4, BeginInv DEF j
<1>4. CASE StartDecide(c)
  <2>1. PICK o \in Decisions, r \in DOMAIN requests : Begin(c, [NoCall EXCEPT !.op = o, !.request = r])
    BY <1>4 DEF StartDecide
  <2> DEFINE k == [NoCall EXCEPT !.op = o, !.request = r]
             j == [k EXCEPT !.at = First(k.op)]
  <2>2. r \in Nat /\ r # 0
    BY <1>0, RowFacts
  <2>3. /\ j \in CallRows /\ j.op = o /\ j.request = r /\ j.at = "request"
        /\ j.key = NoKey /\ j.party = 0 /\ j.target = 0 /\ j.location = 0
    BY <2>2 DEF NoCall, First, CallRows, Ops, OfParty, Decisions, Statements, NoKey
  <2> HIDE DEF j
  <2>4. Fit(j)
    BY <2>2, <2>3 DEF Fit, Stage, Ops, Subject, Fresh, KeyFit, OfParty, Decisions, AfterRead, Versioned
  <2> QED BY <2>1, <2>4, BeginInv DEF j
<1>5. CASE StartOnLocation(c)
  <2>1. PICK l \in DOMAIN locations : Begin(c, [NoCall EXCEPT !.op = "DeactivateLocation", !.location = l])
    BY <1>5 DEF StartOnLocation
  <2> DEFINE k == [NoCall EXCEPT !.op = "DeactivateLocation", !.location = l]
             j == [k EXCEPT !.at = First(k.op)]
  <2>2. l \in Nat /\ l # 0
    BY <1>0, RowFacts
  <2>3. /\ j \in CallRows /\ j.op = "DeactivateLocation" /\ j.location = l /\ j.at = "location"
        /\ j.key = NoKey /\ j.party = 0 /\ j.target = 0 /\ j.request = 0
    BY <2>2 DEF NoCall, First, CallRows, Ops, OfParty, Decisions, Statements, NoKey
  <2> HIDE DEF j
  <2>4. Fit(j)
    BY <2>2, <2>3 DEF Fit, Stage, Ops, Subject, Fresh, KeyFit, OfParty, Decisions, AfterRead, Versioned
  <2> QED BY <2>1, <2>4, BeginInv DEF j
<1> QED BY <1>1, <1>2, <1>3, <1>4, <1>5 DEF Start

LEMMA LookupInv ==
  ASSUME PartyInv, NEW c \in Calls, Lookup(c)
  PROVE  PartyInv' /\ Later
<1>1. PICK k : k = call[c]
  OBVIOUS
<1>2. Fit(k) /\ k.at = "lookup" /\ k \in CallRows
  BY <1>1 DEF PartyInv, CallsFit, Lookup, Fit
<1> DEFINE found == {n \in expired + 1..Len(keys) : Named(n, k.key)}
<1>3. CASE found = {}
  <2> DEFINE j == [k EXCEPT !.at = First(k.op)]
  <2>1. Proceed(c, j)
    BY <1>1, <1>3 DEF Lookup
  <2>2. First(k.op) \in {"commit", "request", "location", "party"}
    BY DEF First
  <2>3. /\ j \in CallRows /\ j.at = First(k.op)
        /\ j.op = k.op /\ j.party = k.party /\ j.target = k.target /\ j.request = k.request
        /\ j.location = k.location /\ j.expected = k.expected /\ j.version = k.version
        /\ j.key = k.key /\ j.result = k.result
    BY <1>2, <2>2 DEF CallRows, Statements
  <2>4. First(k.op) \in AfterRead => k.op \notin Versioned \union Decisions
    BY DEF First, AfterRead, Versioned, Decisions
  <2>5. k.op \in Decisions => First(k.op) = "request"
    BY DEF First, Decisions
  <2> HIDE DEF j
  <2>6. Subject(j) /\ Stage(j)
    <3>1. k.op \in Ops
      BY <1>2 DEF Fit, Stage
    <3>2. Stage(j)
      BY <2>3, <3>1 DEF Stage, First, Ops, OfParty, Decisions
    <3> QED BY <1>2, <2>3, <2>5, <3>2 DEF Fit, Subject, AfterRead
  <2>7. Fresh(j)
    BY <1>2, <2>3, <2>4 DEF Fit, Fresh
  <2>8. KeyFit(j)
    BY <1>2, <2>2, <2>3 DEF Fit, KeyFit
  <2> QED BY <2>1, <2>3, <2>6, <2>7, <2>8, ProceedInv DEF Fit
<1>4. CASE found # {}
  <2>1. PICK n \in found : Proceed(c, [k EXCEPT !.at = "answered", !.result = keys[n].result])
    BY <1>1, <1>4 DEF Lookup
  <2> DEFINE j == [k EXCEPT !.at = "answered", !.result = keys[n].result]
  <2>2. n \in DOMAIN keys /\ keys[n].kind = k.key.kind /\ keys[n].row = k.key.row /\ keys[n] \in KeyRows
    <3>1. n \in expired + 1..Len(keys) /\ Named(n, k.key)
      OBVIOUS
    <3>2. expired \in Nat /\ Len(keys) \in Nat /\ DOMAIN keys = 1..Len(keys)
      BY LenProperties DEF PartyInv, RowsTyped
    <3>3. n \in DOMAIN keys
      BY <3>1, <3>2
    <3> QED BY <3>1, <3>3, RowFacts DEF Named, PartyInv
  <2>3. keys[n].result \in Nat /\ k.key.kind \in Kinds /\ k.key # NoKey
    <3>1. keys[n].result \in Nat /\ keys[n].kind \in Kinds
      BY <2>2 DEF KeyRows
    <3> QED BY <2>2, <3>1, RowNumbers DEF NoKey
  <2>4. Saved(k.key.kind, k.key.row, keys[n].result)
    BY <2>2 DEF Saved, KeyRows
  <2>5. /\ j \in CallRows /\ j.at = "answered" /\ j.result = keys[n].result
        /\ j.op = k.op /\ j.party = k.party /\ j.target = k.target /\ j.request = k.request
        /\ j.location = k.location /\ j.expected = k.expected /\ j.version = k.version /\ j.key = k.key
    BY <1>2, <2>3 DEF CallRows, Statements
  <2> HIDE DEF j
  <2>6. Stage(j) /\ Subject(j) /\ Fresh(j)
    BY <1>2, <2>5 DEF Fit, Stage, Subject, Fresh, AfterRead
  <2>7. KeyFit(j)
    BY <1>2, <2>3, <2>4, <2>5 DEF Fit, KeyFit
  <2> QED BY <2>1, <2>5, <2>6, <2>7, ProceedInv DEF Fit, j
<1> QED BY <1>3, <1>4

LEMMA ReadRequestInv ==
  ASSUME PartyInv, NEW c \in Calls, ReadRequest(c)
  PROVE  PartyInv' /\ Later
<1>1. PICK k : k = call[c]
  OBVIOUS
<1>2. PICK r : r = requests[k.request]
  OBVIOUS
<1> DEFINE s == IF k.op = "ApprovePartyMerge" THEN "party" ELSE "commit"
           j == [k EXCEPT !.party = r.source, !.target = r.target, !.at = s]
<1>3. Fit(k) /\ k \in CallRows /\ k.op \in Decisions /\ Proceed(c, j)
  BY <1>1, <1>2 DEF PartyInv, CallsFit, ReadRequest, Fit, Stage
<1>4. k.request \in DOMAIN requests /\ r.source \in DOMAIN parties /\ r.target \in DOMAIN parties
  BY <1>2, <1>3 DEF PartyInv, Referred, Fit, Subject
<1>5. r.source \in Nat /\ r.target \in Nat
  BY <1>4, RowFacts DEF PartyInv
<1>6. /\ j \in CallRows /\ j.at = s /\ j.party = r.source /\ j.target = r.target
      /\ j.op = k.op /\ j.request = k.request
      /\ j.location = k.location /\ j.expected = k.expected /\ j.version = k.version
      /\ j.key = k.key /\ j.result = k.result
  BY <1>3, <1>5 DEF CallRows, Statements
<1>7. s \in {"party", "commit"} /\ (s = "commit" => k.op \notin Versioned)
  BY <1>3 DEF Decisions, Versioned
<1> HIDE DEF j, s
<1>8. Subject(j) /\ Stage(j)
  <2>1. Stage(j)
    BY <1>3, <1>6 DEF Stage, s, Ops, Decisions
  <2> QED BY <1>2, <1>3, <1>4, <1>6, <2>1 DEF Fit, Subject, Decisions, OfParty
<1>9. Fresh(j)
  BY <1>3, <1>6, <1>7 DEF Fresh, AfterRead, Decisions
<1>10. KeyFit(j)
  BY <1>3, <1>6, <1>7 DEF Fit, KeyFit, Decisions
<1> QED BY <1>3, <1>6, <1>8, <1>9, <1>10, ProceedInv DEF Fit

LEMMA ReadPartyInv ==
  ASSUME PartyInv, NEW c \in Calls, ReadParty(c)
  PROVE  PartyInv' /\ Later
<1>1. PICK k : k = call[c]
  OBVIOUS
<1> DEFINE v == parties[k.party].version
           s == CASE k.op = "AssignPartyRole" -> "account"
                  [] k.op \in {"RequestPartyMerge", "ApprovePartyMerge"} -> "target"
                  [] OTHER -> "commit"
           j == [k EXCEPT !.version = v, !.at = s]
<1>2. Fit(k) /\ k \in CallRows /\ k.at = "party" /\ parties[k.party].status # "merged" /\ Proceed(c, j)
  BY <1>1 DEF PartyInv, CallsFit, ReadParty, RequireActiveParty, Fit
<1>3. s \in AfterRead
  BY DEF AfterRead
<1>4. k.op \in Versioned => k.party \in DOMAIN parties /\ v \in Nat
  <2>1. k.op \in Versioned => k.party \in DOMAIN parties
    BY <1>2 DEF PartyInv, Referred, Fit, Subject, Versioned, OfParty, Decisions
  <2> QED BY <2>1, RowFacts DEF PartyInv, PartyRows
<1>5. CASE k.party \in DOMAIN parties
  <2>1. v \in Nat
    BY <1>5, RowFacts DEF PartyInv, PartyRows
  <2>2. /\ j \in CallRows /\ j.at = s /\ j.version = v /\ j.party = k.party /\ j.target = k.target
        /\ j.op = k.op /\ j.request = k.request /\ j.location = k.location /\ j.expected = k.expected
        /\ j.key = k.key /\ j.result = k.result
    BY <1>2, <1>3, <2>1 DEF CallRows, Statements, AfterRead
  <2>3. Subject(j) /\ Stage(j)
    <3>1. Stage(j)
      BY <1>2, <2>2 DEF Fit, Stage, Ops, OfParty, Decisions
    <3> HIDE DEF j, s
    <3> QED BY <1>2, <1>3, <2>2, <3>1 DEF Fit, Subject
  <2> HIDE DEF j, s
  <2>4. Fresh(j)
    BY <1>2, <2>1, <2>2 DEF Fit, Fresh
  <2>5. KeyFit(j)
    BY <1>2, <1>3, <2>2 DEF Fit, KeyFit, AfterRead
  <2> QED BY <1>2, <2>2, <2>3, <2>4, <2>5, ProceedInv DEF Fit
<1>6. k.party \in DOMAIN parties
  BY <1>2 DEF Fit, Stage, Subject, PartyInv, Referred, Decisions
<1> QED BY <1>5, <1>6

\* A read that leaves version, key and subject of the call alone.
LEMMA ReadOnInv ==
  ASSUME PartyInv, NEW c \in Calls, NEW s \in AfterRead, NEW h \in BOOLEAN, NEW g \in BOOLEAN,
         call[c].at \in AfterRead \ {"commit"} \/ (call[c].at = "location" /\ s = "commit"),
         Stage([call[c] EXCEPT !.at = s, !.sourceHas = h, !.targetHas = g]),
         Proceed(c, [call[c] EXCEPT !.at = s, !.sourceHas = h, !.targetHas = g])
  PROVE  PartyInv' /\ Later
<1>1. PICK k : k = call[c]
  OBVIOUS
<1> DEFINE j == [k EXCEPT !.at = s, !.sourceHas = h, !.targetHas = g]
<1>2. Fit(k) /\ k \in CallRows /\ Stage(j) /\ Proceed(c, j)
  BY <1>1 DEF PartyInv, CallsFit, Fit
<1>3. /\ j \in CallRows /\ j.at = s /\ j.version = k.version /\ j.party = k.party /\ j.target = k.target
      /\ j.op = k.op /\ j.request = k.request /\ j.location = k.location /\ j.expected = k.expected
      /\ j.key = k.key /\ j.result = k.result
  BY <1>2 DEF CallRows, Statements, AfterRead
<1> HIDE DEF j
<1>4. k.at \in AfterRead \/ (k.at = "location" /\ k.op = "DeactivateLocation" /\ s = "commit")
  BY <1>1, <1>2 DEF Fit, Stage
<1>5. Subject(j)
  BY <1>2, <1>3, <1>4 DEF Fit, Subject, Decisions
<1>6. Fresh(j)
  BY <1>2, <1>3, <1>4 DEF Fit, Fresh, Versioned
<1>7. KeyFit(j)
  BY <1>2, <1>3 DEF Fit, KeyFit, AfterRead
<1> QED BY <1>2, <1>3, <1>5, <1>6, <1>7, ProceedInv DEF Fit

LEMMA ReadsInv ==
  ASSUME PartyInv, NEW c \in Calls,
         ReadTarget(c) \/ ReadAccount(c) \/ ReadTargetAccount(c) \/ ReadLocation(c)
  PROVE  PartyInv' /\ Later
<1>1. PICK k : k = call[c]
  OBVIOUS
<1>2. Fit(k) /\ Stage(k) /\ k \in CallRows /\ k.sourceHas \in BOOLEAN /\ k.targetHas \in BOOLEAN
  <2>1. Fit(k) /\ Stage(k) /\ k \in CallRows
    BY <1>1 DEF PartyInv, CallsFit, Fit
  <2>2. k.sourceHas \in BOOLEAN /\ k.targetHas \in BOOLEAN
    BY <2>1, Zenon DEF CallRows
  <2> QED BY <2>1, <2>2
<1>3. CASE ReadTarget(c)
  <2> DEFINE s == IF k.op = "ApprovePartyMerge" THEN "account" ELSE "commit"
  <2>1. k.at = "target" /\ Proceed(c, [k EXCEPT !.at = s]) /\ s \in AfterRead
    BY <1>1, <1>3 DEF ReadTarget, AfterRead
  <2>2. [k EXCEPT !.at = s] = [k EXCEPT !.at = s, !.sourceHas = k.sourceHas, !.targetHas = k.targetHas]
    BY <1>2 DEF CallRows
  <2>3. Stage([k EXCEPT !.at = s])
    BY <1>2, <2>1 DEF Stage, CallRows
  <2> QED BY <1>1, <1>2, <2>1, <2>2, <2>3, ReadOnInv DEF AfterRead
<1>4. CASE ReadAccount(c)
  <2> DEFINE s == IF k.op = "ApprovePartyMerge" THEN "targetAccount" ELSE "commit"
             h == parties[k.party].account
  <2>1. k.at = "account" /\ Proceed(c, [k EXCEPT !.sourceHas = h, !.at = s]) /\ s \in AfterRead
    BY <1>1, <1>4 DEF ReadAccount, AfterRead
  <2>2. k.party \in DOMAIN parties
    BY <1>2, <2>1 DEF Fit, Subject, Stage, OfParty, Decisions, AfterRead, PartyInv, Referred
  <2>3. h \in BOOLEAN
    BY <2>2, RowFacts DEF PartyInv, PartyRows
  <2>4. [k EXCEPT !.sourceHas = h, !.at = s] = [k EXCEPT !.at = s, !.sourceHas = h, !.targetHas = k.targetHas]
    BY <1>2 DEF CallRows
  <2>5. Stage([k EXCEPT !.sourceHas = h, !.at = s])
    BY <1>2, <2>1 DEF Stage, CallRows
  <2> QED BY <1>1, <1>2, <2>1, <2>3, <2>4, <2>5, ReadOnInv DEF AfterRead
<1>5. CASE ReadTargetAccount(c)
  <2> DEFINE g == parties[k.target].account
  <2>1. k.at = "targetAccount" /\ Proceed(c, [k EXCEPT !.targetHas = g, !.at = "commit"])
    BY <1>1, <1>5 DEF ReadTargetAccount
  <2>2. k.target \in DOMAIN parties
    BY <1>2, <2>1 DEF Fit, Subject, Stage, Decisions, AfterRead, PartyInv, Referred
  <2>3. g \in BOOLEAN
    BY <2>2, RowFacts DEF PartyInv, PartyRows
  <2>4. [k EXCEPT !.targetHas = g, !.at = "commit"] = [k EXCEPT !.at = "commit", !.sourceHas = k.sourceHas, !.targetHas = g]
    BY <1>2 DEF CallRows
  <2>5. Stage([k EXCEPT !.targetHas = g, !.at = "commit"])
    BY <1>2, <2>1 DEF Stage, CallRows
  <2> QED BY <1>1, <1>2, <2>1, <2>3, <2>4, <2>5, ReadOnInv DEF AfterRead
<1>6. CASE ReadLocation(c)
  <2>1. k.at = "location" /\ Proceed(c, [k EXCEPT !.at = "commit"])
    BY <1>1, <1>6 DEF ReadLocation
  <2>2. [k EXCEPT !.at = "commit"] = [k EXCEPT !.at = "commit", !.sourceHas = k.sourceHas, !.targetHas = k.targetHas]
    BY <1>2 DEF CallRows
  <2>3. Stage([k EXCEPT !.at = "commit"])
    BY <1>2, <2>1 DEF Stage, CallRows
  <2> QED BY <1>1, <1>2, <2>1, <2>2, <2>3, ReadOnInv DEF AfterRead
<1> QED BY <1>3, <1>4, <1>5, <1>6

LEMMA FailInv ==
  ASSUME PartyInv, NEW c \in Calls, Fail(c)
  PROVE  PartyInv' /\ Later
BY NoCallFits, ProceedInv DEF Fail

-----------------------------------------------------------------------------
(* Commits.                                                                *)

KeyAdded(k, x) == \A n \in DOMAIN keys' \ DOMAIN keys :
  keys'[n] = [kind |-> k.key.kind, row |-> k.key.row, result |-> x]

\* What Return does to the keys and to the call of c.
LEMMA Returned ==
  ASSUME PartyInv, NEW c \in Calls, NEW k, k = call[c], NEW x \in Nat, Return(c, x)
  PROVE  /\ keys' \in Seq(KeyRows) /\ expired' \in Nat /\ expired' <= Len(keys') /\ left' \in Nat
         /\ KeysLater /\ KeysUnique' /\ KeyAdded(k, x)
         /\ k.key # NoKey => Saved(k.key.kind, k.key.row, x)'
         /\ k.key = NoKey => keys' = keys
         /\ call' = [call EXCEPT ![c] = IF k.key = NoKey THEN NoCall
                                        ELSE [k EXCEPT !.at = "answered", !.result = x]]
<1>2. Fit(k) /\ k \in CallRows /\ call \in [Calls -> CallRows]
  BY DEF PartyInv, CallsFit, Fit
<1>3. keys \in Seq(KeyRows) /\ UNCHANGED <<expired, left>> /\ expired \in Nat /\ left \in Nat /\ expired <= Len(keys)
  BY DEF Return, PartyInv, RowsTyped
<1>4. CASE k.key = NoKey
  <2>1. keys' = keys /\ call' = [call EXCEPT ![c] = NoCall]
    BY <1>4 DEF Return
  <2> QED BY <1>3, <1>4, <2>1 DEF KeysLater, KeyAdded, PartyInv, KeysUnique
<1>5. CASE k.key # NoKey
  <2> DEFINE new == [kind |-> k.key.kind, row |-> k.key.row, result |-> x]
  <2>1. /\ KeyUnused(k.key) /\ keys' = Append(keys, new)
        /\ call' = [call EXCEPT ![c].at = "answered", ![c].result = x]
    BY <1>5 DEF Return
  <2>2. new \in KeyRows /\ new.kind = k.key.kind /\ new.row = k.key.row
    BY <1>2, <1>5 DEF Fit, KeyFit, KeyRows
  <2>3. call' = [call EXCEPT ![c] = [k EXCEPT !.at = "answered", !.result = x]]
    BY <1>2, <2>1
  <2> HIDE DEF new
  <2>4. /\ keys' \in Seq(KeyRows) /\ Len(keys') = Len(keys) + 1
        /\ DOMAIN keys' = DOMAIN keys \union {Len(keys) + 1}
        /\ Len(keys) + 1 \notin DOMAIN keys
        /\ \A i \in DOMAIN keys : keys'[i] = keys[i]
        /\ keys'[Len(keys) + 1] = new
    BY <1>3, <2>1, <2>2, Appended
  <2>5. Len(keys) \in Nat
    BY <1>3, LenProperties
  <2>6. expired' <= Len(keys')
    BY <1>3, <2>4, <2>5
  <2>7. KeysLater
    BY <2>4 DEF KeysLater
  <2>8. KeysUnique'
    <3>1. \A n \in DOMAIN keys : ~ (keys[n].kind = new.kind /\ keys[n].row = new.row)
      BY <2>1, <2>2 DEF KeyUnused, Named
    <3> QED BY <2>4, <3>1 DEF PartyInv, KeysUnique
  <2>9. Saved(k.key.kind, k.key.row, x)'
    BY <2>4 DEF Saved, new
  <2> QED BY <1>3, <1>5, <2>3, <2>4, <2>6, <2>7, <2>8, <2>9 DEF new, KeyAdded
<1> QED BY <1>4, <1>5

\* What a commit has to show about the rows it writes, for all that was known to stay known.
LEMMA CommitInv ==
  ASSUME PartyInv, NEW c \in Calls, NEW k, k = call[c], k.at = "commit", NEW x \in Nat, Return(c, x), RowsLater,
         /\ parties' \in Seq(PartyRows) /\ contacts' \in Seq(EntityRows)
         /\ locations' \in Seq(EntityRows) /\ requests' \in Seq(RequestRows),
         Referred',
         \A p \in DOMAIN parties' \ DOMAIN parties :
           parties'[p].row = k.key.row /\ p = x /\ k.op = "CreateParty",
         \A n \in DOMAIN contacts' \ DOMAIN contacts :
           contacts'[n].row = k.key.row /\ n = x /\ k.op = "UpdateContact",
         \A l \in DOMAIN locations' \ DOMAIN locations :
           locations'[l].row = k.key.row /\ l = x /\ k.op = "CreateLocation",
         k.key # NoKey => Meaning(k.key.kind, k.key.row, x)',
         \A r \in DOMAIN requests' : requests'[r].status = "approved" /\ requests'[r].source \notin ahead' =>
           \/ r \in DOMAIN requests /\ requests[r].status = "approved"
           \/ /\ parties'[requests'[r].source].status = "merged"
              /\ parties'[requests'[r].source].into = requests'[r].target
  PROVE  PartyInv' /\ Later
<1>2. Fit(k) /\ k \in CallRows /\ call \in [Calls -> CallRows]
  BY DEF PartyInv, CallsFit, Fit
<1>1. KeyAdded(k, x)
  BY Returned
<1>3. Later
  BY Returned DEF Later
<1>4. RowsTyped'
  BY Returned DEF RowsTyped
<1>5. KeysUnique'
  BY Returned
<1>6. KeysMean'
  <2> SUFFICES ASSUME NEW n \in DOMAIN keys' PROVE Meaning(keys[n].kind, keys[n].row, keys[n].result)'
    BY DEF KeysMean
  <2>1. PICK kind, r, y : kind = keys'[n].kind /\ r = keys'[n].row /\ y = keys'[n].result
    OBVIOUS
  <2>2. CASE n \in DOMAIN keys
    <3>1. keys'[n] = keys[n]
      BY <1>3, <2>2 DEF Later, KeysLater
    <3>2. Meaning(kind, r, y)
      BY <2>1, <2>2, <3>1 DEF PartyInv, KeysMean
    <3>3. Meaning(kind, r, y)'
      BY <1>3, <3>2, MeaningLater
    <3> QED BY <2>1, <3>3 DEF Meaning
  <2>3. CASE n \notin DOMAIN keys
    <3>1. keys'[n] = [kind |-> k.key.kind, row |-> k.key.row, result |-> x]
      BY <1>1, <2>3 DEF KeyAdded
    <3>2. k.key # NoKey
      BY <2>3, Returned
    <3>3. Meaning(k.key.kind, k.key.row, x)'
      BY ONLY <3>2, k.key # NoKey => Meaning(k.key.kind, k.key.row, x)'
    <3>4. kind = k.key.kind /\ r = k.key.row /\ y = x
      BY <2>1, <3>1
    <3>5. Meaning(kind, r, y)'
      BY <3>3, <3>4
    <3> QED BY <2>1, <3>5 DEF Meaning
  <2> QED BY <2>2, <2>3
<1>7. MadeKeyed'
  <2>0. k.key.row # 0 => k.key # NoKey
    BY DEF NoKey
  <2>1. k.key # NoKey => /\ Saved(k.key.kind, k.key.row, x)'
                         /\ k.op = "CreateParty" => k.key.kind = "party"
                         /\ k.op = "UpdateContact" => k.key.kind = "contact"
                         /\ k.op = "CreateLocation" => k.key.kind = "location"
    <3>1. k.key # NoKey => Saved(k.key.kind, k.key.row, x)'
      BY Returned
    <3> QED BY <1>2, <3>1 DEF Fit, KeyFit
  <2>2. ASSUME NEW p \in DOMAIN parties', parties'[p].row # 0 PROVE Saved("party", parties[p].row, p)'
    <3>1. PICK r : r = parties'[p].row
      OBVIOUS
    <3>2. CASE p \in DOMAIN parties
      <4>1. parties[p].row = r
        BY <3>1, <3>2 DEF RowsLater
      <4>2. Saved("party", r, p)
        BY <2>2, <3>1, <3>2, <4>1 DEF PartyInv, MadeKeyed
      <4>3. Saved("party", r, p)'
        BY <1>3, <4>2, SavedLater DEF Later
      <4> QED BY <3>1, <4>3 DEF Saved
    <3>3. CASE p \notin DOMAIN parties
      <4>1. r = k.key.row /\ p = x /\ k.op = "CreateParty" /\ r # 0
        BY <2>2, <3>1, <3>3
      <4>2. Saved("party", r, p)'
        BY <2>0, <2>1, <4>1
      <4> QED BY <3>1, <4>2 DEF Saved
    <3> QED BY <3>2, <3>3
  <2>3. ASSUME NEW p \in DOMAIN contacts', contacts'[p].row # 0 PROVE Saved("contact", contacts[p].row, p)'
    <3>1. PICK r : r = contacts'[p].row
      OBVIOUS
    <3>2. CASE p \in DOMAIN contacts
      <4>1. contacts[p].row = r
        BY <3>1, <3>2 DEF RowsLater
      <4>2. Saved("contact", r, p)
        BY <2>3, <3>1, <3>2, <4>1 DEF PartyInv, MadeKeyed
      <4>3. Saved("contact", r, p)'
        BY <1>3, <4>2, SavedLater DEF Later
      <4> QED BY <3>1, <4>3 DEF Saved
    <3>3. CASE p \notin DOMAIN contacts
      <4>1. r = k.key.row /\ p = x /\ k.op = "UpdateContact" /\ r # 0
        BY <2>3, <3>1, <3>3
      <4>2. Saved("contact", r, p)'
        BY <2>0, <2>1, <4>1
      <4> QED BY <3>1, <4>2 DEF Saved
    <3> QED BY <3>2, <3>3
  <2>4. ASSUME NEW p \in DOMAIN locations', locations'[p].row # 0 PROVE Saved("location", locations[p].row, p)'
    <3>1. PICK r : r = locations'[p].row
      OBVIOUS
    <3>2. CASE p \in DOMAIN locations
      <4>1. locations[p].row = r
        BY <3>1, <3>2 DEF RowsLater
      <4>2. Saved("location", r, p)
        BY <2>4, <3>1, <3>2, <4>1 DEF PartyInv, MadeKeyed
      <4>3. Saved("location", r, p)'
        BY <1>3, <4>2, SavedLater DEF Later
      <4> QED BY <3>1, <4>3 DEF Saved
    <3>3. CASE p \notin DOMAIN locations
      <4>1. r = k.key.row /\ p = x /\ k.op = "CreateLocation" /\ r # 0
        BY <2>4, <3>1, <3>3
      <4>2. Saved("location", r, p)'
        BY <2>0, <2>1, <4>1
      <4> QED BY <3>1, <4>2 DEF Saved
    <3> QED BY <3>2, <3>3
  <2> QED BY <2>2, <2>3, <2>4 DEF MadeKeyed
<1>8. ApprovedIsMerged'
  <2> SUFFICES ASSUME NEW r \in DOMAIN requests', requests'[r].status = "approved",
                      requests'[r].source \notin ahead'
      PROVE  /\ parties'[requests'[r].source].status = "merged"
             /\ parties'[requests'[r].source].into = requests'[r].target
    BY DEF ApprovedIsMerged
  <2>1. CASE r \in DOMAIN requests /\ requests[r].status = "approved"
    <3>2. requests'[r].source = requests[r].source /\ requests'[r].target = requests[r].target
      BY <2>1 DEF RowsLater
    <3>1. /\ requests[r].source \in DOMAIN parties \ ahead'
          /\ parties[requests[r].source].status = "merged"
          /\ parties[requests[r].source].into = requests[r].target
      BY <2>1, <3>2 DEF PartyInv, ApprovedIsMerged, Referred, RowsLater
    <3> QED BY <3>1, <3>2 DEF RowsLater
  <2> QED BY <2>1
<1>9. CallsFit'
  <2>1. \A j : Fit(j) => Fit(j)'
    BY <1>3, <1>4, FitLater DEF PartyInv
  <2> DEFINE answer == [k EXCEPT !.at = "answered", !.result = x]
             new == IF k.key = NoKey THEN NoCall ELSE answer
  <2>2. call' = [call EXCEPT ![c] = new]
    BY Returned
  <2>3. k.key # NoKey => Fit(answer)'
    <3> SUFFICES ASSUME k.key # NoKey PROVE Fit(answer)'
      OBVIOUS
    <3>1. /\ answer \in CallRows /\ answer.at = "answered" /\ answer.result = x
          /\ answer.op = k.op /\ answer.party = k.party /\ answer.target = k.target /\ answer.request = k.request
          /\ answer.location = k.location /\ answer.expected = k.expected /\ answer.version = k.version
          /\ answer.key = k.key
      BY <1>2 DEF CallRows, Statements
    <3>2. k.op \in Ops
      BY <1>2 DEF Fit, Stage
    <3>3. Saved(k.key.kind, k.key.row, x)'
      BY Returned
    <3> HIDE DEF answer
    <3>4. Fit(k)'
      BY <1>2, <2>1
    <3> QED BY <3>1, <3>2, <3>3, <3>4 DEF Fit, Stage, Subject, Fresh, KeyFit, AfterRead
  <2>4. Fit(NoCall)'
    BY <2>1, NoCallFits
  <2> HIDE DEF answer
  <2>5. \A j : Fit(j)' => j \in CallRows
    BY DEF Fit
  <2>6. Fit(new)'
    BY <2>3, <2>4
  <2> HIDE DEF new
  <2>7. call' \in [Calls -> CallRows]
    BY <1>2, <2>2, <2>5, <2>6
  <2>8. ASSUME NEW d \in Calls PROVE Fit(call[d])'
    <3>1. PICK j : j = call'[d]
      OBVIOUS
    <3>2. CASE d = c
      <4>1. j = new
        BY <1>2, <2>2, <3>1, <3>2
      <4>2. Fit(j)'
        BY <2>6, <4>1
      <4> QED BY <3>1, <4>2 DEF Fit, Stage, Subject, Fresh, KeyFit
    <3>3. CASE d # c
      <4>1. j = call[d]
        BY <1>2, <2>2, <3>1, <3>3
      <4>2. Fit(j)'
        BY <2>1, <4>1 DEF PartyInv, CallsFit
      <4> QED BY <3>1, <4>2 DEF Fit, Stage, Subject, Fresh, KeyFit
    <3> QED BY <3>2, <3>3
  <2> QED BY <2>7, <2>8 DEF CallsFit
<1> QED BY <1>3, <1>4, <1>5, <1>6, <1>7, <1>8, <1>9 DEF PartyInv

LEMMA AtCommit ==
  ASSUME PartyInv, NEW c \in Calls, NEW o, At(c, o), NEW k, k = call[c]
  PROVE  k.at = "commit" /\ k.op = o /\ Fit(k) /\ k \in CallRows
BY DEF At, PartyInv, CallsFit, Fit

\* The keys of these commands say nothing about rows.
LEMMA NoMeaning ==
  ASSUME NEW k, Fit(k), k.op \notin {"CreateParty", "UpdateContact", "CreateLocation", "DeactivateLocation"},
         k.key # NoKey, NEW x
  PROVE  Meaning(k.key.kind, k.key.row, x)'
BY DEF Fit, KeyFit, Meaning

LEMMA PartiesSame ==
  ASSUME RowsTyped
  PROVE  \A p \in DOMAIN parties : parties[p].version \in Nat /\ parties[p].version >= parties[p].version
BY RowFacts DEF PartyRows

LEMMA CreatePartyInv == ASSUME PartyInv, NEW c \in Calls, CreateParty(c) PROVE PartyInv' /\ Later
<1>1. PICK k : k = call[c]
  OBVIOUS
<1>2. k.at = "commit" /\ k.op = "CreateParty" /\ Fit(k) /\ k \in CallRows
  BY <1>1, AtCommit DEF CreateParty
<1>0. PICK x : x = Len(parties) + 1
  OBVIOUS
<1>3. PICK customer \in BOOLEAN :
        parties' = Append(parties, [status |-> "active", into |-> 0, version |-> 0,
                                    account |-> customer, row |-> k.key.row])
  BY <1>1 DEF CreateParty
<1>4. Return(c, x) /\ UNCHANGED <<contacts, locations, requests, ahead>>
  BY <1>0 DEF CreateParty
<1> DEFINE new == [status |-> "active", into |-> 0, version |-> 0, account |-> customer, row |-> k.key.row]
<1>5. /\ new \in PartyRows /\ new.row = k.key.row /\ new.into = 0 /\ new.status = "active"
  BY <1>2 DEF PartyRows, CallRows
<1> HIDE DEF new
<1>6. /\ parties' \in Seq(PartyRows) /\ x \in Nat \ {0}
      /\ DOMAIN parties' = DOMAIN parties \union {x} /\ x \notin DOMAIN parties
      /\ \A p \in DOMAIN parties : parties'[p] = parties[p]
      /\ parties'[x] = new
  BY <1>0, <1>3, <1>5, Appended DEF PartyInv, RowsTyped, new
<1>7. RowsLater
  BY <1>4, <1>6, PartiesSame DEF RowsLater, PartyInv
<1>8. Referred'
  BY <1>4, <1>5, <1>6 DEF PartyInv, Referred
<1>9. k.key # NoKey => Meaning(k.key.kind, k.key.row, x)'
  BY <1>2, <1>5, <1>6 DEF Fit, KeyFit, Meaning
<1> QED BY <1>1, <1>2, <1>4, <1>5, <1>6, <1>7, <1>8, <1>9, CommitInv DEF PartyInv, RowsTyped

LEMMA UpdatePartyInv == ASSUME PartyInv, NEW c \in Calls, UpdateParty(c) PROVE PartyInv' /\ Later
<1>1. PICK k : k = call[c]
  OBVIOUS
<1>2. PICK p : p = k.party
  OBVIOUS
<1>3. PICK o \in {"UpdateParty", "DeactivateParty", "ReactivateParty"} :
        /\ At(c, o) /\ VersionHolds(c) /\ Return(c, p) /\ UNCHANGED <<contacts, locations, requests>>
        /\ ahead' = IF o = "UpdateParty" /\ k.expected # k.version THEN ahead \union {p} ELSE ahead
        /\ parties' = [parties EXCEPT ![p].status = NewStatus(o, @), ![p].version = k.version + 1]
  BY <1>1, <1>2 DEF UpdateParty
<1>4. k.at = "commit" /\ k.op = o /\ Fit(k) /\ k \in CallRows
  BY <1>1, <1>3, AtCommit
<1>5. p \in DOMAIN parties /\ p \in Nat
  BY <1>2, <1>4, RowFacts DEF Fit, Subject, OfParty, PartyInv
<1>6. parties[p] \in PartyRows /\ parties[p].version \in Nat /\ k.version \in Nat /\ k.expected \in Nat
  BY <1>4, <1>5, RowFacts DEF PartyInv, PartyRows, CallRows
<1>7. p \notin ahead' => k.version = parties[p].version /\ parties[p].status # "merged"
  <2> SUFFICES ASSUME p \notin ahead' PROVE k.version = parties[p].version /\ parties[p].status # "merged"
    OBVIOUS
  <2>1. p \notin ahead /\ (o = "UpdateParty" => k.expected = k.version)
    BY <1>3
  <2>2. k.version = parties[p].version => parties[p].status # "merged"
    BY <1>2, <1>3, <1>4, <2>1 DEF Fit, Fresh, Versioned, AfterRead
  <2>3. parties[p].version = IF o = "UpdateParty" THEN k.expected ELSE k.version
    BY <1>1, <1>2, <1>3, <1>4 DEF VersionHolds
  <2> QED BY <1>3, <2>1, <2>2, <2>3
<1>8. PICK s : s = NewStatus(o, parties[p].status)
  OBVIOUS
<1> DEFINE new == [parties[p] EXCEPT !.status = s, !.version = k.version + 1]
<1>9. /\ new \in PartyRows /\ new.row = parties[p].row /\ new.into = parties[p].into
      /\ new.version = k.version + 1 /\ new.status = s /\ (s = "merged" => parties[p].status = "merged")
  <2>1. s \in {"active", "inactive", "merged"} /\ (s = "merged" => parties[p].status = "merged")
    BY <1>6, <1>8 DEF NewStatus, PartyRows
  <2>2. PICK v, r : v = k.version + 1 /\ r = parties[p]
    OBVIOUS
  <2>3. v \in Nat /\ r \in PartyRows
    BY <1>6, <2>2
  <2>4. new = [r EXCEPT !.status = s, !.version = v]
    BY <2>2
  <2> HIDE DEF new
  <2> QED BY <2>1, <2>2, <2>3, <2>4 DEF PartyRows
<1>14. parties' = [parties EXCEPT ![p] = new]
  BY <1>3, <1>8
<1> HIDE DEF new
<1>10. /\ parties' \in Seq(PartyRows) /\ DOMAIN parties' = DOMAIN parties
       /\ parties'[p] = new /\ \A q \in DOMAIN parties : q # p => parties'[q] = parties[q]
  <2>1. [parties EXCEPT ![p] = new] \in [DOMAIN parties -> PartyRows]
    BY <1>9, RowFacts DEF PartyInv
  <2> QED BY <1>5, <1>14, <2>1, Replaced DEF PartyInv, RowsTyped
<1>11. RowsLater
  <2>1. p \notin ahead' => new.version >= parties[p].version /\ new.version # parties[p].version
    BY <1>6, <1>7, <1>9
  <2>2. ahead \subseteq ahead'
    BY <1>3
  <2>3. \A q \in DOMAIN parties \ ahead' :
          /\ parties'[q].version >= parties[q].version
          /\ parties'[q].version = parties[q].version => parties'[q].status = parties[q].status
          /\ parties[q].status = "merged" => parties'[q].status = "merged" /\ parties'[q].into = parties[q].into
    BY <1>7, <1>10, <2>1, PartiesSame DEF PartyInv
  <2>4. \A q \in DOMAIN parties : parties'[q].row = parties[q].row
    BY <1>9, <1>10
  <2> QED BY <1>3, <1>10, <2>2, <2>3, <2>4, PartiesSame DEF RowsLater, PartyInv
<1>12. Referred'
  <2>1. ahead \subseteq ahead' /\ ahead' \subseteq DOMAIN parties
    BY <1>3, <1>5 DEF PartyInv, Referred
  <2>2. s = "merged" => parties[p].into # 0
    BY <1>5, <1>9 DEF PartyInv, Referred
  <2>3. parties[p].into # 0 => s = "merged" \/ p \in ahead'
    <3>1. parties[p].into # 0 => parties[p].status = "merged" \/ p \in ahead
      BY <1>5 DEF PartyInv, Referred
    <3> QED BY <1>7, <2>1, <3>1
  <2> QED BY <1>3, <1>5, <1>9, <1>10, <2>1, <2>2, <2>3 DEF PartyInv, Referred
<1>13. k.key # NoKey => Meaning(k.key.kind, k.key.row, p)'
  BY <1>4, NoMeaning
<1> QED BY <1>1, <1>3, <1>4, <1>5, <1>10, <1>11, <1>12, <1>13, CommitInv DEF PartyInv, RowsTyped

LEMMA AssignPartyRoleInv == ASSUME PartyInv, NEW c \in Calls, AssignPartyRole(c) PROVE PartyInv' /\ Later
<1>1. PICK k : k = call[c]
  OBVIOUS
<1>2. PICK p : p = k.party
  OBVIOUS
<1>3. /\ At(c, "AssignPartyRole") /\ Return(c, p) /\ UNCHANGED <<contacts, locations, requests, ahead>>
      /\ parties' = IF k.sourceHas THEN parties ELSE [parties EXCEPT ![p].account = TRUE]
  BY <1>1, <1>2 DEF AssignPartyRole
<1>4. k.at = "commit" /\ k.op = "AssignPartyRole" /\ Fit(k) /\ k \in CallRows
  BY <1>1, <1>3, AtCommit
<1>5. p \in DOMAIN parties /\ p \in Nat /\ parties[p] \in PartyRows
  BY <1>2, <1>4, RowFacts DEF Fit, Subject, OfParty, PartyInv
<1>6. /\ parties' \in Seq(PartyRows) /\ DOMAIN parties' = DOMAIN parties
      /\ \A q \in DOMAIN parties : /\ parties'[q].status = parties[q].status /\ parties'[q].into = parties[q].into
                                   /\ parties'[q].version = parties[q].version /\ parties'[q].row = parties[q].row
  <2>1. CASE parties' = parties
    BY <2>1 DEF PartyInv, RowsTyped
  <2>2. CASE parties' = [parties EXCEPT ![p].account = TRUE]
    <3> DEFINE new == [parties[p] EXCEPT !.account = TRUE]
    <3>1. /\ new \in PartyRows /\ new.row = parties[p].row /\ new.into = parties[p].into
          /\ new.version = parties[p].version /\ new.status = parties[p].status
      BY <1>5 DEF PartyRows
    <3>2. parties' = [parties EXCEPT ![p] = new]
      BY <2>2
    <3> HIDE DEF new
    <3>3. [parties EXCEPT ![p] = new] \in [DOMAIN parties -> PartyRows]
      BY <3>1, RowFacts DEF PartyInv
    <3> QED BY <1>5, <3>1, <3>2, <3>3, Replaced DEF PartyInv, RowsTyped
  <2> QED BY <1>3, <2>1, <2>2
<1>7. RowsLater
  BY <1>3, <1>6, PartiesSame DEF RowsLater, PartyInv
<1>8. Referred'
  BY <1>3, <1>6 DEF PartyInv, Referred
<1>9. k.key # NoKey => Meaning(k.key.kind, k.key.row, p)'
  BY <1>4, NoMeaning
<1> QED BY <1>1, <1>3, <1>4, <1>5, <1>6, <1>7, <1>8, <1>9, CommitInv DEF PartyInv, RowsTyped

LEMMA UpdateContactInv == ASSUME PartyInv, NEW c \in Calls, UpdateContact(c) PROVE PartyInv' /\ Later
<1>1. PICK k : k = call[c]
  OBVIOUS
<1>2. k.at = "commit" /\ k.op = "UpdateContact" /\ Fit(k) /\ k \in CallRows
  BY <1>1, AtCommit DEF UpdateContact
<1>0. PICK x : x = Len(contacts) + 1
  OBVIOUS
<1> DEFINE new == [of |-> k.party, active |-> TRUE, row |-> k.key.row]
<1>3. contacts' = Append(contacts, new) /\ Return(c, x) /\ UNCHANGED <<parties, locations, requests, ahead>>
  BY <1>0, <1>1 DEF UpdateContact
<1>4. new \in EntityRows /\ new.row = k.key.row /\ new.of = k.party
  BY <1>2 DEF EntityRows, CallRows
<1> HIDE DEF new
<1>5. /\ contacts' \in Seq(EntityRows) /\ x \in Nat \ {0}
      /\ DOMAIN contacts' = DOMAIN contacts \union {x} /\ x \notin DOMAIN contacts
      /\ \A n \in DOMAIN contacts : contacts'[n] = contacts[n]
      /\ contacts'[x] = new
  BY <1>0, <1>3, <1>4, Appended DEF PartyInv, RowsTyped
<1>6. RowsLater
  BY <1>3, <1>5, PartiesSame DEF RowsLater, PartyInv
<1>7. Referred'
  <2>1. k.party \in DOMAIN parties
    BY <1>2 DEF Fit, Subject, OfParty
  <2> QED BY <1>3, <1>4, <1>5, <2>1 DEF PartyInv, Referred
<1>8. k.key # NoKey => Meaning(k.key.kind, k.key.row, x)'
  BY <1>2, <1>4, <1>5 DEF Fit, KeyFit, Meaning
<1> QED BY <1>1, <1>2, <1>3, <1>4, <1>5, <1>6, <1>7, <1>8, CommitInv DEF PartyInv, RowsTyped

LEMMA CreateLocationInv == ASSUME PartyInv, NEW c \in Calls, CreateLocation(c) PROVE PartyInv' /\ Later
<1>1. PICK k : k = call[c]
  OBVIOUS
<1>2. k.at = "commit" /\ k.op = "CreateLocation" /\ Fit(k) /\ k \in CallRows
  BY <1>1, AtCommit DEF CreateLocation
<1>0. PICK x : x = Len(locations) + 1
  OBVIOUS
<1> DEFINE new == [of |-> k.party, active |-> TRUE, row |-> k.key.row]
<1>3. locations' = Append(locations, new) /\ Return(c, x) /\ UNCHANGED <<parties, contacts, requests, ahead>>
  BY <1>0, <1>1 DEF CreateLocation
<1>4. new \in EntityRows /\ new.row = k.key.row /\ new.of = k.party
  BY <1>2 DEF EntityRows, CallRows
<1> HIDE DEF new
<1>5. /\ locations' \in Seq(EntityRows) /\ x \in Nat \ {0}
      /\ DOMAIN locations' = DOMAIN locations \union {x} /\ x \notin DOMAIN locations
      /\ \A n \in DOMAIN locations : locations'[n] = locations[n]
      /\ locations'[x] = new
  BY <1>0, <1>3, <1>4, Appended DEF PartyInv, RowsTyped
<1>6. RowsLater
  BY <1>3, <1>5, PartiesSame DEF RowsLater, PartyInv
<1>7. Referred'
  <2>1. k.party \in DOMAIN parties
    BY <1>2 DEF Fit, Subject, OfParty
  <2> QED BY <1>3, <1>4, <1>5, <2>1 DEF PartyInv, Referred
<1>8. k.key # NoKey => Meaning(k.key.kind, k.key.row, x)'
  <2> SUFFICES ASSUME k.key # NoKey PROVE Meaning(k.key.kind, k.key.row, x)'
    OBVIOUS
  <2>1. k.key.kind = "location" /\ k.key.row \in Located /\ Saved("party", k.key.row, k.party)
    BY <1>2 DEF Fit, KeyFit
  <2>2. Saved("party", k.key.row, k.party)'
    <3>1. KeysLater
      BY <1>1, <1>3, <1>5, Returned
    <3> QED BY <2>1, <3>1, SavedLater
  <2>3. locations'[x].of = k.party
    BY <1>4, <1>5
  <2>4. Saved("party", k.key.row, locations[x].of)'
    BY <2>2, <2>3 DEF Saved
  <2> QED BY <1>4, <1>5, <2>1, <2>4 DEF Meaning
<1> QED BY <1>1, <1>2, <1>3, <1>4, <1>5, <1>6, <1>7, <1>8, CommitInv DEF PartyInv, RowsTyped

LEMMA DeactivateLocationInv == ASSUME PartyInv, NEW c \in Calls, DeactivateLocation(c) PROVE PartyInv' /\ Later
<1>1. PICK k : k = call[c]
  OBVIOUS
<1>2. PICK l : l = k.location
  OBVIOUS
<1>3. /\ At(c, "DeactivateLocation") /\ locations' = [locations EXCEPT ![l].active = FALSE] /\ Return(c, l)
      /\ UNCHANGED <<parties, contacts, requests, ahead>>
  BY <1>1, <1>2 DEF DeactivateLocation
<1>4. k.at = "commit" /\ k.op = "DeactivateLocation" /\ Fit(k) /\ k \in CallRows
  BY <1>1, <1>3, AtCommit
<1>5. l \in DOMAIN locations /\ l \in Nat /\ locations[l] \in EntityRows
  BY <1>2, <1>4, RowFacts DEF Fit, Subject, PartyInv
<1> DEFINE new == [locations[l] EXCEPT !.active = FALSE]
<1>6. new \in EntityRows /\ new.row = locations[l].row /\ new.of = locations[l].of /\ ~new.active
  BY <1>5 DEF EntityRows
<1>7. locations' = [locations EXCEPT ![l] = new]
  BY <1>3
<1> HIDE DEF new
<1>8. /\ locations' \in Seq(EntityRows) /\ DOMAIN locations' = DOMAIN locations
      /\ locations'[l] = new /\ \A m \in DOMAIN locations : m # l => locations'[m] = locations[m]
  <2>1. [locations EXCEPT ![l] = new] \in [DOMAIN locations -> EntityRows]
    BY <1>6, RowFacts DEF PartyInv
  <2> QED BY <1>5, <1>7, <2>1, Replaced DEF PartyInv, RowsTyped
<1>9. RowsLater
  BY <1>3, <1>6, <1>8, PartiesSame DEF RowsLater, PartyInv
<1>10. Referred'
  BY <1>3, <1>6, <1>8 DEF PartyInv, Referred
<1>11. k.key # NoKey => Meaning(k.key.kind, k.key.row, l)'
  <2> SUFFICES ASSUME k.key # NoKey PROVE Meaning(k.key.kind, k.key.row, l)'
    OBVIOUS
  <2>1. k.key.kind = "reverseLocation" /\ Saved("location", k.key.row, l)
    BY <1>2, <1>4 DEF Fit, KeyFit
  <2>2. Saved("location", k.key.row, l)'
    <3>1. KeysLater
      BY <1>1, <1>3, <1>5, Returned
    <3> QED BY <2>1, <3>1, SavedLater
  <2> QED BY <1>5, <1>6, <1>8, <2>1, <2>2 DEF Meaning
<1> QED BY <1>1, <1>3, <1>4, <1>5, <1>8, <1>9, <1>10, <1>11, CommitInv DEF PartyInv, RowsTyped

LEMMA RequestPartyMergeInv == ASSUME PartyInv, NEW c \in Calls, RequestPartyMerge(c) PROVE PartyInv' /\ Later
<1>1. PICK k : k = call[c]
  OBVIOUS
<1>2. PICK x : x = Len(requests) + 1
  OBVIOUS
<1>3. k.at = "commit" /\ k.op = "RequestPartyMerge" /\ Fit(k) /\ k \in CallRows
  BY <1>1, AtCommit DEF RequestPartyMerge
<1> DEFINE new == [status |-> "pending", source |-> k.party, target |-> k.target]
<1>4. requests' = Append(requests, new) /\ Return(c, x) /\ UNCHANGED <<parties, contacts, locations, ahead>>
  BY <1>1, <1>2 DEF RequestPartyMerge
<1>5. /\ new \in RequestRows /\ new.source \in DOMAIN parties /\ new.target \in DOMAIN parties
      /\ new.status = "pending"
  BY <1>3 DEF RequestRows, CallRows, Fit, Subject
<1> HIDE DEF new
<1>6. /\ requests' \in Seq(RequestRows) /\ x \in Nat \ {0}
      /\ DOMAIN requests' = DOMAIN requests \union {x} /\ x \notin DOMAIN requests
      /\ \A r \in DOMAIN requests : requests'[r] = requests[r]
      /\ requests'[x] = new
  BY <1>2, <1>4, <1>5, Appended DEF PartyInv, RowsTyped
<1>7. RowsLater
  BY <1>4, <1>6, PartiesSame DEF RowsLater, PartyInv
<1>8. Referred'
  BY <1>4, <1>5, <1>6 DEF PartyInv, Referred
<1>9. k.key # NoKey => Meaning(k.key.kind, k.key.row, x)'
  BY <1>3, NoMeaning
<1> QED BY <1>1, <1>3, <1>4, <1>5, <1>6, <1>7, <1>8, <1>9, CommitInv DEF PartyInv, RowsTyped

LEMMA RejectPartyMergeInv == ASSUME PartyInv, NEW c \in Calls, RejectPartyMerge(c) PROVE PartyInv' /\ Later
<1>1. PICK k : k = call[c]
  OBVIOUS
<1>2. PICK x : x = k.request
  OBVIOUS
<1>3. k.at = "commit" /\ k.op = "RejectPartyMerge" /\ Fit(k) /\ k \in CallRows
  BY <1>1, AtCommit DEF RejectPartyMerge
<1>4. /\ requests' = [requests EXCEPT ![x].status = "rejected"] /\ Return(c, x)
      /\ UNCHANGED <<parties, contacts, locations, ahead>>
  BY <1>1, <1>2 DEF RejectPartyMerge
<1>5. x \in DOMAIN requests /\ x \in Nat /\ requests[x] \in RequestRows
  BY <1>2, <1>3, RowFacts DEF Fit, Subject, Decisions, PartyInv
<1> DEFINE new == [requests[x] EXCEPT !.status = "rejected"]
<1>6. /\ new \in RequestRows /\ new.source = requests[x].source /\ new.target = requests[x].target
      /\ new.status = "rejected"
  BY <1>5 DEF RequestRows
<1>7. requests' = [requests EXCEPT ![x] = new]
  BY <1>4
<1> HIDE DEF new
<1>8. /\ requests' \in Seq(RequestRows) /\ DOMAIN requests' = DOMAIN requests
      /\ requests'[x] = new /\ \A r \in DOMAIN requests : r # x => requests'[r] = requests[r]
  <2>1. [requests EXCEPT ![x] = new] \in [DOMAIN requests -> RequestRows]
    BY <1>6, RowFacts DEF PartyInv
  <2> QED BY <1>5, <1>7, <2>1, Replaced DEF PartyInv, RowsTyped
<1>9. RowsLater
  BY <1>4, <1>6, <1>8, PartiesSame DEF RowsLater, PartyInv
<1>10. Referred'
  BY <1>4, <1>6, <1>8 DEF PartyInv, Referred
<1>11. k.key # NoKey => Meaning(k.key.kind, k.key.row, x)'
  BY <1>3, NoMeaning
<1> QED BY <1>1, <1>3, <1>4, <1>5, <1>6, <1>8, <1>9, <1>10, <1>11, CommitInv DEF PartyInv, RowsTyped

\* The source of the request approved is merged and keeps its row; no other party changes but for accounts.
LEMMA ApprovePartyMergeInv == ASSUME PartyInv, NEW c \in Calls, ApprovePartyMerge(c) PROVE PartyInv' /\ Later
<1>1. PICK k, p, q, x : k = call[c] /\ p = k.party /\ q = k.target /\ x = k.request
  OBVIOUS
<1>2. k.at = "commit" /\ k.op = "ApprovePartyMerge" /\ Fit(k) /\ k \in CallRows
  BY <1>1, AtCommit DEF ApprovePartyMerge
<1>3. x \in DOMAIN requests /\ x \in Nat /\ requests[x] \in RequestRows
  BY <1>1, <1>2, RowFacts DEF Fit, Subject, Decisions, PartyInv
<1>4. requests[x].source = p /\ requests[x].target = q /\ p \in DOMAIN parties /\ q \in DOMAIN parties
  BY <1>1, <1>2, <1>3 DEF Fit, Subject, Decisions, AfterRead, PartyInv, Referred
<1>5. /\ p \in Nat /\ q \in Nat /\ q # 0 /\ parties[p] \in PartyRows /\ parties[p].version \in Nat
      /\ k.version \in Nat
  BY <1>2, <1>4, RowFacts DEF PartyInv, PartyRows, CallRows
<1>6. PICK moves \in BOOLEAN :
        parties' = [[parties EXCEPT
          ![p] = [parties[p] EXCEPT !.status = "merged", !.into = q, !.version = k.version + 1,
                           !.account = @ /\ ~moves]] EXCEPT
          ![q].account = @ \/ moves]
  <2>1. parties[p].account \in BOOLEAN /\ k.sourceHas \in BOOLEAN /\ k.targetHas \in BOOLEAN
    BY <1>2, <1>5, Zenon DEF PartyRows, CallRows
  <2>2. (k.sourceHas /\ ~k.targetHas /\ parties[p].account) \in BOOLEAN
    BY <2>1
  <2> QED BY <1>1, <2>2 DEF ApprovePartyMerge
<1>7. /\ contacts' = [n \in DOMAIN contacts |->
                        IF contacts[n].of = p THEN [contacts[n] EXCEPT !.of = q] ELSE contacts[n]]
      /\ requests' = [requests EXCEPT ![x].status = "approved"]
      /\ Return(c, q) /\ UNCHANGED <<locations, ahead>> /\ VersionHolds(c)
  BY <1>1 DEF ApprovePartyMerge
<1>8. k.version = parties[p].version /\ (p \notin ahead => parties[p].status # "merged")
  <2>1. k.version = parties[p].version
    BY <1>1, <1>2, <1>7 DEF VersionHolds
  <2>2. k.version = parties[p].version /\ p \notin ahead => parties[p].status # "merged"
    BY <1>1, <1>2 DEF Fit, Fresh, Versioned, AfterRead
  <2> QED BY <2>1, <2>2
<1>9. /\ parties' \in Seq(PartyRows) /\ DOMAIN parties' = DOMAIN parties
      /\ parties'[p].status = "merged" /\ parties'[p].into = q /\ parties'[p].version = k.version + 1
      /\ parties'[p].row = parties[p].row
      /\ \A o \in DOMAIN parties : o # p =>
           /\ parties'[o].status = parties[o].status /\ parties'[o].into = parties[o].into
           /\ parties'[o].version = parties[o].version /\ parties'[o].row = parties[o].row
  <2>1. PICK r, v, a : r = parties[p] /\ v = k.version + 1 /\ a = (parties[p].account /\ ~moves)
    OBVIOUS
  <2>2. v \in Nat /\ r \in PartyRows
    BY <1>5, <2>1
  <2>3. a \in BOOLEAN
    BY <2>1
  <2> DEFINE new == [r EXCEPT !.status = "merged", !.into = q, !.version = v, !.account = a]
             made == [parties EXCEPT ![p] = new]
  <2>4. /\ new \in PartyRows /\ new.status = "merged" /\ new.into = q /\ new.version = v /\ new.row = r.row
    BY <1>5, <2>2, <2>3 DEF PartyRows
  <2>5. parties' = [made EXCEPT ![q].account = made[q].account \/ moves]
    <3>1. new = [parties[p] EXCEPT !.status = "merged", !.into = q, !.version = k.version + 1,
                                   !.account = @ /\ ~moves]
      BY <2>1
    <3>2. [parties EXCEPT ![p] = new] =
            [parties EXCEPT ![p] = [parties[p] EXCEPT !.status = "merged", !.into = q, !.version = k.version + 1,
                                                      !.account = @ /\ ~moves]]
      <4> HIDE DEF new
      <4> QED BY <3>1
    <3> HIDE DEF new
    <3>3. parties' = [[parties EXCEPT ![p] = new] EXCEPT ![q].account = @ \/ moves]
      BY ONLY <1>6, <3>2
    <3> QED BY ONLY <3>3 DEF made
  <2> HIDE DEF new
  <2>6. made \in Seq(PartyRows) /\ DOMAIN made = DOMAIN parties
    <3>1. [parties EXCEPT ![p] = new] \in [DOMAIN parties -> PartyRows]
      BY <2>4, RowFacts DEF PartyInv
    <3> QED BY <3>1, Replaced DEF PartyInv, RowsTyped
  <2>7. made[p] = new /\ \A o \in DOMAIN parties : o # p => made[o] = parties[o]
    BY <1>4
  <2> HIDE DEF made
  <2>8. PICK s, b : s = made[q] /\ b = (made[q].account \/ moves)
    OBVIOUS
  <2>9. s \in PartyRows
    BY <1>4, <2>6, <2>8, ElementOfSeq, LenProperties
  <2>10. b \in BOOLEAN
    BY <2>8
  <2> DEFINE last == [s EXCEPT !.account = b]
  <2>11. /\ last \in PartyRows /\ last.status = s.status /\ last.into = s.into /\ last.version = s.version
         /\ last.row = s.row
    BY <2>9, <2>10 DEF PartyRows
  <2>12. parties' = [made EXCEPT ![q] = last]
    BY <2>5, <2>8
  <2> HIDE DEF last
  <2>13. parties' \in Seq(PartyRows) /\ DOMAIN parties' = DOMAIN made
    <3>1. \A o \in DOMAIN made : made[o] \in PartyRows
      BY <2>6, ElementOfSeq, LenProperties
    <3>2. [made EXCEPT ![q] = last] \in [DOMAIN made -> PartyRows]
      BY <2>11, <3>1, <2>6
    <3> QED BY <2>6, <2>12, <3>2, Replaced
  <2>14. parties'[q] = last /\ \A o \in DOMAIN parties : o # q => parties'[o] = made[o]
    BY <1>4, <2>6, <2>12
  <2>15. \A o \in DOMAIN parties :
           /\ parties'[o].status = made[o].status /\ parties'[o].into = made[o].into
           /\ parties'[o].version = made[o].version /\ parties'[o].row = made[o].row
    BY <2>8, <2>11, <2>14
  <2> QED BY <1>4, <2>1, <2>4, <2>6, <2>7, <2>13, <2>15
<1>10. /\ contacts' \in Seq(EntityRows) /\ DOMAIN contacts' = DOMAIN contacts
       /\ \A n \in DOMAIN contacts : /\ contacts'[n].row = contacts[n].row /\ contacts'[n].active = contacts[n].active
                                     /\ contacts'[n].of \in {q, contacts[n].of}
  <2>1. ASSUME NEW n \in DOMAIN contacts
        PROVE  /\ contacts'[n] \in EntityRows /\ contacts'[n].row = contacts[n].row
               /\ contacts'[n].active = contacts[n].active /\ contacts'[n].of \in {q, contacts[n].of}
    <3>1. PICK e : e = contacts[n]
      OBVIOUS
    <3>2. e \in EntityRows
      BY <3>1, RowFacts DEF PartyInv
    <3>3. contacts'[n] = e \/ contacts'[n] = [e EXCEPT !.of = q]
      BY <1>7, <3>1
    <3>4. /\ [e EXCEPT !.of = q] \in EntityRows /\ [e EXCEPT !.of = q].row = e.row
          /\ [e EXCEPT !.of = q].active = e.active /\ [e EXCEPT !.of = q].of = q
      BY <1>5, <3>2 DEF EntityRows
    <3> QED BY <3>1, <3>2, <3>3, <3>4
  <2>2. DOMAIN contacts' = DOMAIN contacts
    BY <1>7
  <2>3. contacts' \in [DOMAIN contacts -> EntityRows]
    BY <1>7, <2>1
  <2> QED BY <2>1, <2>2, <2>3, Replaced DEF PartyInv, RowsTyped
<1> DEFINE request == [requests[x] EXCEPT !.status = "approved"]
<1>11. /\ request \in RequestRows /\ request.source = p /\ request.target = q
  BY <1>3, <1>4 DEF RequestRows
<1>12. requests' = [requests EXCEPT ![x] = request]
  BY <1>7
<1> HIDE DEF request
<1>13. /\ requests' \in Seq(RequestRows) /\ DOMAIN requests' = DOMAIN requests
       /\ requests'[x] = request /\ \A r \in DOMAIN requests : r # x => requests'[r] = requests[r]
  <2>1. [requests EXCEPT ![x] = request] \in [DOMAIN requests -> RequestRows]
    BY <1>11, RowFacts DEF PartyInv
  <2> QED BY <1>3, <1>12, <2>1, Replaced DEF PartyInv, RowsTyped
<1>14. RowsLater
  <2>1. parties'[p].version >= parties[p].version /\ parties'[p].version # parties[p].version
    BY <1>5, <1>8, <1>9
  <2>2. \A o \in DOMAIN parties \ ahead' :
       /\ parties'[o].version >= parties[o].version
       /\ parties'[o].version = parties[o].version => parties'[o].status = parties[o].status
       /\ parties[o].status = "merged" => parties'[o].status = "merged" /\ parties'[o].into = parties[o].into
    BY <1>7, <1>8, <1>9, <2>1, PartiesSame DEF PartyInv
  <2> QED BY <1>4, <1>7, <1>9, <1>10, <1>11, <1>13, <2>2 DEF RowsLater
<1>15. Referred'
  BY <1>4, <1>5, <1>7, <1>9, <1>10, <1>11, <1>13 DEF PartyInv, Referred
<1>16. k.key # NoKey => Meaning(k.key.kind, k.key.row, q)'
  BY <1>2, NoMeaning
<1>17. \A r \in DOMAIN requests' : requests'[r].status = "approved" /\ requests'[r].source \notin ahead' =>
         \/ r \in DOMAIN requests /\ requests[r].status = "approved"
         \/ /\ parties'[requests'[r].source].status = "merged"
            /\ parties'[requests'[r].source].into = requests'[r].target
  BY <1>9, <1>11, <1>13
<1> QED BY <1>1, <1>2, <1>5, <1>7, <1>9, <1>10, <1>13, <1>14, <1>15, <1>16, <1>17, CommitInv DEF PartyInv, RowsTyped

LEMMA ExecuteInv == ASSUME PartyInv, NEW c \in Calls, Execute(c) PROVE PartyInv' /\ Later
BY LookupInv, ReadRequestInv, ReadPartyInv, ReadsInv, CreatePartyInv, UpdatePartyInv, AssignPartyRoleInv,
   UpdateContactInv, CreateLocationInv, DeactivateLocationInv, RequestPartyMergeInv, ApprovePartyMergeInv,
   RejectPartyMergeInv DEF Execute

-----------------------------------------------------------------------------
(* What steps of others leave to the runs.                                 *)

\* A command in progress that steps goes on with its key, or is over.
LEMMA ExecuteKeepsKey ==
  ASSUME NEW c \in Calls, Execute(c), NEW k, k = call[c], k \in CallRows, call \in [Calls -> CallRows]
  PROVE  /\ k # NoCall
         /\ \E j : call' = [call EXCEPT ![c] = j] /\ (j = NoCall \/ j.key = k.key)
<1>1. k.at # "idle" => k # NoCall
  BY DEF NoCall
<1>2. CASE \E x : Return(c, x) /\ k.at = "commit"
  <2>1. PICK x : Return(c, x) /\ k.at = "commit"
    BY <1>2
  <2>2. CASE k.key = NoKey
    BY <1>1, <2>1, <2>2 DEF Return
  <2>3. CASE k.key # NoKey
    <3> DEFINE j == [k EXCEPT !.at = "answered", !.result = x]
    <3>1. call' = [call EXCEPT ![c] = j] /\ j.key = k.key
      BY <2>1, <2>3 DEF Return, CallRows
    <3> HIDE DEF j
    <3> QED BY <1>1, <2>1, <3>1
  <2> QED BY <2>2, <2>3
<1>3. CASE \E j : Proceed(c, j) /\ j.key = k.key /\ k.at # "idle"
  BY <1>1, <1>3 DEF Proceed
<1>4. CASE Lookup(c)
  <2> DEFINE found == {n \in expired + 1..Len(keys) : Named(n, k.key)}
  <2>1. CASE found = {}
    <3>1. [k EXCEPT !.at = First(k.op)].key = k.key
      BY DEF CallRows
    <3> QED BY <1>3, <1>4, <2>1, <3>1 DEF Lookup
  <2>2. CASE found # {}
    <3>1. PICK n \in found : Proceed(c, [k EXCEPT !.at = "answered", !.result = keys[n].result])
      BY <1>4, <2>2 DEF Lookup
    <3>2. [k EXCEPT !.at = "answered", !.result = keys[n].result].key = k.key
      BY DEF CallRows
    <3> HIDE DEF found
    <3> QED BY <1>3, <1>4, <3>1, <3>2 DEF Lookup
  <2> QED BY <2>1, <2>2
<1>5. CASE ReadRequest(c)
  <2> DEFINE s == IF k.op = "ApprovePartyMerge" THEN "party" ELSE "commit"
             j == [k EXCEPT !.party = requests[k.request].source, !.target = requests[k.request].target, !.at = s]
  <2>1. Proceed(c, j) /\ k.at = "request"
    BY <1>5 DEF ReadRequest
  <2>2. j.key = k.key
    BY DEF CallRows
  <2> HIDE DEF j
  <2> QED BY <1>3, <2>1, <2>2
<1>6. CASE ReadParty(c)
  <2> DEFINE s == CASE k.op = "AssignPartyRole" -> "account"
                    [] k.op \in {"RequestPartyMerge", "ApprovePartyMerge"} -> "target"
                    [] OTHER -> "commit"
             j == [k EXCEPT !.version = parties[k.party].version, !.at = s]
  <2>1. Proceed(c, j) /\ k.at = "party"
    BY <1>6 DEF ReadParty
  <2> HIDE DEF s
  <2>2. j.key = k.key
    BY DEF CallRows
  <2> HIDE DEF j
  <2> QED BY <1>3, <2>1, <2>2
<1>7. CASE ReadTarget(c)
  <2> DEFINE j == [k EXCEPT !.at = IF k.op = "ApprovePartyMerge" THEN "account" ELSE "commit"]
  <2>1. Proceed(c, j) /\ k.at = "target"
    BY <1>7 DEF ReadTarget
  <2>2. j.key = k.key
    BY DEF CallRows
  <2> HIDE DEF j
  <2> QED BY <1>3, <2>1, <2>2
<1>8. CASE ReadAccount(c)
  <2> DEFINE j == [k EXCEPT !.sourceHas = parties[k.party].account,
                            !.at = IF k.op = "ApprovePartyMerge" THEN "targetAccount" ELSE "commit"]
  <2>1. Proceed(c, j) /\ k.at = "account"
    BY <1>8 DEF ReadAccount
  <2>2. j.key = k.key
    BY DEF CallRows
  <2> HIDE DEF j
  <2> QED BY <1>3, <2>1, <2>2
<1>9. CASE ReadTargetAccount(c)
  <2> DEFINE j == [k EXCEPT !.targetHas = parties[k.target].account, !.at = "commit"]
  <2>1. Proceed(c, j) /\ k.at = "targetAccount"
    BY <1>9 DEF ReadTargetAccount
  <2>2. j.key = k.key
    BY DEF CallRows
  <2> HIDE DEF j
  <2> QED BY <1>3, <2>1, <2>2
<1>10. CASE ReadLocation(c)
  <2> DEFINE j == [k EXCEPT !.at = "commit"]
  <2>1. Proceed(c, j) /\ k.at = "location"
    BY <1>10 DEF ReadLocation
  <2>2. j.key = k.key
    BY DEF CallRows
  <2> HIDE DEF j
  <2> QED BY <1>3, <2>1, <2>2
<1>11. CASE \/ CreateParty(c) \/ UpdateParty(c) \/ AssignPartyRole(c) \/ UpdateContact(c)
            \/ CreateLocation(c) \/ DeactivateLocation(c)
            \/ RequestPartyMerge(c) \/ ApprovePartyMerge(c) \/ RejectPartyMerge(c)
  <2>1. \E x : Return(c, x) /\ k.at = "commit"
    BY <1>11 DEF At, CreateParty, UpdateParty, AssignPartyRole, UpdateContact, CreateLocation,
                 DeactivateLocation, RequestPartyMerge, ApprovePartyMerge, RejectPartyMerge
  <2> QED BY <1>2, <2>1
<1> QED BY <1>4, <1>5, <1>6, <1>7, <1>8, <1>9, <1>10, <1>11 DEF Execute

CallsKept == \A i \in Importers : call'[i] # NoCall => call[i] # NoCall /\ call'[i].key = call[i].key

LEMMA RefsFitLater == Later /\ UNCHANGED refs /\ RefsFit => RefsFit'
<1> SUFFICES ASSUME Later, UNCHANGED refs, RefsFit, NEW r \in Rows PROVE Entities(r, refs[r])'
  BY DEF RefsFit
<1>1. PICK e : e = refs[r]
  OBVIOUS
<1>2. Entities(r, e)'
  BY <1>1, EntitiesLater DEF RefsFit
<1> QED BY <1>1, <1>2 DEF Entities

LEMMA ImportLater ==
  ASSUME ImportInv, Later, UNCHANGED importVars, CallsKept
  PROVE  ImportInv'
<1>1. UNCHANGED <<batch, refs, run, runs>>
  BY DEF importVars
<1>2. RunsFit'
  <2> SUFFICES ASSUME NEW i \in Importers PROVE RunFit(run[i])'
    BY <1>1 DEF ImportInv, RunsFit
  <2>1. PICK m : m = run[i]
    OBVIOUS
  <2>2. RunFit(m)'
    BY <1>1, <2>1, RunFitLater DEF ImportInv, RunsFit, RefsLater
  <2> QED BY <1>1, <2>1, <2>2 DEF RunFit
<1>3. Issued'
  BY <1>1 DEF ImportInv, Issued, CallsKept, KeyOf
<1>4. RefsFit' /\ BatchFit'
  BY <1>1, RefsFitLater DEF ImportInv, BatchFit
<1> QED BY <1>2, <1>3, <1>4 DEF ImportInv

\* A step of run i: the others know what they knew.
LEMMA RunStep ==
  ASSUME ImportInv, Later, RefsLater, NEW i \in Importers, NEW m, RunFit(m)', run' = [run EXCEPT ![i] = m],
         \A j \in Importers \ {i} : call'[j] = call[j],
         call'[i] # NoCall => m.next \in Kinds /\ call'[i].key = KeyOf(m.next, m.row),
         RefsFit', BatchFit'
  PROVE  ImportInv'
<1>1. RunsFit'
  <2>1. \A j : RunFit(j)' => j \in RunRows
    BY DEF RunFit
  <2>2. run' \in [Importers -> RunRows]
    BY <2>1 DEF ImportInv, RunsFit
  <2>3. ASSUME NEW j \in Importers PROVE RunFit(run[j])'
    <3>1. PICK n : n = run'[j]
      OBVIOUS
    <3>2. CASE j = i
      BY <3>1, <3>2 DEF ImportInv, RunsFit, RunFit
    <3>3. CASE j # i
      <4>1. n = run[j]
        BY <3>1, <3>3 DEF ImportInv, RunsFit
      <4>2. RunFit(n)'
        BY <4>1, RunFitLater DEF ImportInv, RunsFit
      <4> QED BY <3>1, <4>2 DEF RunFit
    <3> QED BY <3>2, <3>3
  <2> QED BY <2>2, <2>3 DEF RunsFit
<1>2. Issued'
  <2> SUFFICES ASSUME NEW j \in Importers, call'[j] # NoCall
               PROVE  run'[j].next \in Kinds /\ call'[j].key = KeyOf(run'[j].next, run'[j].row)
    BY DEF Issued
  <2>1. CASE j = i
    BY <2>1 DEF ImportInv, RunsFit
  <2>2. CASE j # i
    BY <2>2 DEF ImportInv, RunsFit, Issued
  <2> QED BY <2>1, <2>2
<1> QED BY <1>1, <1>2 DEF ImportInv

\* A step that leaves the committed rows and the keys alone.
LEMMA Idle ==
  ASSUME PartyInv, UNCHANGED partyVars
  PROVE  PartyInv' /\ Later
<1>1. UNCHANGED <<rows, keys, expired, call, left>>
  BY DEF partyVars
<1> QED BY <1>1, CallsChange DEF PartyInv, RowsTyped, CallsFit

LEMMA HasMin ==
  ASSUME NEW T, T \subseteq Rows, T # {}
  PROVE  \E x \in T : \A y \in T : x <= y
<1> DEFINE Down(x) == {y \in T : y <= x}
           U == {Down(x) : x \in T}
<1>1. IsFiniteSet(T) /\ \A z \in T : z \in Nat
  BY FS_Subset, RowNumbers, PartyAssumption
<1>2. U \subseteq FiniteSubsetsOf(T) /\ U # {}
  <2>1. \A x \in T : Down(x) \subseteq T /\ IsFiniteSet(Down(x))
    BY <1>1, FS_Subset
  <2> QED BY <2>1 DEF FiniteSubsetsOf
<1>3. PICK u \in U : \A v \in U : ~ (<<v, u>> \in StrictSubsetOrdering(T))
  <2> HIDE DEF U
  <2> QED BY <1>1, <1>2, WFMin, FS_StrictSubsetOrderingWellFounded
<1>4. PICK x \in T : u = Down(x)
  BY <1>3
<1>5. ASSUME NEW y \in T, ~ (x <= y) PROVE FALSE
  <2>1. Down(y) \in U /\ Down(y) \subseteq T /\ Down(x) \subseteq T
    OBVIOUS
  <2>2. y < x
    BY <1>1, <1>5
  <2>3. Down(y) \subseteq Down(x) /\ x \in Down(x) /\ x \notin Down(y)
    <3>1. \A z \in Down(y) : z \in Down(x)
      BY <1>1, <2>2
    <3>2. x \in Down(x)
      BY <1>1
    <3>3. x \notin Down(y)
      BY <1>1, <2>2
    <3> QED BY <3>1, <3>2, <3>3
  <2> HIDE DEF Down, U
  <2>4. <<Down(y), Down(x)>> \in StrictSubsetOrdering(T)
    BY <2>1, <2>3 DEF StrictSubsetOrdering
  <2> QED BY <1>3, <1>4, <2>1, <2>4
<1> QED BY <1>5

\* Where a reversal goes on from row r.
LEMMA ReverseNext ==
  ASSUME NEW listed, NEW r \in Nat, NEW at, at = ReverseFrom(listed, r)
  PROVE  \/ at.next = "finish" /\ at.row = 0 /\ \A s \in Rows : s >= r => listed[s].party = 0
         \/ /\ at.row \in Rows /\ at.row >= r /\ listed[at.row].party # 0
            /\ \A s \in Rows : s >= r /\ s < at.row => listed[s].party = 0
            /\ at.next = IF listed[at.row].location # 0 THEN "reverseLocation" ELSE "reverseContact"
<1> DEFINE recorded == {s \in Rows : s >= r /\ listed[s].party # 0}
<1>1. CASE recorded = {}
  BY <1>1 DEF ReverseFrom
<1>2. CASE recorded # {}
  <2>1. \E s \in recorded : \A t \in recorded : s <= t
    BY <1>2, HasMin
  <2> DEFINE s == CHOOSE s \in recorded : \A t \in recorded : s <= t
  <2>2. s \in recorded /\ \A t \in recorded : s <= t
    BY <2>1
  <2>3. at = [row |-> s, next |-> IF listed[s].location # 0 THEN "reverseLocation" ELSE "reverseContact"]
    BY <1>2 DEF ReverseFrom
  <2> HIDE DEF s
  <2>4. \A t \in Rows : t >= r /\ t < s => listed[t].party = 0
    BY <2>2, RowNumbers
  <2> QED BY <2>2, <2>3, <2>4
<1> QED BY <1>1, <1>2

-----------------------------------------------------------------------------
(* The steps of a run.                                                     *)

LEMMA RowInterval ==
  ASSUME NEW r \in Rows \union {0}
  PROVE  /\ r + 1 \in Nat
         /\ r + 1 \in Rows \/ \A s \in Rows : s <= r
         /\ \A s \in Rows : s \in Nat /\ s # 0 /\ (s < r + 1 => s <= r)
<1>1. Cardinality(Rows) \in Nat
  BY PartyAssumption, FS_CardinalityType
<1> QED BY <1>1, ImportAssumption

LEMMA NoRunFits == RunFit(NoRun) /\ NoRun \in RunRows /\ NoRun.next \notin Kinds
BY RowNumbers DEF RunFit, NoRun, RunRows, Steps, RefRows, NoRefs

LEMMA IdleRun ==
  ASSUME ImportInv, NEW i \in Importers, run[i].next \notin Kinds
  PROVE  call[i] = NoCall
BY DEF ImportInv, Issued

LEMMA StartRunInv ==
  ASSUME IInv, NEW i \in Importers, NEW m, NEW at, StartRun(i, m, at),
         RunFit([m EXCEPT !.row = at.row, !.next = at.next])
  PROVE  IInv' /\ Later
<1> DEFINE n == [m EXCEPT !.row = at.row, !.next = at.next]
<1>1. /\ run[i] = NoRun /\ runs > 0 /\ runs' = runs - 1 /\ run' = [run EXCEPT ![i] = n]
      /\ UNCHANGED partyVars /\ batch' = batch /\ refs' = refs
  BY DEF StartRun
<1> HIDE DEF n
<1>2. PartyInv' /\ Later
  BY <1>1, Idle DEF IInv
<1>3. RefsLater
  BY <1>1 DEF RefsLater
<1>4. PICK o : o = n
  OBVIOUS
<1>5. RunFit(o)'
  BY <1>2, <1>3, <1>4, RunFitLater DEF n
<1>6. call' = call /\ call[i] = NoCall
  BY <1>1, NoRunFits, IdleRun DEF IInv, partyVars
<1>7. RefsFit' /\ BatchFit'
  BY <1>1, <1>2, RefsFitLater DEF IInv, ImportInv, BatchFit
<1> QED BY <1>1, <1>2, <1>3, <1>4, <1>5, <1>6, <1>7, RunStep DEF IInv

LEMMA StartExecuteInv ==
  ASSUME IInv, NEW i \in Importers, StartExecute(i)
  PROVE  IInv' /\ Later
<1> DEFINE m == [NoRun EXCEPT !.task = "execute"]
           at == ExecuteFrom(1)
           n == [m EXCEPT !.row = at.row, !.next = at.next]
<1>1. StartRun(i, m, at)
  BY DEF StartExecute
<1>2. \/ at.row = 1 /\ 1 \in Rows /\ at.next = "party"
      \/ at.row = 0 /\ at.next = "finish" /\ Rows = {}
  BY RowInterval, RowNumbers DEF ExecuteFrom
<1>3. /\ n \in RunRows /\ n.task = "execute" /\ n.row = at.row /\ n.next = at.next /\ n.made = NoRefs
      /\ \A r \in Rows : n.listed[r] = NoRefs
  <2>1. PICK z : z = NoRun
    OBVIOUS
  <2>2. z \in RunRows /\ z.made = NoRefs /\ \A r \in Rows : z.listed[r] = NoRefs
    BY <2>1, NoRunFits DEF NoRun
  <2>3. n = [z EXCEPT !.task = "execute", !.row = at.row, !.next = at.next]
    BY <2>1, <2>2 DEF RunRows
  <2>4. at.row \in Rows \union {0} /\ at.next \in Steps
    BY <1>2, ImportAssumption DEF Steps
  <2> HIDE DEF n, at
  <2> QED BY <2>2, <2>3, <2>4 DEF RunRows
<1> HIDE DEF n, at
<1>4. Before(n) = {}
  <2>1. \A r \in Rows : ~ (r < 1)
    BY RowNumbers
  <2>2. CASE at.row = 1 /\ at.next = "party"
    BY <1>3, <2>1, <2>2 DEF Before
  <2>3. CASE Rows = {}
    BY <2>3 DEF Before
  <2> QED BY <1>2, <2>2, <2>3
<1>5. ExecuteFit(n)
  BY <1>2, <1>3, <1>4 DEF ExecuteFit
<1>6. RunFit(n)
  BY <1>2, <1>3, <1>5 DEF RunFit
<1> QED BY <1>1, <1>6, StartRunInv DEF n

LEMMA StartReverseInv ==
  ASSUME IInv, NEW i \in Importers, StartReverse(i)
  PROVE  IInv' /\ Later
<1>1. PICK at : at = ReverseFrom(refs, 1)
  OBVIOUS
<1> DEFINE m == [NoRun EXCEPT !.task = "reverse", !.listed = refs]
           n == [m EXCEPT !.row = at.row, !.next = at.next]
<1>2. StartRun(i, m, at)
  BY <1>1 DEF StartReverse
<1>3. \/ at.next = "finish" /\ at.row = 0 /\ \A s \in Rows : s >= 1 => refs[s].party = 0
      \/ /\ at.row \in Rows /\ at.row >= 1 /\ refs[at.row].party # 0
         /\ \A s \in Rows : s >= 1 /\ s < at.row => refs[s].party = 0
         /\ at.next = IF refs[at.row].location # 0 THEN "reverseLocation" ELSE "reverseContact"
  BY <1>1, ReverseNext
<1>4. refs \in [Rows -> RefRows] /\ \A r \in Rows : Entities(r, refs[r])
  BY DEF IInv, ImportInv, RefsFit
<1>5. /\ n \in RunRows /\ n.task = "reverse" /\ n.row = at.row /\ n.next = at.next /\ n.made = NoRefs
      /\ n.listed = refs
  <2>1. PICK z : z = NoRun
    OBVIOUS
  <2>2. z \in RunRows /\ z.made = NoRefs
    BY <2>1, NoRunFits DEF NoRun
  <2>3. n = [z EXCEPT !.task = "reverse", !.listed = refs, !.row = at.row, !.next = at.next]
    BY <2>1, <2>2 DEF RunRows
  <2>4. at.row \in Rows \union {0} /\ at.next \in Steps
    BY <1>3, ImportAssumption DEF Steps
  <2> HIDE DEF n
  <2> QED BY <1>4, <2>2, <2>3, <2>4 DEF RunRows
<1> HIDE DEF n
<1>6. \A r \in Before(n) : n.listed[r].party = 0
  BY <1>3, <1>5, RowNumbers DEF Before
<1>7. ReverseFit(n)
  <2>1. n.next \in {"reverseContact", "reverseParty"} => Gone(n.listed[n.row])
    BY <1>3, <1>5 DEF Gone
  <2> QED BY <1>3, <1>4, <1>5, <1>6, <2>1 DEF ReverseFit
<1>8. RunFit(n)
  BY <1>3, <1>5, <1>7 DEF RunFit
<1> QED BY <1>2, <1>8, StartRunInv DEF n

\* The command of a run asks for what the run knows.
LEMMA CommandFits ==
  ASSUME IInv, NEW m, RunFit(m), m.next \in Kinds
  PROVE  Fit(Command(m)) /\ Command(m).key = KeyOf(m.next, m.row) /\ Command(m) \in CallRows
<1>1. m \in RunRows /\ m.row \in Rows /\ m.row \in Nat
  BY RowNumbers, ImportAssumption DEF RunFit
<1>2. \/ m.task = "execute" /\ ExecuteFit(m) /\ m.next \in {"party", "contact", "location"}
      \/ m.task = "reverse" /\ ReverseFit(m) /\ m.next \in {"reverseLocation", "reverseParty"}
  <2>1. m.task # "none"
    BY NoRunFits DEF RunFit
  <2>2. m.task \in {"execute", "reverse"}
    BY <1>1, <2>1 DEF RunRows
  <2> QED BY <2>2, ImportAssumption DEF RunFit, ExecuteFit, ReverseFit
<1>3. PICK e : e = m.listed[m.row]
  OBVIOUS
<1>4. m.made.party \in Nat /\ e.party \in Nat /\ e.location \in Nat
  BY <1>1, <1>3 DEF RunRows, RefRows
<1>5. m.next \in {"contact", "location"} => /\ Saved("party", m.row, m.made.party)
                                            /\ m.made.party \in DOMAIN parties /\ m.made.party # 0
  BY <1>2, SavedMeans, RowFacts DEF ExecuteFit, IInv, PartyInv, Meaning
<1>6. m.next \in {"reverseLocation", "reverseParty"} => e.party # 0 /\ Entities(m.row, e)
  BY <1>1, <1>2, <1>3 DEF ReverseFit, ExecuteFit
<1>7. m.next \in {"reverseLocation", "reverseParty"} => e.party \in DOMAIN parties
  BY <1>6, SavedMeans DEF Entities, NoRefs, IInv, PartyInv, Meaning
<1>8. m.next = "reverseLocation" => /\ e.location # 0 /\ Saved("location", m.row, e.location)
                                    /\ e.location \in DOMAIN locations
  <2> SUFFICES ASSUME m.next = "reverseLocation"
               PROVE  /\ e.location # 0 /\ Saved("location", m.row, e.location)
                      /\ e.location \in DOMAIN locations
    OBVIOUS
  <2>1. e.location # 0
    BY <1>2, <1>3 DEF ReverseFit
  <2>2. Saved("location", m.row, e.location)
    BY <1>6, <2>1 DEF Entities, NoRefs
  <2> QED BY <2>1, <2>2, SavedMeans DEF IInv, PartyInv, Meaning
<1> DEFINE j == Command(m)
<1>9. /\ j.at = "lookup" /\ j.key = [kind |-> m.next, row |-> m.row] /\ j.target = 0 /\ j.request = 0
      /\ j.op = CASE m.next = "party" -> "CreateParty" [] m.next = "contact" -> "UpdateContact"
                  [] m.next = "location" -> "CreateLocation" [] m.next = "reverseLocation" -> "DeactivateLocation"
                  [] m.next = "reverseParty" -> "DeactivateParty"
      /\ m.next \in {"contact", "location"} => j.party = m.made.party
      /\ m.next = "reverseParty" => j.party = e.party
      /\ m.next \in {"party", "reverseLocation"} => j.party = 0
      /\ m.next = "reverseLocation" => j.location = e.location
      /\ m.next # "reverseLocation" => j.location = 0
      /\ j \in CallRows
  <2>1. CASE m.next = "party"
    BY <1>1, <2>1 DEF Command, KeyOf, NoCall, NoKey, CallRows, Ops, OfParty, Statements, RunRows
  <2>2. CASE m.next = "contact"
    BY <1>1, <1>4, <2>2 DEF Command, KeyOf, NoCall, NoKey, CallRows, Ops, OfParty, Statements, RunRows
  <2>3. CASE m.next = "location"
    BY <1>1, <1>4, <2>3 DEF Command, KeyOf, NoCall, NoKey, CallRows, Ops, OfParty, Statements, RunRows
  <2>4. CASE m.next = "reverseLocation"
    BY <1>1, <1>3, <1>4, <2>4 DEF Command, KeyOf, NoCall, NoKey, CallRows, Ops, OfParty, Statements, RunRows
  <2>5. CASE m.next = "reverseParty"
    BY <1>1, <1>3, <1>4, <2>5 DEF Command, KeyOf, NoCall, NoKey, CallRows, Ops, OfParty, Statements, RunRows
  <2> QED BY <1>2, <2>1, <2>2, <2>3, <2>4, <2>5
<1> HIDE DEF j
<1>10. j.op \in Ops /\ j.op \notin Decisions /\ j.op # "RequestPartyMerge" /\ j.op # "UpdateParty"
  BY <1>2, <1>9 DEF Ops, OfParty, Decisions
<1>11. Stage(j)
  BY <1>9, <1>10 DEF Stage
<1>12. Subject(j)
  BY <1>2, <1>5, <1>6, <1>7, <1>8, <1>9, <1>10 DEF Subject, OfParty
<1>13. Fresh(j)
  BY <1>9, <1>10 DEF Fresh, AfterRead
<1>14. KeyFit(j)
  <2>1. m.next = "location" => m.row \in Located
    BY <1>2 DEF ExecuteFit
  <2> QED BY <1>1, <1>2, <1>5, <1>8, <1>9, <2>1, RowNumbers DEF KeyFit, NoKey
<1> QED BY <1>9, <1>11, <1>12, <1>13, <1>14 DEF Fit, j, KeyOf

LEMMA IssueInv ==
  ASSUME IInv, NEW i \in Importers, Issue(i)
  PROVE  IInv' /\ Later
<1>1. PICK m, k : m = run[i] /\ k = Command(m)
  OBVIOUS
<1>2. m.next \in Kinds /\ call[i] = NoCall /\ call' = [call EXCEPT ![i] = k]
      /\ UNCHANGED <<rows, keys, expired, left, importVars>>
  BY <1>1 DEF Issue
<1>3. Fit(k) /\ k.key = KeyOf(m.next, m.row)
  BY <1>1, <1>2, CommandFits DEF IInv, ImportInv, RunsFit
<1>4. i \in Calls
  BY ImportAssumption
<1>5. PartyInv' /\ Later
  BY <1>2, <1>3, <1>4, ProceedInv DEF IInv, Proceed
<1>6. UNCHANGED <<batch, refs, run, runs>>
  BY <1>2 DEF importVars
<1>7. RefsLater
  BY <1>6 DEF RefsLater
<1>8. RunFit(m)'
  BY <1>1, <1>5, <1>7, RunFitLater DEF IInv, ImportInv, RunsFit
<1>9. run' = [run EXCEPT ![i] = m]
  BY <1>1, <1>6 DEF IInv, ImportInv, RunsFit
<1>10. RefsFit' /\ BatchFit'
  BY <1>5, <1>6, RefsFitLater DEF IInv, ImportInv, BatchFit
<1>11. /\ \A j \in Importers \ {i} : call'[j] = call[j]
       /\ call'[i] # NoCall => m.next \in Kinds /\ call'[i].key = KeyOf(m.next, m.row)
  BY <1>2, <1>3, <1>4, ImportAssumption DEF IInv, PartyInv, CallsFit
<1> QED BY <1>5, <1>7, <1>8, <1>9, <1>10, <1>11, RunStep DEF IInv

\* What a run knows once its command has returned x.
LEMMA AfterFits ==
  ASSUME IInv, NEW m, RunFit(m), m.next \in Kinds, NEW x \in Nat, Saved(m.next, m.row, x)
  PROVE  RunFit(After(m, x))
<1>1. m \in RunRows /\ m.row \in Rows /\ m.row \in Nat /\ m.row # 0
  BY RowNumbers, ImportAssumption DEF RunFit
<1>2. \/ m.task = "execute" /\ ExecuteFit(m) /\ m.next \in {"party", "contact", "location"}
      \/ m.task = "reverse" /\ ReverseFit(m) /\ m.next \in {"reverseLocation", "reverseParty"}
  <2>1. m.task # "none"
    BY NoRunFits DEF RunFit
  <2>2. m.task \in {"execute", "reverse"}
    BY <1>1, <2>1 DEF RunRows
  <2> QED BY <2>2, ImportAssumption DEF RunFit, ExecuteFit, ReverseFit
<1>3. Meaning(m.next, m.row, x)
  BY SavedMeans DEF IInv, PartyInv
<1>4. m.made \in RefRows
  BY <1>1 DEF RunRows
<1>5. CASE m.next = "party"
  <2>1. PICK e : e = [m.made EXCEPT !.party = x]
    OBVIOUS
  <2>2. e \in RefRows /\ e.party = x /\ e.contact = 0 /\ e.location = 0
    BY <1>2, <1>4, <1>5, <2>1 DEF ExecuteFit, NoRefs, RefRows
  <2> DEFINE n == [m EXCEPT !.next = "contact", !.made = e]
  <2>3. After(m, x) = n
    <3>1. After(m, x) = [m EXCEPT !.next = "contact", !.made.party = x]
      BY <1>5 DEF After
    <3> QED BY <1>1, <2>1, <3>1 DEF RunRows
  <2>4. /\ n \in RunRows /\ n.task = m.task /\ n.row = m.row /\ n.next = "contact" /\ n.made = e
        /\ n.listed = m.listed
    BY <1>1, <2>2, ImportAssumption DEF RunRows, Steps
  <2> HIDE DEF n
  <2>5. ExecuteFit(n)
    BY <1>1, <1>2, <1>5, <2>2, <2>4 DEF ExecuteFit, Before
  <2> QED BY <1>1, <1>2, <1>5, <2>3, <2>4, <2>5 DEF RunFit
<1>6. CASE m.next = "contact"
  <2>1. PICK e : e = [m.made EXCEPT !.contact = x]
    OBVIOUS
  <2>2. e \in RefRows /\ e.party = m.made.party /\ e.contact = x /\ e.location = 0
    BY <1>2, <1>4, <1>6, <2>1 DEF ExecuteFit, RefRows
  <2>3. PICK to : to = IF m.row \in Located THEN "location" ELSE "record"
    OBVIOUS
  <2> DEFINE n == [m EXCEPT !.next = to, !.made = e]
  <2>4. After(m, x) = n
    <3>1. After(m, x) = [m EXCEPT !.next = IF m.row \in Located THEN "location" ELSE "record", !.made.contact = x]
      BY <1>6 DEF After
    <3> QED BY <1>1, <2>1, <2>3, <3>1 DEF RunRows
  <2>5. /\ n \in RunRows /\ n.task = m.task /\ n.row = m.row /\ n.next = to /\ n.made = e
        /\ n.listed = m.listed
    BY <1>1, <2>2, <2>3, ImportAssumption DEF RunRows, Steps
  <2> HIDE DEF n
  <2>6. ExecuteFit(n)
    BY <1>1, <1>2, <1>6, <2>2, <2>3, <2>5 DEF ExecuteFit, Before
  <2> QED BY <1>1, <1>2, <1>6, <2>3, <2>4, <2>5, <2>6 DEF RunFit
<1>7. CASE m.next = "location"
  <2>1. PICK e : e = [m.made EXCEPT !.location = x]
    OBVIOUS
  <2>2. e \in RefRows /\ e.party = m.made.party /\ e.contact = m.made.contact /\ e.location = x
    BY <1>4, <2>1 DEF RefRows
  <2> DEFINE n == [m EXCEPT !.next = "record", !.made = e]
  <2>3. After(m, x) = n
    <3>1. After(m, x) = [m EXCEPT !.next = "record", !.made.location = x]
      BY <1>7 DEF After
    <3> QED BY <1>1, <2>1, <3>1 DEF RunRows
  <2>4. /\ n \in RunRows /\ n.task = m.task /\ n.row = m.row /\ n.next = "record" /\ n.made = e
        /\ n.listed = m.listed
    BY <1>1, <2>2, ImportAssumption DEF RunRows, Steps
  <2> HIDE DEF n
  <2>5. ExecuteFit(n)
    BY <1>1, <1>2, <1>7, <2>2, <2>4 DEF ExecuteFit, Before
  <2> QED BY <1>1, <1>2, <1>7, <2>3, <2>4, <2>5 DEF RunFit
<1>8. CASE m.next = "reverseLocation"
  <2>1. PICK e : e = m.listed[m.row]
    OBVIOUS
  <2>2. e.party # 0 /\ e.location # 0 /\ Entities(m.row, e)
    BY <1>1, <1>2, <1>8, <2>1 DEF ReverseFit, ExecuteFit
  <2>3. Saved("location", m.row, e.location) /\ Saved("location", m.row, x)
    BY <1>3, <1>8, <2>2 DEF Entities, NoRefs, Meaning
  <2>4. e.location = x
    BY <2>3, SavedOnce DEF IInv, PartyInv
  <2>5. Gone(e)
    BY <1>3, <1>8, <2>4 DEF Gone, Meaning
  <2> DEFINE n == [m EXCEPT !.next = "reverseContact"]
  <2>6. After(m, x) = n
    BY <1>8 DEF After
  <2>7. /\ n \in RunRows /\ n.task = m.task /\ n.row = m.row /\ n.next = "reverseContact" /\ n.made = m.made
        /\ n.listed = m.listed
    BY <1>1 DEF RunRows, Steps
  <2> HIDE DEF n
  <2>8. ReverseFit(n)
    BY <1>1, <1>2, <1>8, <2>1, <2>2, <2>5, <2>7 DEF ReverseFit, ExecuteFit, Before
  <2> QED BY <1>1, <1>2, <1>8, <2>6, <2>7, <2>8 DEF RunFit, ExecuteFit
<1>9. CASE m.next = "reverseParty"
  <2>1. PICK l, at : l = m.listed /\ at = ReverseFrom(l, m.row + 1)
    OBVIOUS
  <2>2. \/ at.next = "finish" /\ at.row = 0 /\ \A s \in Rows : s >= m.row + 1 => l[s].party = 0
        \/ /\ at.row \in Rows /\ at.row >= m.row + 1 /\ l[at.row].party # 0
           /\ \A s \in Rows : s >= m.row + 1 /\ s < at.row => l[s].party = 0
           /\ at.next = IF l[at.row].location # 0 THEN "reverseLocation" ELSE "reverseContact"
    <3>1. m.row + 1 \in Nat
      BY <1>1
    <3> QED BY <2>1, <3>1, ReverseNext
  <2> DEFINE n == [m EXCEPT !.row = at.row, !.next = at.next]
  <2>3. After(m, x) = n
    BY <1>9, <2>1 DEF After
  <2>4. /\ n \in RunRows /\ n.task = m.task /\ n.row = at.row /\ n.next = at.next /\ n.made = m.made
        /\ n.listed = l
    <3>1. at.row \in Rows \union {0} /\ at.next \in Steps
      BY <2>2, ImportAssumption DEF Steps
    <3> QED BY <1>1, <2>1, <3>1 DEF RunRows
  <2> HIDE DEF n
  <2>5. ReverseFit(m) /\ m.task = "reverse"
    BY <1>2, <1>9
  <2>6. \A r \in Before(n) : l[r].party # 0 => Gone(l[r]) /\ Left(l[r])
    <3> SUFFICES ASSUME NEW r \in Before(n), l[r].party # 0 PROVE Gone(l[r]) /\ Left(l[r])
      OBVIOUS
    <3>1. r \in Rows /\ r \in Nat
      BY RowNumbers DEF Before
    <3>2. r < m.row + 1
      <4>1. CASE at.next = "finish" /\ \A s \in Rows : s >= m.row + 1 => l[s].party = 0
        BY <1>1, <3>1, <4>1
      <4>2. CASE /\ at.row \in Rows /\ at.next # "finish"
                 /\ \A s \in Rows : s >= m.row + 1 /\ s < at.row => l[s].party = 0
        <5>1. r < at.row
          BY <2>4, <4>2 DEF Before
        <5> QED BY <1>1, <3>1, <4>2, <5>1, RowNumbers
      <4> QED BY <2>2, <4>1, <4>2
    <3>3. CASE r < m.row
      BY <2>1, <2>5, <3>1, <3>3 DEF ReverseFit, Before
    <3>4. CASE r = m.row
      BY <1>9, <2>1, <2>5, <3>4 DEF ReverseFit
    <3> QED BY <1>1, <3>1, <3>2, <3>3, <3>4
  <2>7. n.next = "reverseContact" => Gone(l[n.row])
    BY <2>2, <2>4 DEF Gone
  <2>8. ReverseFit(n)
    BY <2>1, <2>2, <2>4, <2>5, <2>6, <2>7 DEF ReverseFit
  <2> QED BY <2>2, <2>3, <2>4, <2>5, <2>8 DEF RunFit
<1> QED BY <1>2, <1>5, <1>6, <1>7, <1>8, <1>9

LEMMA ContinueInv ==
  ASSUME IInv, NEW i \in Importers, Continue(i)
  PROVE  IInv' /\ Later
<1>1. PICK m, k : m = run[i] /\ k = call[i]
  OBVIOUS
<1>2. PICK n : n = After(m, k.result)
  OBVIOUS
<1>3. /\ k.at = "answered" /\ call' = [call EXCEPT ![i] = NoCall] /\ run' = [run EXCEPT ![i] = n]
      /\ UNCHANGED <<rows, keys, expired, left, batch, refs, runs>>
  BY <1>1, <1>2 DEF Continue, IInv, ImportInv, RunsFit
<1>4. i \in Calls
  BY ImportAssumption
<1>5. Fit(k) /\ k \in CallRows /\ k # NoCall
  BY <1>1, <1>3, <1>4 DEF IInv, PartyInv, CallsFit, Fit, NoCall
<1>6. m.next \in Kinds /\ k.key = [kind |-> m.next, row |-> m.row]
  BY <1>1, <1>5 DEF IInv, ImportInv, Issued, KeyOf
<1>7. Saved(m.next, m.row, k.result) /\ k.result \in Nat
  <2>1. Saved(k.key.kind, k.key.row, k.result)
    BY <1>3, <1>5 DEF Fit, KeyFit
  <2>2. k.key.kind = m.next /\ k.key.row = m.row
    BY <1>6
  <2> QED BY <1>5, <2>1, <2>2 DEF CallRows
<1>8. RunFit(n)
  BY <1>1, <1>2, <1>6, <1>7, AfterFits DEF IInv, ImportInv, RunsFit
<1>9. PartyInv' /\ Later
  BY <1>3, <1>4, NoCallFits, ProceedInv DEF IInv, Proceed
<1>10. RefsLater
  BY <1>3 DEF RefsLater
<1>11. RunFit(n)'
  BY <1>8, <1>9, <1>10, RunFitLater
<1>12. RefsFit' /\ BatchFit'
  BY <1>3, <1>9, RefsFitLater DEF IInv, ImportInv, BatchFit
<1>13. /\ \A j \in Importers \ {i} : call'[j] = call[j]
       /\ call'[i] = NoCall
  BY <1>3, <1>4, ImportAssumption DEF IInv, PartyInv, CallsFit
<1> QED BY <1>3, <1>9, <1>10, <1>11, <1>12, <1>13, RunStep DEF IInv

LEMMA RecordInv ==
  ASSUME IInv, NEW i \in Importers, Record(i)
  PROVE  IInv' /\ Later
<1>1. PICK m, e, r, at : m = run[i] /\ e = m.made /\ r = m.row /\ at = ExecuteFrom(r + 1)
  OBVIOUS
<1> DEFINE n == [m EXCEPT !.row = at.row, !.next = at.next, !.made = NoRefs]
<1>2. /\ m.next = "record" /\ refs' = [refs EXCEPT ![r] = e] /\ run' = [run EXCEPT ![i] = n]
      /\ UNCHANGED <<partyVars, batch, runs>>
  BY <1>1 DEF Record
<1>3. m \in RunRows /\ RunFit(m) /\ r \in Rows
  BY <1>1, <1>2, ImportAssumption DEF IInv, ImportInv, RunsFit, RunFit
<1>4. m.task = "execute" /\ ExecuteFit(m)
  <2>1. m.task # "none"
    BY <1>2, <1>3 DEF RunFit, NoRun
  <2>2. m.task \in {"execute", "reverse"}
    BY <1>3, <2>1 DEF RunRows
  <2> QED BY <1>2, <1>3, <2>2 DEF RunFit, ReverseFit
<1>5. e \in RefRows /\ Entities(r, e)
  BY <1>1, <1>2, <1>3, <1>4 DEF RunRows, ExecuteFit, Entities
<1>6. e # NoRefs
  <2>1. e.party \in DOMAIN parties
    BY <1>1, <1>2, <1>4, SavedMeans DEF ExecuteFit, IInv, PartyInv, Meaning
  <2> QED BY <2>1, RowFacts DEF IInv, PartyInv, NoRefs
<1>7. PartyInv' /\ Later
  BY <1>2, Idle DEF IInv
<1>8. refs \in [Rows -> RefRows] /\ \A s \in Rows : Entities(s, refs[s])
  BY DEF IInv, ImportInv, RefsFit
<1>9. RefsLater
  BY <1>2, <1>3, <1>6, <1>8 DEF RefsLater
<1>10. RefsFit'
  <2>1. refs' \in [Rows -> RefRows]
    BY <1>2, <1>5, <1>8
  <2>2. ASSUME NEW s \in Rows PROVE Entities(s, refs[s])'
    <3>1. PICK f : f = refs'[s]
      OBVIOUS
    <3>2. Entities(s, f)
      BY <1>2, <1>3, <1>5, <1>8, <3>1
    <3>3. Entities(s, f)'
      BY <1>7, <3>2, EntitiesLater
    <3> QED BY <3>1, <3>3 DEF Entities
  <2> QED BY <2>1, <2>2 DEF RefsFit
<1>11. BatchFit'
  BY <1>2, <1>9 DEF IInv, ImportInv, BatchFit, RefsLater
<1>12. \/ at.row = r + 1 /\ r + 1 \in Rows /\ at.next = "party"
       \/ at.row = 0 /\ at.next = "finish" /\ \A s \in Rows : s <= r
  BY <1>1, <1>3, RowInterval DEF ExecuteFrom
<1>13. /\ n \in RunRows /\ n.task = m.task /\ n.row = at.row /\ n.next = at.next /\ n.made = NoRefs
       /\ n.listed = m.listed
  <2>1. at.row \in Rows \union {0} /\ at.next \in Steps /\ NoRefs \in RefRows
    BY <1>12, ImportAssumption DEF Steps, NoRefs, RefRows
  <2> QED BY <1>3, <2>1 DEF RunRows
<1> HIDE DEF n
<1>14. \A s \in Before(n) : s \in Before(m) \/ s = r
  <2> SUFFICES ASSUME NEW s \in Before(n) PROVE s \in Before(m) \/ s = r
    OBVIOUS
  <2>1. s \in Rows /\ s \in Nat /\ r \in Nat
    BY <1>3, RowNumbers DEF Before
  <2>2. s <= r
    BY <1>3, <1>12, <1>13, <2>1, RowInterval DEF Before
  <2>3. s < r \/ s = r
    BY <2>1, <2>2
  <2> QED BY <1>1, <2>1, <2>3 DEF Before
<1>15. PICK o : o = n
  OBVIOUS
<1>16. RunFit(o)'
  <2>1. \A s \in Before(n) : refs'[s] # NoRefs
    <3>1. \A s \in Before(m) : s \in Rows /\ refs[s] # NoRefs
      BY <1>4 DEF ExecuteFit, Before
    <3> QED BY <1>2, <1>3, <1>6, <1>8, <1>9, <1>14, <3>1 DEF RefsLater
  <2>2. ExecuteFit(o)'
    BY <1>4, <1>12, <1>13, <1>15, <2>1 DEF ExecuteFit, Before
  <2> QED BY <1>4, <1>12, <1>13, <1>15, <2>2 DEF RunFit
<1>17. call' = call /\ call[i] = NoCall
  BY <1>1, <1>2, IdleRun, ImportAssumption DEF IInv, partyVars
<1> QED BY <1>2, <1>7, <1>9, <1>10, <1>11, <1>15, <1>16, <1>17, RunStep DEF IInv

LEMMA ReverseContactInv ==
  ASSUME IInv, NEW i \in Importers, ReverseContact(i)
  PROVE  IInv' /\ Later
<1>1. PICK m, e, x : m = run[i] /\ e = m.listed[m.row] /\ x = e.contact
  OBVIOUS
<1> DEFINE n == [m EXCEPT !.next = "reverseParty"]
<1>2. /\ m.next = "reverseContact" /\ contacts' = [contacts EXCEPT ![x].active = FALSE]
      /\ run' = [run EXCEPT ![i] = n]
      /\ UNCHANGED <<parties, locations, requests, ahead, keys, expired, call, left, batch, refs, runs>>
  BY <1>1 DEF ReverseContact, IInv, ImportInv, RunsFit
<1>3. m \in RunRows /\ RunFit(m) /\ m.row \in Rows
  BY <1>1, <1>2, ImportAssumption DEF IInv, ImportInv, RunsFit, RunFit
<1>4. m.task = "reverse" /\ ReverseFit(m)
  <2>1. m.task # "none"
    BY <1>2, <1>3 DEF RunFit, NoRun
  <2>2. m.task \in {"execute", "reverse"}
    BY <1>3, <2>1 DEF RunRows
  <2> QED BY <1>2, <1>3, <2>2 DEF RunFit, ExecuteFit
<1>5. Entities(m.row, e) /\ e.party # 0 /\ Gone(e)
  BY <1>1, <1>2, <1>3, <1>4 DEF ReverseFit
<1>6. x \in DOMAIN contacts /\ contacts[x] \in EntityRows
  <2>1. Saved("contact", m.row, x)
    BY <1>1, <1>5 DEF Entities, NoRefs
  <2> QED BY <2>1, SavedMeans, RowFacts DEF IInv, PartyInv, Meaning
<1> DEFINE new == [contacts[x] EXCEPT !.active = FALSE]
<1>7. new \in EntityRows /\ new.row = contacts[x].row /\ new.of = contacts[x].of /\ ~new.active
  BY <1>6 DEF EntityRows
<1>8. contacts' = [contacts EXCEPT ![x] = new]
  BY <1>2
<1> HIDE DEF new
<1>9. /\ contacts' \in Seq(EntityRows) /\ DOMAIN contacts' = DOMAIN contacts
      /\ contacts'[x] = new /\ \A k \in DOMAIN contacts : k # x => contacts'[k] = contacts[k]
  <2>1. [contacts EXCEPT ![x] = new] \in [DOMAIN contacts -> EntityRows]
    BY <1>7, RowFacts DEF IInv, PartyInv
  <2> QED BY <1>6, <1>8, <2>1, Replaced DEF IInv, PartyInv, RowsTyped
<1>10. Later
  BY <1>2, <1>7, <1>9, PartiesSame DEF Later, RowsLater, KeysLater, IInv, PartyInv
<1>11. PartyInv'
  <2>1. RowsTyped'
    BY <1>2, <1>9 DEF IInv, PartyInv, RowsTyped
  <2>2. Referred'
    BY <1>2, <1>7, <1>9 DEF IInv, PartyInv, Referred
  <2>3. KeysUnique' /\ ApprovedIsMerged'
    BY <1>2 DEF IInv, PartyInv, KeysUnique, ApprovedIsMerged
  <2>4. KeysMean'
    <3> SUFFICES ASSUME NEW k \in DOMAIN keys PROVE Meaning(keys[k].kind, keys[k].row, keys[k].result)'
      BY <1>2 DEF KeysMean
    <3>1. PICK kind, r, y : kind = keys[k].kind /\ r = keys[k].row /\ y = keys[k].result
      OBVIOUS
    <3>2. Meaning(kind, r, y)'
      BY <1>10, <3>1, MeaningLater DEF IInv, PartyInv, KeysMean
    <3> QED BY <1>2, <3>1, <3>2 DEF Meaning
  <2>5. MadeKeyed'
    <3>1. \A k \in DOMAIN contacts' : contacts'[k].row = contacts[k].row
      BY <1>7, <1>9
    <3> QED BY <1>2, <1>9, <3>1 DEF IInv, PartyInv, MadeKeyed, Saved
  <2>6. CallsFit'
    <3>1. \A k : Fit(k) => Fit(k)'
      BY <1>10, <2>1, FitLater DEF IInv, PartyInv
    <3> SUFFICES ASSUME NEW c \in Calls PROVE Fit(call[c])'
      BY <1>2 DEF IInv, PartyInv, CallsFit
    <3>2. PICK k : k = call[c]
      OBVIOUS
    <3>3. Fit(k)'
      BY <3>1, <3>2 DEF IInv, PartyInv, CallsFit
    <3> QED BY <1>2, <3>2, <3>3 DEF Fit, Stage, Subject, Fresh, KeyFit
  <2> QED BY <2>1, <2>2, <2>3, <2>4, <2>5, <2>6 DEF PartyInv
<1>12. Gone(e)' /\ Left(e)'
  <2>1. Left(e)'
    BY <1>1, <1>6, <1>7, <1>9 DEF Left
  <2> QED BY <1>5, <1>10, <2>1, GoneLater
<1>13. /\ n \in RunRows /\ n.task = m.task /\ n.row = m.row /\ n.next = "reverseParty" /\ n.made = m.made
       /\ n.listed = m.listed
  BY <1>3, ImportAssumption DEF RunRows, Steps
<1> HIDE DEF n
<1>14. PICK o : o = n
  OBVIOUS
<1>15. RefsLater
  BY <1>2 DEF RefsLater
<1>16. RunFit(o)'
  <2>1. ReverseFit(m)'
    BY <1>3, <1>4, <1>10, <1>15, RunFitLater DEF RunFit
  <2>2. ReverseFit(o)'
    BY <1>1, <1>2, <1>5, <1>12, <1>13, <1>14, <2>1 DEF ReverseFit, Before
  <2> QED BY <1>3, <1>4, <1>13, <1>14, <2>2 DEF RunFit
<1>17. call[i] = NoCall
  BY <1>1, <1>2, IdleRun, ImportAssumption DEF IInv
<1>18. RefsFit' /\ BatchFit'
  BY <1>2, <1>10, RefsFitLater DEF IInv, ImportInv, BatchFit
<1> QED BY <1>2, <1>10, <1>11, <1>14, <1>15, <1>16, <1>17, <1>18, RunStep DEF IInv

LEMMA FinishInv ==
  ASSUME IInv, NEW i \in Importers, Finish(i)
  PROVE  IInv' /\ Later
<1>1. PICK m : m = run[i]
  OBVIOUS
<1>2. /\ m.next = "finish" /\ batch' = (IF m.task = "execute" THEN "imported" ELSE "rolled_back")
      /\ run' = [run EXCEPT ![i] = NoRun] /\ UNCHANGED <<partyVars, refs, runs>>
  BY <1>1 DEF Finish
<1>3. PartyInv' /\ Later
  BY <1>2, Idle DEF IInv
<1>4. RefsLater
  BY <1>2 DEF RefsLater
<1>5. RunFit(NoRun)'
  BY <1>3, <1>4, NoRunFits, RunFitLater
<1>6. BatchFit'
  <2>1. m.task = "execute" => \A r \in Rows : refs[r] # NoRefs
    BY <1>1, <1>2 DEF IInv, ImportInv, RunsFit, RunFit, ExecuteFit, Before
  <2> QED BY <1>2, <2>1 DEF IInv, ImportInv, BatchFit
<1>7. call' = call /\ call[i] = NoCall
  BY <1>1, <1>2, IdleRun, ImportAssumption DEF IInv, partyVars
<1>8. RefsFit'
  BY <1>2, <1>3, RefsFitLater DEF IInv, ImportInv
<1> QED BY <1>2, <1>3, <1>4, <1>5, <1>6, <1>7, <1>8, RunStep DEF IInv

LEMMA DieInv ==
  ASSUME IInv, NEW i \in Importers, Die(i)
  PROVE  IInv' /\ Later
<1>1. /\ run' = [run EXCEPT ![i] = NoRun] /\ call' = [call EXCEPT ![i] = NoCall]
      /\ UNCHANGED <<rows, keys, expired, left, batch, refs, runs>>
  BY DEF Die
<1>2. i \in Calls
  BY ImportAssumption
<1>3. PartyInv' /\ Later
  BY <1>1, <1>2, NoCallFits, ProceedInv DEF IInv, Proceed
<1>4. RefsLater
  BY <1>1 DEF RefsLater
<1>5. RunFit(NoRun)'
  BY <1>3, <1>4, NoRunFits, RunFitLater
<1>6. RefsFit' /\ BatchFit'
  BY <1>1, <1>3, RefsFitLater DEF IInv, ImportInv, BatchFit
<1>7. /\ \A j \in Importers \ {i} : call'[j] = call[j]
      /\ call'[i] = NoCall
  BY <1>1, <1>2, ImportAssumption DEF IInv, PartyInv, CallsFit
<1> QED BY <1>1, <1>3, <1>4, <1>5, <1>6, <1>7, RunStep DEF IInv

-----------------------------------------------------------------------------
(* The invariant.                                                          *)

LEMMA InitIInv == Init => IInv
<1> SUFFICES ASSUME Init PROVE IInv
  OBVIOUS
<1>1. PICK s \in Scenarios : /\ PartyInit(s) /\ batch = "validated" /\ refs = [r \in Rows |-> NoRefs]
                             /\ run = [i \in Importers |-> NoRun] /\ runs = s.runs
  BY DEF Init
<1>2. /\ parties = [p \in 1..s.parties |-> [status |-> "active", into |-> 0, version |-> 0,
                                            account |-> p = 1, row |-> 0]]
      /\ contacts = <<>> /\ locations = <<>> /\ requests = s.asked /\ keys = <<>> /\ expired = 0 /\ ahead = {}
      /\ call = [c \in Calls |-> NoCall] /\ left = s.commands
  BY <1>1 DEF PartyInit
<1>3. /\ s.parties \in Nat /\ s.commands \in Nat /\ s.runs \in Nat
      /\ s.asked \in Seq([status : {"pending"}, source : 1..s.parties, target : 1..s.parties])
  BY PartyAssumption
<1>4. /\ parties \in Seq(PartyRows) /\ DOMAIN parties = 1..s.parties
      /\ \A p \in DOMAIN parties : parties[p].into = 0 /\ parties[p].status = "active" /\ parties[p].row = 0
  <2>1. ASSUME NEW p \in 1..s.parties
        PROVE  /\ parties[p] \in PartyRows /\ parties[p].into = 0 /\ parties[p].status = "active"
               /\ parties[p].row = 0
    <3>1. PICK a : a = (p = 1)
      OBVIOUS
    <3>2. a \in BOOLEAN
      BY <3>1
    <3>3. parties[p] = [status |-> "active", into |-> 0, version |-> 0, account |-> a, row |-> 0]
      BY <1>2, <3>1
    <3> QED BY <3>2, <3>3 DEF PartyRows
  <2>2. parties \in [1..s.parties -> PartyRows]
    BY <1>2, <2>1
  <2>3. parties \in Seq(PartyRows)
    BY <1>3, <2>2, SeqDef
  <2>4. DOMAIN parties = 1..s.parties
    BY <1>2
  <2> QED BY <2>1, <2>3, <2>4
<1>5. /\ requests \in Seq(RequestRows)
      /\ \A r \in DOMAIN requests : /\ requests[r].status = "pending" /\ requests[r].source \in 1..s.parties
                                    /\ requests[r].target \in 1..s.parties
  <2>1. Len(requests) \in Nat /\ DOMAIN requests = 1..Len(requests) /\ requests \in [1..Len(requests) ->
          [status : {"pending"}, source : 1..s.parties, target : 1..s.parties]]
    BY <1>2, <1>3, LenProperties
  <2>2. \A q \in [status : {"pending"}, source : 1..s.parties, target : 1..s.parties] :
          q \in RequestRows /\ q.status = "pending" /\ q.source \in 1..s.parties /\ q.target \in 1..s.parties
    BY <1>3 DEF RequestRows
  <2>3. requests \in [1..Len(requests) -> RequestRows]
    BY <2>1, <2>2
  <2> QED BY <2>1, <2>2, <2>3, SeqDef
<1>6. RowsTyped
  <2>1. contacts \in Seq(EntityRows) /\ locations \in Seq(EntityRows) /\ keys \in Seq(KeyRows) /\ Len(keys) = 0
    BY <1>2
  <2> QED BY <1>2, <1>3, <1>4, <1>5, <2>1 DEF RowsTyped
<1>7. DOMAIN contacts = {} /\ DOMAIN locations = {} /\ DOMAIN keys = {}
  BY <1>2
<1>8. Referred /\ KeysMean /\ KeysUnique /\ MadeKeyed /\ ApprovedIsMerged
  BY <1>2, <1>4, <1>5, <1>7 DEF Referred, KeysMean, KeysUnique, MadeKeyed, ApprovedIsMerged
<1>9. CallsFit
  BY <1>2, NoCallFits DEF CallsFit, Fit
<1>10. RunsFit /\ Issued
  BY <1>1, <1>2, NoRunFits, ImportAssumption DEF RunsFit, Issued
<1>11. RefsFit /\ BatchFit
  BY <1>1, <1>3 DEF RefsFit, BatchFit, RefRows, NoRefs, Entities
<1> QED BY <1>6, <1>8, <1>9, <1>10, <1>11 DEF IInv, PartyInv, ImportInv

LEMMA NextIInv ==
  ASSUME IInv, [Next]_vars
  PROVE  IInv' /\ RowsLater
<1>1. CASE UNCHANGED vars
  <2>1. UNCHANGED partyVars /\ UNCHANGED importVars
    BY <1>1 DEF vars
  <2>2. PartyInv' /\ Later
    BY <2>1, Idle DEF IInv
  <2>3. CallsKept
    BY <2>1 DEF CallsKept, partyVars
  <2> QED BY <2>1, <2>2, <2>3, ImportLater DEF IInv, Later
<1>2. ASSUME NEW c \in Users, Start(c) \/ Fail(c), UNCHANGED importVars PROVE IInv' /\ RowsLater
  <2>1. c \in Calls /\ c \notin Importers
    BY DEF Users
  <2>2. PartyInv' /\ Later
    BY <1>2, <2>1, StartInv, FailInv DEF IInv
  <2>3. CallsKept
    <3>1. \E j : call' = [call EXCEPT ![c] = j]
      BY <1>2 DEF Start, StartCreate, StartOnParty, StartRequest, StartDecide, StartOnLocation, Begin, Fail, Proceed
    <3> QED BY <2>1, <3>1, ImportAssumption DEF CallsKept, IInv, PartyInv, CallsFit
  <2> QED BY <1>2, <2>2, <2>3, ImportLater DEF IInv, Later
<1>3. ASSUME NEW c \in Calls, Execute(c), UNCHANGED importVars PROVE IInv' /\ RowsLater
  <2>1. PartyInv' /\ Later
    BY <1>3, ExecuteInv DEF IInv
  <2>2. CallsKept
    <3>1. PICK k : k = call[c]
      OBVIOUS
    <3>2. call \in [Calls -> CallRows] /\ k \in CallRows
      BY <3>1 DEF IInv, PartyInv, CallsFit
    <3>3. k # NoCall /\ \E j : call' = [call EXCEPT ![c] = j] /\ (j = NoCall \/ j.key = k.key)
      BY <1>3, <3>1, <3>2, ExecuteKeepsKey
    <3> QED BY <3>1, <3>2, <3>3, ImportAssumption DEF CallsKept
  <2> QED BY <1>3, <2>1, <2>2, ImportLater DEF IInv, Later
<1>4. CASE Expire /\ UNCHANGED importVars
  <2>1. /\ expired' = expired + 1 /\ expired < Len(keys) /\ UNCHANGED <<rows, keys, call, left>>
    BY <1>4 DEF Expire
  <2>2. Len(keys) \in Nat /\ expired \in Nat /\ left \in Nat
    BY LenProperties DEF IInv, PartyInv, RowsTyped
  <2>3. PartyInv' /\ Later
    BY <2>1, <2>2, CallsChange DEF IInv, PartyInv, CallsFit
  <2>4. CallsKept
    BY <2>1 DEF CallsKept
  <2> QED BY <1>4, <2>3, <2>4, ImportLater DEF IInv, Later
<1>5. ASSUME NEW i \in Importers,
             \/ StartExecute(i) \/ StartReverse(i) \/ Issue(i) \/ Continue(i)
             \/ Record(i) \/ ReverseContact(i) \/ Finish(i) \/ Die(i)
      PROVE  IInv' /\ RowsLater
  BY <1>5, StartExecuteInv, StartReverseInv, IssueInv, ContinueInv, RecordInv, ReverseContactInv, FinishInv,
     DieInv DEF Later
<1> QED BY <1>1, <1>2, <1>3, <1>4, <1>5 DEF Next

LEMMA IInvAlways == Spec => []IInv
BY InitIInv, NextIInv, PTL DEF Spec

-----------------------------------------------------------------------------
(* What follows from it.                                                   *)

LEMMA EntitiesExist ==
  ASSUME IInv, NEW r, NEW e \in RefRows, Entities(r, e)
  PROVE  /\ e \in Refs
         /\ e # NoRefs => /\ e.party \in DOMAIN parties /\ e.contact \in DOMAIN contacts
                          /\ r \in Located => e.location \in DOMAIN locations
<1>1. /\ Len(parties) \in Nat /\ DOMAIN parties = 1..Len(parties)
      /\ Len(contacts) \in Nat /\ DOMAIN contacts = 1..Len(contacts)
      /\ Len(locations) \in Nat /\ DOMAIN locations = 1..Len(locations)
  BY LenProperties DEF IInv, PartyInv, RowsTyped
<1>2. CASE e = NoRefs
  BY <1>1, <1>2 DEF NoRefs, Refs
<1>3. CASE e # NoRefs
  <2>1. e.party \in DOMAIN parties /\ e.contact \in DOMAIN contacts
    BY <1>3, SavedMeans DEF Entities, IInv, PartyInv, Meaning
  <2>2. IF r \in Located THEN e.location \in DOMAIN locations ELSE e.location = 0
    BY <1>3, SavedMeans DEF Entities, IInv, PartyInv, Meaning
  <2>3. e.party \in 0..Len(parties) /\ e.contact \in 0..Len(contacts) /\ e.location \in 0..Len(locations)
    BY <1>1, <2>1, <2>2
  <2> QED BY <2>1, <2>2, <2>3 DEF Refs, RefRows
<1> QED BY <1>2, <1>3

\* What a run has made so far exists.
LEMMA MadeExists ==
  ASSUME IInv, NEW m, RunFit(m)
  PROVE  m.made \in Refs
<1>1. /\ Len(parties) \in Nat /\ DOMAIN parties = 1..Len(parties)
      /\ Len(contacts) \in Nat /\ DOMAIN contacts = 1..Len(contacts)
      /\ Len(locations) \in Nat /\ DOMAIN locations = 1..Len(locations)
  BY LenProperties DEF IInv, PartyInv, RowsTyped
<1>2. m \in RunRows /\ m.made \in RefRows
  BY DEF RunFit, RunRows
<1>3. CASE m.made = NoRefs
  BY <1>1, <1>3 DEF NoRefs, Refs
<1>4. CASE m.made # NoRefs
  <2>1. m.task = "execute" /\ ExecuteFit(m)
    <3>1. m.task # "none" /\ m.task # "reverse"
      BY <1>4 DEF RunFit, NoRun, ReverseFit
    <3> QED BY <1>2, <3>1 DEF RunFit, RunRows
  <2>2. m.next \in {"contact", "location", "record"} /\ Saved("party", m.row, m.made.party)
    BY <1>4, <2>1 DEF ExecuteFit
  <2>3. m.made.party \in DOMAIN parties
    BY <2>2, SavedMeans DEF IInv, PartyInv, Meaning
  <2>4. m.made.contact = 0 \/ m.made.contact \in DOMAIN contacts
    BY <2>1, <2>2, SavedMeans DEF ExecuteFit, IInv, PartyInv, Meaning
  <2>5. m.made.location = 0 \/ m.made.location \in DOMAIN locations
    BY <2>1, <2>2, SavedMeans DEF ExecuteFit, IInv, PartyInv, Meaning
  <2>6. m.made.party \in 0..Len(parties) /\ m.made.contact \in 0..Len(contacts) /\ m.made.location \in 0..Len(locations)
    BY <1>1, <2>3, <2>4, <2>5
  <2> QED BY <1>2, <2>6 DEF Refs, RefRows
<1> QED BY <1>3, <1>4

LEMMA PartiesTyped == IInv => PartyTypeOK
<1> SUFFICES ASSUME IInv PROVE PartyTypeOK
  OBVIOUS
<1>1. /\ Len(parties) \in Nat /\ DOMAIN parties = 1..Len(parties)
      /\ Len(requests) \in Nat /\ DOMAIN requests = 1..Len(requests)
      /\ Len(locations) \in Nat /\ DOMAIN locations = 1..Len(locations)
      /\ Len(keys) \in Nat
  BY LenProperties DEF IInv, PartyInv, RowsTyped
<1>2. \A p \in DOMAIN parties :
        /\ parties[p] \in [status : {"active", "inactive", "merged"}, into : 0..Len(parties),
                           version : Nat, account : BOOLEAN, row : Rows \union {0}]
        /\ parties[p].status = "merged" => parties[p].into # 0
        /\ parties[p].into # 0 => parties[p].status = "merged" \/ p \in ahead
  <2> SUFFICES ASSUME NEW p \in DOMAIN parties
      PROVE /\ parties[p] \in [status : {"active", "inactive", "merged"}, into : 0..Len(parties),
                               version : Nat, account : BOOLEAN, row : Rows \union {0}]
            /\ parties[p].status = "merged" => parties[p].into # 0
            /\ parties[p].into # 0 => parties[p].status = "merged" \/ p \in ahead
    OBVIOUS
  <2>1. PICK q : q = parties[p]
    OBVIOUS
  <2>2. q \in PartyRows
    BY <2>1, RowFacts DEF IInv, PartyInv
  <2>3. /\ q.into \in {0} \union DOMAIN parties
        /\ q.status = "merged" => q.into # 0
        /\ q.into # 0 => q.status = "merged" \/ p \in ahead
    BY <2>1 DEF IInv, PartyInv, Referred
  <2>4. q.into \in 0..Len(parties)
    BY <1>1, <2>3
  <2>5. q \in [status : {"active", "inactive", "merged"}, into : 0..Len(parties),
               version : Nat, account : BOOLEAN, row : Rows \union {0}]
    BY <2>2, <2>4 DEF PartyRows
  <2> QED BY <2>1, <2>3, <2>5
<1>3. /\ \A k \in DOMAIN contacts :
           contacts[k] \in [of : DOMAIN parties, active : BOOLEAN, row : Rows \union {0}]
      /\ \A l \in DOMAIN locations :
           locations[l] \in [of : DOMAIN parties, active : BOOLEAN, row : Rows \union {0}]
  <2>1. ASSUME NEW e \in EntityRows, e.of \in DOMAIN parties
        PROVE  e \in [of : DOMAIN parties, active : BOOLEAN, row : Rows \union {0}]
    BY <2>1 DEF EntityRows
  <2> QED BY <2>1, RowFacts DEF IInv, PartyInv, Referred
<1>4. \A r \in DOMAIN requests :
        requests[r] \in [status : {"pending", "approved", "rejected"},
                         source : DOMAIN parties, target : DOMAIN parties]
  <2>1. ASSUME NEW e \in RequestRows, e.source \in DOMAIN parties, e.target \in DOMAIN parties
        PROVE  e \in [status : {"pending", "approved", "rejected"}, source : DOMAIN parties, target : DOMAIN parties]
    BY <2>1 DEF RequestRows
  <2> QED BY <2>1, RowFacts DEF IInv, PartyInv, Referred
<1>5. /\ \A n \in DOMAIN keys : keys[n] \in [kind : Kinds, row : Rows, result : Nat]
      /\ expired \in 0..Len(keys) /\ left \in Nat
  BY <1>1, RowFacts DEF IInv, PartyInv, RowsTyped, KeyRows
<1>6. \A c \in Calls : call[c] \in
        [op : Ops \union {"none"}, at : Statements,
         key : [kind : Kinds \union {"none"}, row : Rows \union {0}],
         party : 0..Len(parties), target : 0..Len(parties),
         request : 0..Len(requests), location : 0..Len(locations),
         version : Nat, expected : Nat, sourceHas : BOOLEAN, targetHas : BOOLEAN, result : Nat]
  <2> SUFFICES ASSUME NEW c \in Calls, NEW k, k = call[c]
      PROVE  k \in [op : Ops \union {"none"}, at : Statements,
                    key : [kind : Kinds \union {"none"}, row : Rows \union {0}],
                    party : 0..Len(parties), target : 0..Len(parties),
                    request : 0..Len(requests), location : 0..Len(locations),
                    version : Nat, expected : Nat, sourceHas : BOOLEAN, targetHas : BOOLEAN, result : Nat]
    OBVIOUS
  <2>1. k \in CallRows /\ Subject(k)
    BY DEF IInv, PartyInv, CallsFit, Fit
  <2>2. /\ k.party \in 0..Len(parties) /\ k.target \in 0..Len(parties)
        /\ k.request \in 0..Len(requests) /\ k.location \in 0..Len(locations)
    BY <1>1, <2>1 DEF Subject
  <2> QED BY <2>1, <2>2 DEF CallRows
<1>7. call = [c \in Calls |-> call[c]] /\ ahead \subseteq DOMAIN parties
  BY DEF IInv, PartyInv, CallsFit, Referred
<1> QED BY <1>2, <1>3, <1>4, <1>5, <1>6, <1>7 DEF PartyTypeOK

LEMMA Typed == IInv => TypeOK
<1> SUFFICES ASSUME IInv PROVE TypeOK
  OBVIOUS
<1>1. \A r \in Rows : refs[r] \in Refs
  BY EntitiesExist DEF IInv, ImportInv, RefsFit
<1>2. ASSUME NEW i \in Importers
      PROVE  /\ run[i].task \in {"none", "execute", "reverse"}
             /\ run[i].row \in Rows \union {0} /\ run[i].next \in Steps
             /\ run[i].made \in Refs
             /\ \A r \in Rows : run[i].listed[r] \in Refs
  <2>1. PICK m : m = run[i]
    OBVIOUS
  <2>2. RunFit(m) /\ m \in RunRows
    BY <2>1 DEF IInv, ImportInv, RunsFit, RunFit
  <2>3. \A r \in Rows : m.listed[r] \in RefRows /\ Entities(r, m.listed[r])
    <3>1. m.task \in {"none", "execute", "reverse"} /\ m.listed \in [Rows -> RefRows]
      BY <2>2 DEF RunRows
    <3>2. m.task = "none" => \A r \in Rows : Entities(r, m.listed[r])
      BY <2>2 DEF RunFit, NoRun, Entities
    <3> QED BY <2>2, <3>1, <3>2 DEF RunFit, ExecuteFit, ReverseFit, Entities
  <2>4. \A r \in Rows : m.listed[r] \in Refs
    BY <2>3, EntitiesExist
  <2> QED BY <2>1, <2>2, <2>4, MadeExists DEF RunRows
<1>3. batch \in {"validated", "imported", "rolled_back"} /\ runs \in Nat
  BY DEF IInv, ImportInv, BatchFit
<1> QED BY <1>1, <1>2, <1>3, PartiesTyped DEF TypeOK

LEMMA AtMostOne ==
  ASSUME NEW S, \A x, y \in S : x = y
  PROVE  Cardinality(S) <= 1
<1>1. CASE S = {}
  BY <1>1, FS_EmptySet
<1>2. CASE S # {}
  <2>1. PICK x \in S : TRUE
    BY <1>2
  <2>2. S = {x}
    BY <2>1
  <2> QED BY <2>2, FS_Singleton
<1> QED BY <1>1, <1>2

\* What was made for a row is what its key says.
LEMMA MadeIsSaved ==
  ASSUME IInv, NEW r \in Rows
  PROVE  /\ \A p \in MadeFor(parties, r) : Saved("party", r, p)
         /\ \A k \in MadeFor(contacts, r) : Saved("contact", r, k)
         /\ \A l \in MadeFor(locations, r) : Saved("location", r, l)
BY RowNumbers DEF MadeFor, IInv, PartyInv, MadeKeyed

LEMMA Once == IInv => OneEntityPerRow
<1> SUFFICES ASSUME IInv, NEW r \in Rows
             PROVE  /\ Cardinality(MadeFor(parties, r)) <= 1
                    /\ Cardinality(MadeFor(contacts, r)) <= 1
                    /\ Cardinality(MadeFor(locations, r)) <= 1
  BY DEF OneEntityPerRow
<1>1. KeysUnique
  BY DEF IInv, PartyInv
<1>2. \A p, q \in MadeFor(parties, r) : p = q
  BY <1>1, MadeIsSaved, SavedOnce
<1>3. \A p, q \in MadeFor(contacts, r) : p = q
  BY <1>1, MadeIsSaved, SavedOnce
<1>4. \A p, q \in MadeFor(locations, r) : p = q
  BY <1>1, MadeIsSaved, SavedOnce
<1> QED BY <1>2, <1>3, <1>4, AtMostOne

LEMMA Complete == IInv => ImportedComplete
<1> SUFFICES ASSUME IInv, batch = "imported", NEW r \in Rows
             PROVE  /\ MadeFor(parties, r) = {refs[r].party}
                    /\ MadeFor(contacts, r) = {refs[r].contact}
                    /\ MadeFor(locations, r) = IF r \in Located THEN {refs[r].location} ELSE {}
                    /\ r \in Located => locations[refs[r].location].of = refs[r].party
  BY DEF ImportedComplete
<1>1. PICK e : e = refs[r]
  OBVIOUS
<1>2. /\ Saved("party", r, e.party) /\ Saved("contact", r, e.contact)
      /\ IF r \in Located THEN Saved("location", r, e.location) ELSE e.location = 0
  BY <1>1 DEF IInv, ImportInv, RefsFit, BatchFit, Entities
<1>3. KeysUnique /\ KeysMean
  BY DEF IInv, PartyInv
<1>4. MadeFor(parties, r) = {e.party}
  <2>1. e.party \in MadeFor(parties, r)
    BY <1>2, <1>3, SavedMeans DEF Meaning, MadeFor
  <2>2. \A p \in MadeFor(parties, r) : p = e.party
    BY <1>2, <1>3, MadeIsSaved, SavedOnce
  <2> QED BY <2>1, <2>2
<1>5. MadeFor(contacts, r) = {e.contact}
  <2>1. e.contact \in MadeFor(contacts, r)
    BY <1>2, <1>3, SavedMeans DEF Meaning, MadeFor
  <2>2. \A k \in MadeFor(contacts, r) : k = e.contact
    BY <1>2, <1>3, MadeIsSaved, SavedOnce
  <2> QED BY <2>1, <2>2
<1>6. r \in Located => MadeFor(locations, r) = {e.location} /\ locations[e.location].of = e.party
  <2> SUFFICES ASSUME r \in Located PROVE MadeFor(locations, r) = {e.location} /\ locations[e.location].of = e.party
    OBVIOUS
  <2>1. Saved("location", r, e.location) /\ Meaning("location", r, e.location)
    BY <1>2, <1>3, SavedMeans
  <2>2. e.location \in MadeFor(locations, r)
    BY <2>1 DEF Meaning, MadeFor
  <2>3. \A l \in MadeFor(locations, r) : l = e.location
    BY <1>3, <2>1, MadeIsSaved, SavedOnce
  <2>4. locations[e.location].of = e.party
    BY <1>2, <1>3, <2>1, SavedOnce DEF Meaning
  <2> QED BY <2>2, <2>3, <2>4
<1>7. r \notin Located => MadeFor(locations, r) = {}
  BY <1>3, MadeIsSaved, SavedMeans DEF Meaning
<1> QED BY <1>1, <1>4, <1>5, <1>6, <1>7

LEMMA Reversed == IInv => ReversalDone
<1> SUFFICES ASSUME IInv, NEW i \in Importers, run[i].task = "reverse", run[i].next = "finish",
                    NEW r \in Rows, run[i].listed[r].party # 0
             PROVE  /\ ~contacts[run[i].listed[r].contact].active
                    /\ run[i].listed[r].location # 0 => ~locations[run[i].listed[r].location].active
  BY DEF ReversalDone
<1>1. Gone(run[i].listed[r]) /\ Left(run[i].listed[r])
  BY DEF IInv, ImportInv, RunsFit, RunFit, ReverseFit, Before
<1> QED BY <1>1 DEF Gone, Left

-----------------------------------------------------------------------------
(* The theorems.                                                           *)

\* Rows refer to rows that exist, whatever is merged, imported or reversed.
THEOREM TypeCorrect == Spec => []TypeOK
BY IInvAlways, Typed, PTL

\* A party once merged stays merged into the same party, as long as no update of it named a
\* version it did not have yet: until then versions only grow, and every update checks them.
THEOREM MergesAreFinal == Spec => MergedIsFinal
<1>1. IInv /\ [Next]_vars =>
        [\A p \in DOMAIN parties \ ahead' : parties[p].status = "merged" =>
           /\ parties'[p].status = "merged"
           /\ parties'[p].into = parties[p].into]_partyVars
  BY NextIInv DEF RowsLater
<1> QED BY <1>1, IInvAlways, PTL DEF Spec, MergedIsFinal

\* An approved merge request was carried out, of however many approvals at a time, if no
\* update of its source named a version it did not have yet.
THEOREM ApprovalsCarriedOut == Spec => []ApprovedIsMerged
<1>1. IInv => ApprovedIsMerged
  BY DEF IInv, PartyInv
<1> QED BY <1>1, IInvAlways, PTL

\* A row of a batch makes its entities once, however often and by however many the batch is run.
THEOREM RowsMadeOnce == Spec => []OneEntityPerRow
BY IInvAlways, Once, PTL

\* An imported batch names, of every row, all that was made for it.
THEOREM ImportsComplete == Spec => []ImportedComplete
BY IInvAlways, Complete, PTL

\* A reversal that ends has deactivated the contacts and locations recorded.
THEOREM ReversalsComplete == Spec => []ReversalDone
BY IInvAlways, Reversed, PTL
=============================================================================
