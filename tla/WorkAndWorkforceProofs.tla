----------------------- MODULE WorkAndWorkforceProofs -----------------------
(***************************************************************************)
(* Proofs about WorkAndWorkforce, for any number of members, work items,   *)
(* approvals, calls, commands and attempts.                                *)
(*                                                                         *)
(* A call that is going to insert a row is the only one that may, and the  *)
(* row is not there yet (Claims, Apart).  A call that has read a work item *)
(* knows it as long as its version has not moved (SeenHolds).  What is     *)
(* committed then follows from the conditions of the updates alone: a      *)
(* member is given access and employment in one update, an approval is     *)
(* decided where it is pending, and a revoked identity has an effect under *)
(* way from the commit that revokes it to its deletion, audit or crash.    *)
(***************************************************************************)
EXTENDS WorkAndWorkforce, TLAPS

Busy(c, ops) == op[c] \in ops /\ pc[c] # "idle"
OnMember == Invites \union AboutMember \union {"CreateWorkItem", "ReassignWork", "RequestApproval"}
OnWork == Closings \union {"ReassignWork"}

\* Where a command may stand and what it is about.
Placed(c) ==
  /\ Busy(c, OnMember) => member[c] \in Members
  /\ Busy(c, Invites) => item[c] \in Members
  /\ Busy(c, OnWork \union {"CreateWorkItem"}) => item[c] \in Works
  /\ Busy(c, Decisions \union {"RequestApproval"}) => item[c] \in Approvals
  /\ pc[c] = "invite" => op[c] \in Invites
  /\ pc[c] \in {"member", "identity", "list", "sessions", "credentials", "effect", "audit"} =>
       op[c] \in AboutMember
  /\ pc[c] = "work" => op[c] \in OnWork
  /\ pc[c] = "owner" => op[c] \in {"CreateWorkItem", "ReassignWork", "RequestApproval"}
  /\ pc[c] = "approval" => op[c] \in Decisions
  /\ pc[c] \in {"effect", "audit"} => effect[c].identity \in Members

\* The rows a command inserts are not there; the member another is about is.
Claims(c) ==
  /\ Busy(c, Invites) => access[member[c]] = "none"
  /\ Busy(c, AboutMember) => access[member[c]] # "none"
  /\ Busy(c, {"CreateWorkItem"}) => work[item[c]].status = "none"
  /\ Busy(c, {"RequestApproval"}) => approval[item[c]] = "none"
  /\ found[c] # Nobody => identity[found[c]] # "none"

\* A work item whose version has not moved is what the command read.
SeenHolds(c) ==
  Busy(c, OnWork) /\ pc[c] # "work" =>
    /\ seen[c].status = "open"
    /\ work[item[c]].status # "none"
    /\ seen[c].version <= work[item[c]].version
    /\ VersionHolds(c) => work[item[c]] = seen[c]

\* No two commands insert the same row.
Apart == \A c, d \in Calls : c # d =>
  /\ Busy(c, Invites) /\ Busy(d, Invites) => member[c] # member[d]
  /\ Busy(c, {"CreateWorkItem"}) /\ Busy(d, {"CreateWorkItem"}) => item[c] # item[d]
  /\ Busy(c, {"RequestApproval"}) /\ Busy(d, {"RequestApproval"}) => item[c] # item[d]

\* An identity has a member row, and a work item without a row no owner.
Inserted ==
  /\ \A m \in Members : identity[m] # "none" => access[m] # "none"
  /\ \A w \in Works : work[w].status = "none" => work[w].owner = Nobody

CallOK(c) == Placed(c) /\ Claims(c) /\ SeenHolds(c)
CallsOK == Apart /\ \A c \in Calls : CallOK(c)

IInv == TypeOK /\ CallsOK /\ Inserted /\ DecidedOnce /\ ActiveIsEmployed /\ RevocationAccounted

-----------------------------------------------------------------------------

LEMMA InitIInv == Init => IInv
<1> SUFFICES ASSUME Init PROVE IInv
  OBVIOUS
<1>1. TypeOK
  <2>1. access \in [Members -> AccessStatuses] /\ employment \in [Members -> {"none", "pending_start", "active", "terminated"}]
        /\ identity \in [Members -> {"none", "invited", "active", "revoked"}] /\ person \in [Members -> Members]
        /\ account \in [Members -> {"none", "live", "signedOut", "deleted"}]
    BY DEF Init, AccessStatuses
  <2>2. work \in [Works -> [status : {"none", "open", "completed", "cancelled"},
                            owner : Members \union {Nobody}, version : Nat]]
    BY DEF Init, NoWork
  <2>3. history \in [Works -> Seq([from : Members \union {Nobody}, to : Members])]
        /\ approval \in [Approvals -> {"none", "pending", "approved", "rejected"}]
        /\ decisions \in [Approvals -> Seq({"approved", "rejected"})]
    BY DEF Init
  <2>4. op \in [Calls -> Ops] /\ pc \in [Calls -> Statements] /\ member \in [Calls -> Members \union {Nobody}]
        /\ item \in [Calls -> Members \union Works \union Approvals \union {Nobody}]
        /\ found \in [Calls -> Members \union {Nobody}]
    BY DEF Init, Ops, Invites, Statements
  <2>5. seen \in [Calls -> [status : {"none", "open"}, owner : Members \union {Nobody}, version : Nat]]
        /\ effect \in [Calls -> [kind : {"none", "revoke_sessions", "revoke_credentials"},
                                 identity : Members \union {Nobody}, tries : Nat]]
    BY DEF Init, NoWork, NoEffect
  <2>6. audited \subseteq Members /\ lost \subseteq Members /\ commands \in 0..MaxCommands
    BY WorkAssumption DEF Init
  <2> QED BY <2>1, <2>2, <2>3, <2>4, <2>5, <2>6 DEF TypeOK
<1>2. CallsOK
  BY DEF Init, CallsOK, CallOK, Placed, Claims, SeenHolds, Apart, Busy
<1>3. Inserted /\ ActiveIsEmployed
  BY DEF Init, Inserted, ActiveIsEmployed, NoWork
<1>4. DecidedOnce
  BY DEF Init, DecidedOnce
<1>5. RevocationAccounted
  BY DEF Init, RevocationAccounted
<1> QED BY <1>1, <1>2, <1>3, <1>4, <1>5 DEF IInv

-----------------------------------------------------------------------------
(* A command arrives.                                                      *)

\* What Begin is given by every Start action.
Admissible(c, o, m, i, first) ==
  /\ o \in Ops /\ first \in Statements \ {"idle", "effect", "audit"}
  /\ m \in Members \union {Nobody} /\ i \in Members \union Works \union Approvals \union {Nobody}
  /\ o \in OnMember => m \in Members
  /\ o \in Invites => first = "invite" /\ i \in Members /\ access[m] = "none" /\ Fresh(m)
  /\ o \in AboutMember => first = "member" /\ access[m] # "none"
  /\ o = "CreateWorkItem" => first = "owner" /\ i \in Works /\ work[i].status = "none" /\ Unclaimed(o, i)
  /\ o \in OnWork => first = "work" /\ i \in Works
  /\ o = "RequestApproval" => first = "owner" /\ i \in Approvals /\ approval[i] = "none" /\ Unclaimed(o, i)
  /\ o \in Decisions => first = "approval" /\ i \in Approvals

LEMMA StartAdmissible ==
  ASSUME IInv, NEW c \in Calls, Start(c)
  PROVE  \E o, m, i, first : Admissible(c, o, m, i, first) /\ Begin(c, o, m, i, first)
<1> USE DEF Admissible, Ops, OnMember, OnWork, Invites, AboutMember, Closings, Decisions, Statements
<1> TypeOK
  BY DEF IInv
<1>1. CASE StartInvite(c)
  BY <1>1 DEF StartInvite, Present
<1>2. CASE StartRehire(c)
  BY <1>2 DEF StartRehire, Present, TypeOK
<1>3. CASE StartOnMember(c)
  BY <1>3 DEF StartOnMember, Present
<1>4. CASE StartCreate(c)
  BY <1>4 DEF StartCreate, Present
<1>5. CASE StartOnWork(c)
  BY <1>5 DEF StartOnWork, Present
<1>6. CASE StartRequest(c)
  BY <1>6 DEF StartRequest, Present
<1>7. CASE StartDecide(c)
  BY <1>7 DEF StartDecide
<1> QED BY <1>1, <1>2, <1>3, <1>4, <1>5, <1>6, <1>7 DEF Start

LEMMA BeginIInv ==
  ASSUME IInv, NEW c \in Calls, NEW o, NEW m, NEW i, NEW first,
         Admissible(c, o, m, i, first), Begin(c, o, m, i, first)
  PROVE  IInv'
<1> USE DEF IInv
<1>1. /\ op' = [op EXCEPT ![c] = o] /\ pc' = [pc EXCEPT ![c] = first] /\ pc[c] = "idle"
      /\ member' = [member EXCEPT ![c] = m] /\ item' = [item EXCEPT ![c] = i]
      /\ effect' = [effect EXCEPT ![c] = NoEffect] /\ seen' = [seen EXCEPT ![c] = NoWork]
      /\ found' = [found EXCEPT ![c] = Nobody]
      /\ UNCHANGED <<access, employment, person, identity, work, history, approval, decisions,
                     account, audited, lost>>
  BY DEF Begin, Goto, memberRows, workRows, fates
<1>2. TypeOK'
  <2>1. op' \in [Calls -> Ops] /\ pc' \in [Calls -> Statements]
        /\ member' \in [Calls -> Members \union {Nobody}] /\ found' \in [Calls -> Members \union {Nobody}]
        /\ item' \in [Calls -> Members \union Works \union Approvals \union {Nobody}]
    BY <1>1 DEF TypeOK, Admissible
  <2>2. seen' \in [Calls -> [status : {"none", "open"}, owner : Members \union {Nobody}, version : Nat]]
    BY <1>1 DEF TypeOK, NoWork
  <2>3. effect' \in [Calls -> [kind : {"none", "revoke_sessions", "revoke_credentials"},
                               identity : Members \union {Nobody}, tries : Nat]]
    BY <1>1 DEF TypeOK, NoEffect
  <2>4. commands' \in 0..MaxCommands
    BY WorkAssumption DEF Begin, TypeOK
  <2> QED BY <1>1, <2>1, <2>2, <2>3, <2>4 DEF TypeOK
<1>3. \A d \in Calls : CallOK(d)'
  <2> SUFFICES ASSUME NEW d \in Calls PROVE CallOK(d)'
    OBVIOUS
  <2>1. CASE d = c
    <3>1. op'[c] = o /\ pc'[c] = first /\ member'[c] = m /\ item'[c] = i /\ found'[c] = Nobody
      BY <1>1 DEF TypeOK
    <3>2. Placed(c)'
      BY <3>1 DEF Placed, Admissible, Busy, OnMember, OnWork, Invites, AboutMember, Closings, Decisions, Ops
    <3>3. Claims(c)'
      BY <1>1, <3>1 DEF Claims, Admissible, Busy
    <3>4. SeenHolds(c)'
      BY <3>1 DEF SeenHolds, Admissible, Busy
    <3> QED BY <2>1, <3>2, <3>3, <3>4 DEF CallOK
  <2>2. CASE d # c
    BY <1>1, <2>2 DEF CallsOK, CallOK, Placed, Claims, SeenHolds, Busy, VersionHolds, TypeOK
  <2> QED BY <2>1, <2>2
<1>4. Apart'
  <2>1. \A d \in Calls \ {c} : op'[d] = op[d] /\ pc'[d] = pc[d] /\ member'[d] = member[d] /\ item'[d] = item[d]
    BY <1>1 DEF TypeOK
  <2>2. op'[c] = o /\ pc'[c] = first /\ member'[c] = m /\ item'[c] = i
    BY <1>1 DEF TypeOK
  <2> QED BY <2>1, <2>2 DEF Apart, CallsOK, Busy, Admissible, Fresh, Unclaimed
<1>5. RevocationAccounted'
  <2>1. \A d \in Calls : pc[d] \in {"effect", "audit"} => d # c
    BY <1>1
  <2>2. \A d \in Calls \ {c} : pc'[d] = pc[d] /\ effect'[d] = effect[d]
    BY <1>1 DEF TypeOK
  <2> QED BY <1>1, <2>1, <2>2 DEF RevocationAccounted
<1>6. (Inserted /\ DecidedOnce /\ ActiveIsEmployed)'
  BY <1>1 DEF Inserted, DecidedOnce, ActiveIsEmployed
<1> QED BY <1>2, <1>3, <1>4, <1>5, <1>6 DEF CallsOK

-----------------------------------------------------------------------------
(* A step of one call that touches no row: what it leaves alone.           *)

RowsKept == UNCHANGED <<access, employment, person, identity, work, history, approval, decisions>>
OthersKept(c) == \A d \in Calls \ {c} :
  pc'[d] = pc[d] /\ seen'[d] = seen[d] /\ found'[d] = found[d] /\ effect'[d] = effect[d]

LEMMA RowlessStep ==
  ASSUME IInv, NEW c \in Calls, RowsKept, OthersKept(c), UNCHANGED <<op, member, item>>,
         pc[c] # "idle", CallOK(c)'
  PROVE  (CallsOK /\ Inserted /\ DecidedOnce /\ ActiveIsEmployed)'
<1>1. ASSUME NEW d \in Calls \ {c} PROVE CallOK(d)'
  <2>1. CallOK(d)
    BY DEF IInv, CallsOK
  <2>2. pc'[d] = pc[d] /\ seen'[d] = seen[d] /\ found'[d] = found[d] /\ effect'[d] = effect[d]
    BY DEF OthersKept
  <2> QED BY <2>1, <2>2 DEF RowsKept, CallOK, Placed, Claims, SeenHolds, Busy, VersionHolds
<1>2. Apart'
  BY DEF IInv, CallsOK, Apart, Busy, OthersKept
<1>3. (Inserted /\ DecidedOnce /\ ActiveIsEmployed)'
  BY DEF IInv, RowsKept, Inserted, DecidedOnce, ActiveIsEmployed
<1> QED BY <1>1, <1>2, <1>3 DEF CallsOK

\* A call that owes no effect steps, and no account of a revoked identity comes back.
LEMMA OwesNothing ==
  ASSUME IInv, NEW c \in Calls, OthersKept(c), pc[c] \notin {"effect", "audit"},
         audited \union lost \subseteq audited' \union lost',
         \A i \in Members : identity'[i] = "revoked" =>
           identity[i] = "revoked" /\ (account'[i] # "deleted" => account[i] # "deleted")
  PROVE  RevocationAccounted'
<1> SUFFICES ASSUME NEW i \in Members, identity'[i] = "revoked", account'[i] # "deleted"
             PROVE  \/ \E d \in Calls : /\ pc'[d] \in {"effect", "audit"}
                                        /\ effect'[d].identity = i /\ effect'[d].kind = "revoke_credentials"
                    \/ i \in audited' \union lost'
  BY DEF RevocationAccounted
<1>1. \/ \E d \in Calls : /\ pc[d] \in {"effect", "audit"}
                          /\ effect[d].identity = i /\ effect[d].kind = "revoke_credentials"
      \/ i \in audited \union lost
  BY DEF IInv, RevocationAccounted
<1> QED BY <1>1 DEF OthersKept

-----------------------------------------------------------------------------
(* The statements before the first update.                                 *)

LEMMA ReadIInv ==
  ASSUME IInv, NEW c \in Calls, Read(c) \/ Fail(c)
  PROVE  IInv'
<1> TypeOK /\ CallOK(c) /\ Inserted
  BY DEF IInv, CallsOK
<1>1. /\ RowsKept /\ UNCHANGED <<op, member, item, effect, audited, lost, commands>>
      /\ pc[c] \notin {"idle", "effect", "audit"}
  BY DEF Read, Fail, CallInvite, ReadMember, FindInvited, ListOpenWork, RequireOpenWork, ReadOwner,
         ReadApproval, ReadsOnly, memberRows, workRows, fates, RowsKept
<1>2. PICK s \in Statements \ {"effect", "audit"} : pc' = [pc EXCEPT ![c] = s]
  BY DEF Read, Fail, CallInvite, ReadMember, FindInvited, ListOpenWork, RequireOpenWork, ReadOwner,
         ReadApproval, Goto, Statements, AfterMember, CallOK, Placed, AboutMember
<1>3. \/ UNCHANGED account
      \/ member[c] \in Members /\ identity[member[c]] = "none" /\ account' = [account EXCEPT ![member[c]] = "live"]
  BY DEF Read, Fail, CallInvite, ReadMember, FindInvited, ListOpenWork, RequireOpenWork, ReadOwner,
         ReadApproval, CallOK, Placed, Claims, Busy, Inserted, OnMember
<1>4. \/ UNCHANGED seen
      \/ /\ pc[c] = "work" /\ op[c] \in OnWork /\ item[c] \in Works /\ work[item[c]].status = "open"
         /\ seen' = [seen EXCEPT ![c] = work[item[c]]]
  BY DEF Read, Fail, CallInvite, ReadMember, FindInvited, ListOpenWork, RequireOpenWork, ReadOwner,
         ReadApproval, CallOK, Placed, Busy
<1>5. \/ UNCHANGED found
      \/ \E i \in Members \union {Nobody} : /\ i # Nobody => identity[i] # "none"
                                            /\ found' = [found EXCEPT ![c] = i]
  BY DEF Read, Fail, CallInvite, ReadMember, FindInvited, ListOpenWork, RequireOpenWork, ReadOwner,
         ReadApproval, FindFirst, IdentitiesOf
<1>6. OthersKept(c)
  BY <1>1, <1>2, <1>4, <1>5 DEF OthersKept, TypeOK
<1>7. /\ \/ pc'[c] \in {"idle", "commit"}
         \/ pc'[c] \in {"identity", "list", "sessions", "credentials"} /\ op[c] \in AboutMember
         \/ pc'[c] = "owner" /\ op[c] = "ReassignWork"
      /\ pc[c] = "work" /\ pc'[c] # "idle" => seen'[c] = work[item[c]] /\ work[item[c]].status = "open"
  <2>1. CASE RequireOpenWork(c)
    BY <2>1 DEF RequireOpenWork, Goto, TypeOK
  <2>2. CASE ReadMember(c)
    <3>1. op[c] \in AboutMember
      BY <2>2 DEF ReadMember, CallOK, Placed
    <3>2. AfterMember(c) \in {"commit", "identity", "list", "sessions", "credentials"}
      BY <3>1 DEF AfterMember, AboutMember
    <3> QED BY <2>2, <3>1, <3>2 DEF ReadMember, Goto, TypeOK
  <2>3. CASE Fail(c)
    BY <2>3 DEF Fail, Goto, TypeOK
  <2>4. CASE CallInvite(c) \/ FindInvited(c) \/ ListOpenWork(c) \/ ReadOwner(c) \/ ReadApproval(c)
    BY <2>4 DEF CallInvite, FindInvited, ListOpenWork, ReadOwner, ReadApproval, Goto, TypeOK
  <2> QED BY <2>1, <2>2, <2>3, <2>4 DEF Read
<1>8. CallOK(c)'
  <2>1. Placed(c)'
    BY <1>1, <1>7 DEF CallOK, Placed, Busy
  <2>2. Claims(c)'
    <3>1. found'[c] # Nobody => identity[found'[c]] # "none"
      BY <1>5 DEF CallOK, Claims, TypeOK
    <3> QED BY <1>1, <3>1 DEF CallOK, Claims, Busy, RowsKept
  <2>3. SeenHolds(c)'
    <3>1. CASE pc[c] = "work"
      <4>1. pc'[c] # "idle" /\ op[c] \in OnWork => work[item[c]].version \in Nat
        BY <3>1 DEF CallOK, Placed, Busy, TypeOK
      <4> QED BY <1>1, <1>7, <3>1, <4>1 DEF SeenHolds, RowsKept, VersionHolds, Busy
    <3>2. CASE pc[c] # "work"
      <4>1. seen' = seen
        BY <1>4, <3>2
      <4> QED BY <1>1, <3>2, <4>1 DEF CallOK, SeenHolds, Busy, RowsKept, VersionHolds
    <3> QED BY <3>1, <3>2
  <2> QED BY <2>1, <2>2, <2>3 DEF CallOK
<1>9. TypeOK'
  <2>1. seen' \in [Calls -> [status : {"none", "open"}, owner : Members \union {Nobody}, version : Nat]]
    <3>1. CASE UNCHANGED seen
      BY <3>1 DEF TypeOK
    <3>2. CASE ~ UNCHANGED seen
      <4>1. work[item[c]] \in [status : {"none", "open"}, owner : Members \union {Nobody}, version : Nat]
        BY <1>4, <3>2 DEF TypeOK
      <4>2. seen' = [seen EXCEPT ![c] = work[item[c]]]
        BY <1>4, <3>2
      <4>3. seen \in [Calls -> [status : {"none", "open"}, owner : Members \union {Nobody}, version : Nat]]
        BY DEF TypeOK
      <4> QED BY <4>1, <4>2, <4>3
    <3> QED BY <3>1, <3>2
  <2>2. pc' \in [Calls -> Statements]
    BY <1>2 DEF TypeOK
  <2>3. found' \in [Calls -> Members \union {Nobody}]
    BY <1>5 DEF TypeOK
  <2>4. account' \in [Members -> {"none", "live", "signedOut", "deleted"}]
    BY <1>3 DEF TypeOK
  <2> QED BY <1>1, <2>1, <2>2, <2>3, <2>4 DEF TypeOK, RowsKept
<1>10. RevocationAccounted'
  <2>1. \A i \in Members : identity'[i] = "revoked" => identity[i] = "revoked" /\ account'[i] = account[i]
    BY <1>1, <1>3 DEF RowsKept, TypeOK
  <2> QED BY <1>1, <1>6, <2>1, OwesNothing
<1>11. (CallsOK /\ Inserted /\ DecidedOnce /\ ActiveIsEmployed)'
  BY <1>1, <1>6, <1>8, RowlessStep
<1> QED BY <1>9, <1>10, <1>11 DEF IInv

-----------------------------------------------------------------------------
(* The auth provider.                                                      *)

LEMMA RevokedAccounts ==
  ASSUME TypeOK, NEW kind, NEW i \in Members
  PROVE  /\ Revoked(kind, i) \in [Members -> {"none", "live", "signedOut", "deleted"}]
         /\ \A j \in Members : account[j] = "deleted" => Revoked(kind, i)[j] = "deleted"
         /\ \A j \in Members : j # i => Revoked(kind, i)[j] = account[j]
         /\ kind = "revoke_credentials" => Revoked(kind, i)[i] = "deleted"
BY DEF TypeOK, Revoked

LEMMA ProviderIInv ==
  ASSUME IInv, NEW c \in Calls, Provider(c)
  PROVE  IInv'
<1> TypeOK /\ CallOK(c) /\ Inserted
  BY DEF IInv, CallsOK
<1> DEFINE i == effect[c].identity
           owed(d, j) == /\ pc[d] \in {"effect", "audit"}
                         /\ effect[d].identity = j /\ effect[d].kind = "revoke_credentials"
<1>1. RowsKept /\ UNCHANGED <<op, member, item, seen, found, commands>> /\ pc[c] # "idle"
  BY DEF Provider, Sync, EffectDone, EffectFails, Audit, Crash, ReadsOnly, memberRows, workRows, fates, RowsKept
<1>2. /\ effect' = effect \/ (pc[c] = "effect" /\ effect' = [effect EXCEPT ![c].tries = @ + 1])
      /\ UNCHANGED effect \/ UNCHANGED <<audited, lost>>
  BY DEF Provider, Sync, EffectDone, EffectFails, Audit, Crash, ReadsOnly, fates
<1>3. PICK s \in {"idle", "effect", "audit"} : pc' = [pc EXCEPT ![c] = s]
  BY DEF Provider, Sync, EffectDone, EffectFails, Audit, Crash, Goto, GiveUp
<1>4. pc[c] \in {"sessions", "credentials", "effect", "audit"} /\ (pc'[c] # "idle" => pc[c] = "effect")
  BY DEF Provider, Sync, EffectDone, EffectFails, Audit, Crash, Goto, TypeOK
<1>5. effect \in [Calls -> [kind : {"none", "revoke_sessions", "revoke_credentials"},
                            identity : Members \union {Nobody}, tries : Nat]]
  BY DEF TypeOK
<1>6. effect'[c].identity = i /\ effect'[c].kind = effect[c].kind
  BY <1>2, <1>5
<1>7. OthersKept(c)
  BY <1>1, <1>2, <1>3, <1>5 DEF OthersKept, TypeOK
<1>8. pc[c] \in {"effect", "audit"} => i \in Members
  BY DEF CallOK, Placed
<1>9. CallOK(c)'
  <2>1. Placed(c)'
    BY <1>1, <1>3, <1>4, <1>6, <1>8 DEF CallOK, Placed, Busy, TypeOK
  <2>2. Claims(c)'
    BY <1>1, <1>4 DEF CallOK, Claims, Busy, RowsKept
  <2>3. SeenHolds(c)'
    BY <1>1, <1>4 DEF CallOK, SeenHolds, Busy, RowsKept, VersionHolds
  <2> QED BY <2>1, <2>2, <2>3 DEF CallOK
<1>10. (CallsOK /\ Inserted /\ DecidedOnce /\ ActiveIsEmployed)'
  BY <1>1, <1>7, <1>9, RowlessStep
<1>11. /\ UNCHANGED account \/ (\E k, j : j \in Members /\ account' = Revoked(k, j))
       /\ EffectDone(c) => account' = Revoked(effect[c].kind, i)
  BY <1>8 DEF Provider, Sync, EffectDone, EffectFails, Audit, Crash, IdentitiesOf
<1>12. /\ account' \in [Members -> {"none", "live", "signedOut", "deleted"}]
       /\ \A j \in Members : account[j] = "deleted" => account'[j] = "deleted"
  <2>1. CASE UNCHANGED account
    BY <2>1 DEF TypeOK
  <2>2. CASE \E k, j : j \in Members /\ account' = Revoked(k, j)
    <3>1. PICK k, j : j \in Members /\ account' = Revoked(k, j)
      BY <2>2
    <3>2. /\ Revoked(k, j) \in [Members -> {"none", "live", "signedOut", "deleted"}]
          /\ \A n \in Members : account[n] = "deleted" => Revoked(k, j)[n] = "deleted"
      BY <3>1, RevokedAccounts
    <3> QED BY <3>1, <3>2
  <2> QED BY <1>11, <2>1, <2>2
<1>13. TypeOK'
  <2>1. effect' \in [Calls -> [kind : {"none", "revoke_sessions", "revoke_credentials"},
                               identity : Members \union {Nobody}, tries : Nat]]
    BY <1>2, <1>5
  <2>2. pc' \in [Calls -> Statements]
    BY <1>3 DEF TypeOK, Statements
  <2>3. audited' \subseteq Members /\ lost' \subseteq Members
    BY <1>8 DEF Provider, Sync, EffectDone, EffectFails, Audit, Crash, ReadsOnly, fates, TypeOK
  <2> QED BY <1>1, <1>12, <2>1, <2>2, <2>3 DEF TypeOK, RowsKept
<1>14. RevocationAccounted'
  <2>1. audited \union lost \subseteq audited' \union lost'
    BY DEF Provider, Sync, EffectDone, EffectFails, Audit, Crash, ReadsOnly, fates
  <2>2. SUFFICES ASSUME NEW j \in Members, identity'[j] = "revoked", account'[j] # "deleted"
                 PROVE  (\E d \in Calls : owed(d, j)') \/ j \in audited' \union lost'
    BY DEF RevocationAccounted
  <2>3. (\E d \in Calls : owed(d, j)) \/ j \in audited \union lost
    BY <1>1, <1>12, <2>2 DEF IInv, RevocationAccounted, RowsKept
  <2>4. ASSUME NEW d \in Calls \ {c}, owed(d, j) PROVE owed(d, j)'
    BY <1>7, <2>4 DEF OthersKept
  <2>5. ASSUME owed(c, j) PROVE owed(c, j)' \/ j \in audited' \union lost'
    <3>1. CASE EffectDone(c)
      BY <1>8, <1>11, <2>2, <2>5, <3>1, RevokedAccounts
    <3>2. CASE EffectFails(c)
      <4>1. pc'[c] \in {"effect", "audit"}
        BY <3>2 DEF EffectFails, Goto, GiveUp, TypeOK
      <4> QED BY <1>6, <2>5, <4>1
    <3>3. CASE Audit(c) \/ Crash(c)
      BY <2>5, <3>3 DEF Audit, Crash
    <3>4. CASE Sync(c)
      BY <2>5, <3>4 DEF Sync
    <3> QED BY <3>1, <3>2, <3>3, <3>4 DEF Provider
  <2> QED BY <2>1, <2>3, <2>4, <2>5
<1> QED BY <1>10, <1>13, <1>14 DEF IInv

LEMMA SignInIInv ==
  ASSUME IInv, NEW m \in Members, SignIn(m)
  PROVE  IInv'
<1>1. UNCHANGED <<access, employment, person, identity, work, history, approval, decisions,
                  op, pc, member, item, seen, found, effect, audited, lost, commands>>
  BY DEF SignIn, memberRows, workRows, local, fates
<1>2. account' = [account EXCEPT ![m] = "live"] /\ account[m] = "signedOut"
  BY DEF SignIn
<1>3. TypeOK'
  BY <1>1, <1>2 DEF IInv, TypeOK
<1>4. (CallsOK /\ Inserted /\ DecidedOnce /\ ActiveIsEmployed)'
  BY <1>1 DEF IInv, CallsOK, CallOK, Placed, Claims, SeenHolds, Busy, VersionHolds, Apart,
              Inserted, DecidedOnce, ActiveIsEmployed
<1>5. RevocationAccounted'
  BY <1>1, <1>2 DEF IInv, TypeOK, RevocationAccounted
<1> QED BY <1>3, <1>4, <1>5 DEF IInv

LEMMA StutterIInv == IInv /\ UNCHANGED vars => IInv'
<1> SUFFICES ASSUME IInv, UNCHANGED vars PROVE IInv'
  OBVIOUS
<1>1. UNCHANGED <<access, employment, person, identity, work, history, approval, decisions, account,
                  op, pc, member, item, seen, found, effect, audited, lost, commands>>
  BY DEF vars, memberRows, workRows, local, fates
<1>2. TypeOK' /\ RevocationAccounted'
  BY <1>1 DEF IInv, TypeOK, RevocationAccounted
<1>3. (CallsOK /\ Inserted /\ DecidedOnce /\ ActiveIsEmployed)'
  BY <1>1 DEF IInv, CallsOK, CallOK, Placed, Claims, SeenHolds, Busy, VersionHolds, Apart,
              Inserted, DecidedOnce, ActiveIsEmployed
<1> QED BY <1>2, <1>3 DEF IInv

-----------------------------------------------------------------------------
(* The commits.                                                            *)

\* A commit ends the command, or leaves it owing an effect for identity i.
Ends(c) ==
  /\ pc' = [pc EXCEPT ![c] = "idle"]
  /\ UNCHANGED effect \/ effect' = [effect EXCEPT ![c] = NoEffect]
Owes(c, kind, i) ==
  /\ pc' = [pc EXCEPT ![c] = "effect"]
  /\ effect' = [effect EXCEPT ![c] = [kind |-> kind, identity |-> i, tries |-> 0]]
Left(c) ==
  /\ pc[c] = "commit" /\ UNCHANGED <<account, op, member, item, seen, found, audited, lost, commands>>
  /\ \/ Ends(c)
     \/ op[c] \in AboutMember /\ \E kind \in {"none", "revoke_sessions", "revoke_credentials"}, i \in Members : Owes(c, kind, i)

\* No row that existed is gone, and no work item is back at a version it had.
RowsGrow(c) ==
  /\ \A m \in Members : /\ access[m] # "none" => access'[m] # "none"
                        /\ identity[m] # "none" => identity'[m] # "none"
                        /\ access'[m] # access[m] /\ access[m] = "none" => Busy(c, Invites) /\ m = member[c]
  /\ \A w \in Works : work'[w] # work[w] =>
       \/ Busy(c, {"CreateWorkItem"}) /\ w = item[c] /\ work[w].status = "none"
       \/ work[w].status # "none" /\ work'[w].status # "none" /\ work'[w].version = work[w].version + 1
  /\ \A a \in Approvals : approval'[a] # approval[a] =>
       \/ Busy(c, {"RequestApproval"}) /\ a = item[c]
       \/ approval[a] # "none"

LEMMA CommitKeepsCalls ==
  ASSUME IInv, NEW c \in Calls, Left(c), RowsGrow(c)
  PROVE  CallsOK' /\ OthersKept(c)
<1> TypeOK /\ CallsOK
  BY DEF IInv
<1>1. OthersKept(c)
  BY DEF Left, Ends, Owes, OthersKept, TypeOK
<1>2. pc'[c] \in {"idle", "effect"} /\ (pc'[c] = "effect" => op[c] \in AboutMember /\ effect'[c].identity \in Members)
  BY DEF Left, Ends, Owes, TypeOK
<1>3. Apart'
  BY <1>1, <1>2 DEF CallsOK, Apart, Left, Busy, OthersKept
<1>4. ASSUME NEW d \in Calls, d # c PROVE CallOK(d)'
  <2>1. pc'[d] = pc[d] /\ seen'[d] = seen[d] /\ found'[d] = found[d] /\ effect'[d] = effect[d]
        /\ op'[d] = op[d] /\ member'[d] = member[d] /\ item'[d] = item[d]
    BY <1>1, <1>4 DEF OthersKept, Left
  <2>2. CallOK(d)
    BY DEF CallsOK
  <2>3. Placed(d)'
    BY <2>1, <2>2 DEF CallOK, Placed, Busy
  <2>4. Claims(d)'
    <3>1. Busy(d, Invites) => access'[member[d]] = "none"
      <4> SUFFICES ASSUME Busy(d, Invites) PROVE access'[member[d]] = "none"
        OBVIOUS
      <4>1. access[member[d]] = "none" /\ member[d] \in Members
        BY <2>2 DEF CallOK, Claims, Placed, Busy, OnMember
      <4>2. Busy(c, Invites) => member[c] # member[d]
        BY <1>4 DEF CallsOK, Apart
      <4> QED BY <4>1, <4>2 DEF RowsGrow
    <3>2. Busy(d, AboutMember) => access'[member[d]] # "none"
      BY <2>2 DEF CallOK, Claims, Placed, Busy, OnMember, RowsGrow
    <3>3. Busy(d, {"CreateWorkItem"}) => work'[item[d]].status = "none"
      <4> SUFFICES ASSUME Busy(d, {"CreateWorkItem"}) PROVE work'[item[d]].status = "none"
        OBVIOUS
      <4>1. work[item[d]].status = "none" /\ item[d] \in Works
        BY <2>2 DEF CallOK, Claims, Placed, Busy
      <4>2. Busy(c, {"CreateWorkItem"}) => item[c] # item[d]
        BY <1>4 DEF CallsOK, Apart
      <4> QED BY <4>1, <4>2 DEF RowsGrow
    <3>4. Busy(d, {"RequestApproval"}) => approval'[item[d]] = "none"
      <4> SUFFICES ASSUME Busy(d, {"RequestApproval"}) PROVE approval'[item[d]] = "none"
        OBVIOUS
      <4>1. approval[item[d]] = "none" /\ item[d] \in Approvals
        BY <2>2 DEF CallOK, Claims, Placed, Busy
      <4>2. Busy(c, {"RequestApproval"}) => item[c] # item[d]
        BY <1>4 DEF CallsOK, Apart
      <4> QED BY <4>1, <4>2 DEF RowsGrow
    <3>5. found[d] # Nobody => identity'[found[d]] # "none"
      BY <2>2 DEF CallOK, Claims, RowsGrow, TypeOK
    <3> QED BY <2>1, <3>1, <3>2, <3>3, <3>4, <3>5 DEF Claims, Busy
  <2>5. SeenHolds(d)'
    <3> SUFFICES ASSUME Busy(d, OnWork), pc[d] # "work"
                 PROVE  /\ seen[d].status = "open" /\ work'[item[d]].status # "none"
                        /\ seen[d].version <= work'[item[d]].version
                        /\ work'[item[d]].version = seen[d].version => work'[item[d]] = seen[d]
      BY <2>1 DEF SeenHolds, Busy, VersionHolds
    <3>1. /\ seen[d].status = "open" /\ work[item[d]].status # "none"
          /\ seen[d].version <= work[item[d]].version
          /\ work[item[d]].version = seen[d].version => work[item[d]] = seen[d]
      BY <2>2 DEF CallOK, SeenHolds, VersionHolds
    <3>2. item[d] \in Works
      BY <2>2 DEF CallOK, Placed, Busy
    <3>3. work[item[d]].version \in Nat /\ seen[d].version \in Nat
      BY <3>2 DEF TypeOK
    <3>4. \/ work'[item[d]] = work[item[d]]
          \/ work'[item[d]].status # "none" /\ work'[item[d]].version = work[item[d]].version + 1
      BY <3>1, <3>2 DEF RowsGrow
    <3> QED BY <3>1, <3>3, <3>4
  <2> QED BY <2>3, <2>4, <2>5 DEF CallOK
<1>5. CallOK(c)'
  <2>1. Placed(c)'
    BY <1>2 DEF CallsOK, CallOK, Placed, Busy, Left
  <2>2. Claims(c)'
    <3>1. found'[c] # Nobody => identity'[found'[c]] # "none"
      BY DEF CallsOK, CallOK, Claims, RowsGrow, TypeOK, Left
    <3>2. op[c] \in AboutMember => access'[member[c]] # "none"
      BY DEF CallsOK, CallOK, Claims, Placed, Busy, OnMember, RowsGrow, Left
    <3> QED BY <1>2, <3>1, <3>2 DEF Claims, Busy, Left, AboutMember, Invites
  <2>3. SeenHolds(c)'
    BY <1>2 DEF SeenHolds, Busy, OnWork, Closings, AboutMember, Left
  <2> QED BY <2>1, <2>2, <2>3 DEF CallOK
<1> QED BY <1>1, <1>3, <1>4, <1>5 DEF CallsOK

LEMMA LeftTypes ==
  ASSUME TypeOK, NEW c \in Calls, Left(c),
         access' \in [Members -> AccessStatuses],
         employment' \in [Members -> {"none", "pending_start", "active", "terminated"}],
         person' \in [Members -> Members],
         identity' \in [Members -> {"none", "invited", "active", "revoked"}],
         work' \in [Works -> [status : {"none", "open", "completed", "cancelled"},
                              owner : Members \union {Nobody}, version : Nat]],
         history' \in [Works -> Seq([from : Members \union {Nobody}, to : Members])],
         approval' \in [Approvals -> {"none", "pending", "approved", "rejected"}],
         decisions' \in [Approvals -> Seq({"approved", "rejected"})]
  PROVE  TypeOK'
<1> DEFINE Effects == [kind : {"none", "revoke_sessions", "revoke_credentials"},
                       identity : Members \union {Nobody}, tries : Nat]
<1>1. pc' \in [Calls -> Statements] /\ effect' \in [Calls -> Effects]
  <2>1. pc \in [Calls -> Statements] /\ effect \in [Calls -> Effects]
    BY DEF TypeOK
  <2>2. CASE Ends(c)
    <3>1. NoEffect \in Effects
      BY DEF NoEffect
    <3> HIDE DEF Effects
    <3> QED BY <2>1, <2>2, <3>1 DEF Ends, Statements
  <2>3. CASE ~ Ends(c)
    <3>1. PICK kind \in {"none", "revoke_sessions", "revoke_credentials"}, i \in Members : Owes(c, kind, i)
      BY <2>3 DEF Left
    <3>2. [kind |-> kind, identity |-> i, tries |-> 0] \in Effects
      OBVIOUS
    <3> HIDE DEF Effects
    <3>3. effect' \in [Calls -> Effects]
      BY <2>1, <3>1, <3>2 DEF Owes
    <3> QED BY <2>1, <3>1, <3>3 DEF Owes, Statements
  <2> QED BY <2>2, <2>3
<1> QED BY <1>1 DEF TypeOK, Left

\* A commit on member rows leaves work and approvals as they are.
LEMMA MemberCommit ==
  ASSUME IInv, NEW c \in Calls, Left(c),
         UNCHANGED <<work, history, approval, decisions>>,
         access' \in [Members -> AccessStatuses],
         employment' \in [Members -> {"none", "pending_start", "active", "terminated"}],
         person' \in [Members -> Members],
         identity' \in [Members -> {"none", "invited", "active", "revoked"}],
         \A m \in Members :
           /\ access[m] # "none" => access'[m] # "none"
           /\ identity[m] # "none" => identity'[m] # "none"
           /\ access'[m] # access[m] /\ access[m] = "none" => Busy(c, Invites) /\ m = member[c]
           /\ identity'[m] # "none" => access'[m] # "none"
           /\ access'[m] = "active" => employment'[m] = "active"
  PROVE  (TypeOK /\ CallsOK /\ Inserted /\ DecidedOnce /\ ActiveIsEmployed)' /\ OthersKept(c)
<1>1. RowsGrow(c)
  BY DEF RowsGrow
<1>2. TypeOK'
  BY LeftTypes DEF IInv, TypeOK
<1>3. CallsOK' /\ OthersKept(c)
  BY <1>1, CommitKeepsCalls
<1>4. (Inserted /\ DecidedOnce /\ ActiveIsEmployed)'
  BY DEF IInv, Inserted, DecidedOnce, ActiveIsEmployed
<1> QED BY <1>2, <1>3, <1>4

\* A commit on work or approvals leaves member rows as they are, and schedules nothing.
LEMMA WorkCommit ==
  ASSUME IInv, NEW c \in Calls, Left(c), RowsGrow(c),
         UNCHANGED <<access, employment, person, identity>>,
         work' \in [Works -> [status : {"none", "open", "completed", "cancelled"},
                              owner : Members \union {Nobody}, version : Nat]],
         history' \in [Works -> Seq([from : Members \union {Nobody}, to : Members])],
         approval' \in [Approvals -> {"none", "pending", "approved", "rejected"}],
         decisions' \in [Approvals -> Seq({"approved", "rejected"})],
         \A w \in Works : work'[w].status = "none" => work'[w] = work[w],
         DecidedOnce'
  PROVE  IInv'
<1>1. TypeOK'
  BY LeftTypes DEF IInv, TypeOK
<1>2. CallsOK' /\ OthersKept(c)
  BY CommitKeepsCalls
<1>3. (Inserted /\ ActiveIsEmployed)'
  BY DEF IInv, Inserted, ActiveIsEmployed
<1>4. RevocationAccounted'
  BY <1>2, OwesNothing DEF Left
<1> QED BY <1>1, <1>2, <1>3, <1>4 DEF IInv

LEMMA CommitFrame ==
  ASSUME IInv, NEW c \in Calls, Commit(c)
  PROVE  /\ pc[c] = "commit" /\ CallOK(c) /\ TypeOK /\ Inserted
         /\ UNCHANGED <<account, op, member, item, seen, found, audited, lost, commands>>
         /\ NoSchedule(c) => Left(c)
         /\ \A o \in Ops : op[c] = o => Busy(c, {o})
         /\ op[c] \in AboutMember => member[c] \in Members /\ access[member[c]] # "none"
BY DEF IInv, CallsOK, CallOK, Placed, Claims, Commit, fates, NoSchedule, Goto, Left, Ends, Busy, OnMember

LEMMA InsertMemberIInv ==
  ASSUME IInv, NEW c \in Calls, Commit(c), InsertMember(c)
  PROVE  IInv'
<1>1. Left(c) /\ UNCHANGED <<work, history, approval, decisions>> /\ TypeOK /\ Inserted
  BY CommitFrame DEF InsertMember, workRows
<1>2. Busy(c, Invites) /\ member[c] \in Members /\ item[c] \in Members /\ access[member[c]] = "none"
  BY CommitFrame DEF InsertMember, CallOK, Placed, Claims, Busy, OnMember
<1>3. /\ access' \in [Members -> AccessStatuses] /\ person' \in [Members -> Members]
      /\ employment' \in [Members -> {"none", "pending_start", "active", "terminated"}]
      /\ identity' \in [Members -> {"none", "invited", "active", "revoked"}]
  BY <1>1, <1>2 DEF InsertMember, TypeOK, AccessStatuses
<1>4. \A m \in Members : m # member[c] =>
        access'[m] = access[m] /\ employment'[m] = employment[m] /\ identity'[m] = identity[m]
  BY <1>1 DEF InsertMember, TypeOK
<1>5. access'[member[c]] = "invited" /\ identity'[member[c]] = "invited"
  BY <1>1, <1>2 DEF InsertMember, TypeOK
<1>6. \A m \in Members :
        /\ access[m] # "none" => access'[m] # "none"
        /\ identity[m] # "none" => identity'[m] # "none"
        /\ access'[m] # access[m] /\ access[m] = "none" => Busy(c, Invites) /\ m = member[c]
        /\ identity'[m] # "none" => access'[m] # "none"
        /\ access'[m] = "active" => employment'[m] = "active"
  BY <1>1, <1>2, <1>4, <1>5 DEF IInv, Inserted, ActiveIsEmployed
<1>7. (TypeOK /\ CallsOK /\ Inserted /\ DecidedOnce /\ ActiveIsEmployed)' /\ OthersKept(c)
  BY <1>1, <1>3, <1>6, MemberCommit
<1>8. RevocationAccounted'
  <2>1. \A i \in Members : identity'[i] = "revoked" => identity[i] = "revoked"
    BY <1>4, <1>5
  <2> QED BY <1>7, <2>1, CommitFrame, OwesNothing
<1> QED BY <1>7, <1>8 DEF IInv

LEMMA ActivateIInv ==
  ASSUME IInv, NEW c \in Calls, Commit(c), Activate(c)
  PROVE  IInv'
<1>1. Left(c) /\ UNCHANGED <<person, work, history, approval, decisions>> /\ TypeOK /\ Inserted
  BY CommitFrame DEF Activate, workRows
<1>2. member[c] \in Members /\ access[member[c]] # "none"
  BY CommitFrame DEF Activate, AboutMember
<1>3. found[c] # Nobody => found[c] \in Members /\ identity[found[c]] # "none"
  BY CommitFrame DEF CallOK, Claims, TypeOK
<1>4. access' = [access EXCEPT ![member[c]] = "active"] /\ employment' = [employment EXCEPT ![member[c]] = "active"]
  BY DEF Activate
<1>5. /\ identity' \in [Members -> {"none", "invited", "active", "revoked"}]
      /\ \A i \in Members : /\ identity[i] = "none" <=> identity'[i] = "none"
                            /\ identity'[i] = "revoked" => identity[i] = "revoked"
  BY <1>1, <1>3 DEF Activate, TypeOK
<1>6. \A m \in Members :
        /\ access[m] # "none" => access'[m] # "none"
        /\ identity[m] # "none" => identity'[m] # "none"
        /\ access'[m] # access[m] /\ access[m] = "none" => Busy(c, Invites) /\ m = member[c]
        /\ identity'[m] # "none" => access'[m] # "none"
        /\ access'[m] = "active" => employment'[m] = "active"
  BY <1>1, <1>2, <1>4, <1>5 DEF IInv, Inserted, ActiveIsEmployed, TypeOK
<1>7. /\ access' \in [Members -> AccessStatuses] /\ person' \in [Members -> Members]
      /\ employment' \in [Members -> {"none", "pending_start", "active", "terminated"}]
  BY <1>1, <1>4 DEF TypeOK, AccessStatuses
<1>8. (TypeOK /\ CallsOK /\ Inserted /\ DecidedOnce /\ ActiveIsEmployed)' /\ OthersKept(c)
  BY <1>1, <1>5, <1>6, <1>7, MemberCommit
<1>9. RevocationAccounted'
  BY <1>5, <1>8, CommitFrame, OwesNothing
<1> QED BY <1>8, <1>9 DEF IInv

LEMMA Scheduled ==
  ASSUME IInv, NEW c \in Calls, Commit(c), op[c] \in AboutMember,
         NEW kind \in {"revoke_sessions", "revoke_credentials"},
         NEW i \in Members \union {Nobody}, Schedule(c, kind, i)
  PROVE  /\ Left(c)
         /\ i # Nobody => pc'[c] = "effect" /\ effect'[c].identity = i /\ effect'[c].kind = kind
<1>1. pc[c] = "commit" /\ UNCHANGED <<account, op, member, item, seen, found, audited, lost, commands>> /\ TypeOK
  BY CommitFrame
<1>2. CASE i = Nobody
  BY <1>1, <1>2 DEF Schedule, Goto, Left, Ends, NoEffect
<1>3. CASE i # Nobody
  <2>1. i \in Members /\ Owes(c, kind, i)
    BY <1>3 DEF Schedule, Goto, Owes
  <2>2. pc'[c] = "effect" /\ effect'[c] = [kind |-> kind, identity |-> i, tries |-> 0]
    BY <1>1, <2>1 DEF Owes, TypeOK
  <2> QED BY <1>1, <2>1, <2>2 DEF Left
<1> QED BY <1>2, <1>3

LEMMA SuspendIInv ==
  ASSUME IInv, NEW c \in Calls, Commit(c), Suspend(c)
  PROVE  IInv'
<1>1. UNCHANGED <<employment, person, identity, work, history, approval, decisions>> /\ TypeOK /\ Inserted
  BY CommitFrame DEF Suspend, workRows
<1>2. op[c] \in AboutMember /\ member[c] \in Members /\ access[member[c]] # "none"
  BY CommitFrame DEF Suspend, AboutMember
<1>3. PICK i \in FindFirst(person[member[c]], "active") : Schedule(c, "revoke_sessions", i)
  BY DEF Suspend
<1>4. i \in Members \union {Nobody}
  BY DEF FindFirst, IdentitiesOf
<1>5. Left(c)
  BY <1>2, <1>3, <1>4, Scheduled
<1>6. access' = [access EXCEPT ![member[c]] = "suspended"]
  BY DEF Suspend
<1>7. access' \in [Members -> AccessStatuses]
  BY <1>1, <1>6 DEF TypeOK, AccessStatuses
<1>8. \A m \in Members :
        /\ access[m] # "none" => access'[m] # "none"
        /\ identity[m] # "none" => identity'[m] # "none"
        /\ access'[m] # access[m] /\ access[m] = "none" => Busy(c, Invites) /\ m = member[c]
        /\ identity'[m] # "none" => access'[m] # "none"
        /\ access'[m] = "active" => employment'[m] = "active"
  BY <1>1, <1>2, <1>6 DEF IInv, Inserted, ActiveIsEmployed, TypeOK
<1>9. (TypeOK /\ CallsOK /\ Inserted /\ DecidedOnce /\ ActiveIsEmployed)' /\ OthersKept(c)
  BY <1>1, <1>5, <1>7, <1>8, MemberCommit DEF TypeOK
<1>10. RevocationAccounted'
  BY <1>1, <1>9, CommitFrame, OwesNothing
<1> QED BY <1>9, <1>10 DEF IInv

LEMMA TerminateIInv ==
  ASSUME IInv, NEW c \in Calls, Commit(c), Terminate(c)
  PROVE  IInv'
<1>1. UNCHANGED <<person, work, history, approval, decisions>> /\ TypeOK /\ Inserted
  BY CommitFrame DEF Terminate, workRows
<1>2. op[c] \in AboutMember /\ member[c] \in Members /\ access[member[c]] # "none"
  BY CommitFrame DEF Terminate, AboutMember
<1>3. PICK i \in FindFirst(person[member[c]], "active") :
        /\ identity' = IF i = Nobody THEN identity ELSE [identity EXCEPT ![i] = "revoked"]
        /\ Schedule(c, "revoke_credentials", i)
  BY DEF Terminate
<1>4. i \in Members \union {Nobody} /\ (i # Nobody => i \in Members /\ identity[i] = "active")
  BY DEF FindFirst, IdentitiesOf
<1>5. Left(c) /\ (i # Nobody => /\ pc'[c] = "effect" /\ effect'[c].identity = i
                               /\ effect'[c].kind = "revoke_credentials")
  BY <1>2, <1>3, <1>4, Scheduled
<1>6. /\ access' = [access EXCEPT ![member[c]] = "revoked"]
      /\ employment' = [employment EXCEPT ![member[c]] = "terminated"]
  BY DEF Terminate
<1>7. /\ access' \in [Members -> AccessStatuses]
      /\ employment' \in [Members -> {"none", "pending_start", "active", "terminated"}]
  BY <1>1, <1>6 DEF TypeOK, AccessStatuses
<1>8. /\ identity' \in [Members -> {"none", "invited", "active", "revoked"}]
      /\ \A m \in Members : /\ identity[m] = "none" <=> identity'[m] = "none"
                            /\ m # i => identity'[m] = identity[m]
  BY <1>1, <1>3, <1>4 DEF TypeOK
<1>9. \A m \in Members :
        /\ access[m] # "none" => access'[m] # "none"
        /\ identity[m] # "none" => identity'[m] # "none"
        /\ access'[m] # access[m] /\ access[m] = "none" => Busy(c, Invites) /\ m = member[c]
        /\ identity'[m] # "none" => access'[m] # "none"
        /\ access'[m] = "active" => employment'[m] = "active"
  BY <1>1, <1>2, <1>6, <1>8 DEF IInv, Inserted, ActiveIsEmployed, TypeOK
<1>10. (TypeOK /\ CallsOK /\ Inserted /\ DecidedOnce /\ ActiveIsEmployed)' /\ OthersKept(c)
  BY <1>1, <1>5, <1>7, <1>8, <1>9, MemberCommit DEF TypeOK
<1>11. RevocationAccounted'
  <2> SUFFICES ASSUME NEW j \in Members, identity'[j] = "revoked", account'[j] # "deleted"
               PROVE  \/ \E d \in Calls : /\ pc'[d] \in {"effect", "audit"}
                                          /\ effect'[d].identity = j /\ effect'[d].kind = "revoke_credentials"
                      \/ j \in audited' \union lost'
    BY DEF RevocationAccounted
  <2>1. CASE j = i
    BY <1>4, <1>5, <2>1, WorkAssumption
  <2>2. CASE j # i
    <3>1. \/ \E d \in Calls : /\ pc[d] \in {"effect", "audit"}
                              /\ effect[d].identity = j /\ effect[d].kind = "revoke_credentials"
          \/ j \in audited \union lost
      BY <1>8, <2>2, CommitFrame DEF IInv, RevocationAccounted
    <3> QED BY <1>10, <3>1, CommitFrame DEF OthersKept
  <2> QED BY <2>1, <2>2
<1> QED BY <1>10, <1>11 DEF IInv

LEMMA CreateWorkItemIInv ==
  ASSUME IInv, NEW c \in Calls, Commit(c), CreateWorkItem(c)
  PROVE  IInv'
<1> DEFINE w == item[c]
           m == member[c]
<1>1. /\ Left(c) /\ UNCHANGED <<access, employment, person, identity, approval, decisions>> /\ TypeOK
      /\ Busy(c, {"CreateWorkItem"})
  BY CommitFrame DEF CreateWorkItem, memberRows, Ops
<1>2. w \in Works /\ m \in Members /\ work[w].status = "none"
  BY <1>1, CommitFrame DEF CallOK, Placed, Claims, Busy, OnMember, OnWork
<1>3. /\ work' = [work EXCEPT ![w] = Row("open", m, 0)]
      /\ history' = [history EXCEPT ![w] = Append(@, [from |-> Nobody, to |-> m])]
  BY DEF CreateWorkItem, RecordOwner
<1>4. Row("open", m, 0) \in [status : {"none", "open", "completed", "cancelled"},
                             owner : Members \union {Nobody}, version : Nat]
      /\ Row("open", m, 0).status = "open"
  BY <1>2 DEF Row
<1> HIDE DEF w, m
<1>5. /\ work' \in [Works -> [status : {"none", "open", "completed", "cancelled"},
                              owner : Members \union {Nobody}, version : Nat]]
      /\ work'[w].status = "open"
      /\ \A v \in Works : v # w => work'[v] = work[v]
  BY <1>1, <1>2, <1>3, <1>4 DEF TypeOK
<1>6. history' \in [Works -> Seq([from : Members \union {Nobody}, to : Members])]
  <2>1. [from |-> Nobody, to |-> m] \in [from : Members \union {Nobody}, to : Members]
    BY <1>2
  <2>2. Append(history[w], [from |-> Nobody, to |-> m]) \in Seq([from : Members \union {Nobody}, to : Members])
    <3>1. history[w] \in Seq([from : Members \union {Nobody}, to : Members])
      BY <1>1, <1>2 DEF TypeOK
    <3> QED BY <2>1, <3>1
  <2> QED BY <1>1, <1>3, <2>2 DEF TypeOK
<1>7. RowsGrow(c)
  BY <1>1, <1>2, <1>5 DEF RowsGrow, w
<1>8. DecidedOnce'
  BY <1>1 DEF IInv, DecidedOnce
<1> QED BY <1>1, <1>5, <1>6, <1>7, <1>8, WorkCommit DEF TypeOK

\* Of the row a version was read from, the update is what the command means.
LEMMA ReadRow ==
  ASSUME IInv, NEW c \in Calls, Commit(c), op[c] \in OnWork, VersionHolds(c)
  PROVE  /\ item[c] \in Works /\ work[item[c]] = seen[c] /\ work[item[c]].status = "open"
         /\ work[item[c]] \in [status : {"none", "open", "completed", "cancelled"},
                               owner : Members \union {Nobody}, version : Nat]
         /\ seen[c].version = work[item[c]].version /\ seen[c].owner = work[item[c]].owner
         /\ Busy(c, OnWork)
BY CommitFrame DEF CallOK, Placed, SeenHolds, Busy, TypeOK

LEMMA ReassignIInv ==
  ASSUME IInv, NEW c \in Calls, Commit(c), Reassign(c)
  PROVE  IInv'
<1> DEFINE w == item[c]
           m == member[c]
           Rows == [status : {"none", "open", "completed", "cancelled"},
                    owner : Members \union {Nobody}, version : Nat]
           Hands == [from : Members \union {Nobody}, to : Members]
           row == [status |-> "open", owner |-> m, version |-> work[w].version + 1]
           hand == [from |-> work[w].owner, to |-> m]
<1>1. /\ Left(c) /\ UNCHANGED <<access, employment, person, identity, approval, decisions>> /\ TypeOK
      /\ op[c] = "ReassignWork" /\ VersionHolds(c)
  BY CommitFrame DEF Reassign, memberRows
<1>2. w \in Works /\ work[w] \in Rows /\ work[w].status = "open" /\ seen[c].version = work[w].version
      /\ seen[c].owner = work[w].owner
  BY <1>1, ReadRow DEF OnWork
<1>3. m \in Members
  BY <1>1, CommitFrame DEF CallOK, Placed, Busy, OnMember
<1>4. row \in Rows /\ row.status = "open" /\ row.version = work[w].version + 1 /\ hand \in Hands
  BY <1>2, <1>3
<1>5. work' = [work EXCEPT ![w] = row]
  <2>1. work \in [Works -> Rows]
    BY <1>1 DEF TypeOK
  <2>2. work' = [work EXCEPT ![w].owner = m, ![w].version = work[w].version + 1]
    BY <1>2 DEF Reassign
  <2> HIDE DEF w, m
  <2>3. ASSUME NEW r \in Rows, NEW v
        PROVE  [[r EXCEPT !.owner = m] EXCEPT !.version = v] = [status |-> r.status, owner |-> m, version |-> v]
    <3> DEFINE q == [r EXCEPT !.owner = m]
    <3>1. q = [status |-> r.status, owner |-> m, version |-> r.version]
      OBVIOUS
    <3> HIDE DEF q
    <3>2. [q EXCEPT !.version = v] = [status |-> r.status, owner |-> m, version |-> v]
      BY <3>1
    <3> QED BY <3>2 DEF q
  <2>4. work' = [work EXCEPT ![w] = [[work[w] EXCEPT !.owner = m] EXCEPT !.version = work[w].version + 1]]
    BY <1>2, <2>1, <2>2
  <2>5. [[work[w] EXCEPT !.owner = m] EXCEPT !.version = work[w].version + 1] =
          [status |-> work[w].status, owner |-> m, version |-> work[w].version + 1]
    BY ONLY <1>2, <2>3
  <2>6. row = [status |-> work[w].status, owner |-> m, version |-> work[w].version + 1]
    BY <1>2
  <2> HIDE DEF row
  <2> QED BY <2>4, <2>5, <2>6
<1>6. history' = [history EXCEPT ![w] = Append(@, hand)]
  BY <1>2 DEF Reassign, RecordOwner
<1> HIDE DEF w, m, row, hand, Rows, Hands
<1>7. work \in [Works -> Rows] /\ history \in [Works -> Seq(Hands)]
  BY <1>1 DEF TypeOK, Rows, Hands
<1>8. work' \in [Works -> Rows] /\ work'[w] = row /\ \A v \in Works : v # w => work'[v] = work[v]
  BY <1>2, <1>4, <1>5, <1>7
<1>9. history' \in [Works -> Seq(Hands)]
  BY <1>2, <1>4, <1>6, <1>7
<1>10. RowsGrow(c)
  BY <1>1, <1>2, <1>4, <1>8 DEF RowsGrow
<1>11. DecidedOnce'
  BY <1>1 DEF IInv, DecidedOnce
<1>12. \A v \in Works : work'[v].status = "none" => work'[v] = work[v]
  BY <1>4, <1>8
<1> QED BY <1>1, <1>8, <1>9, <1>10, <1>11, <1>12, WorkCommit DEF TypeOK, Rows, Hands

LEMMA CloseIInv ==
  ASSUME IInv, NEW c \in Calls, Commit(c), Close(c)
  PROVE  IInv'
<1> DEFINE w == item[c]
           s == IF op[c] = "CompleteWork" THEN "completed" ELSE "cancelled"
           Rows == [status : {"none", "open", "completed", "cancelled"},
                    owner : Members \union {Nobody}, version : Nat]
           row == [status |-> s, owner |-> work[w].owner, version |-> work[w].version + 1]
<1>1. /\ Left(c) /\ UNCHANGED <<access, employment, person, identity, history, approval, decisions>> /\ TypeOK
      /\ op[c] \in OnWork /\ VersionHolds(c)
  BY CommitFrame DEF Close, memberRows, OnWork
<1>2. w \in Works /\ work[w] \in Rows /\ work[w].status = "open" /\ seen[c].version = work[w].version
  BY <1>1, ReadRow
<1>3. row \in Rows /\ row.status # "none" /\ row.version = work[w].version + 1
  BY <1>2
<1>4. work' = [work EXCEPT ![w] = row]
  <2>1. work \in [Works -> Rows]
    BY <1>1 DEF TypeOK
  <2>2. work' = [work EXCEPT ![w].status = s, ![w].version = work[w].version + 1]
    BY <1>2 DEF Close
  <2> HIDE DEF w, s
  <2>3. ASSUME NEW r \in Rows, NEW v
        PROVE  [[r EXCEPT !.status = s] EXCEPT !.version = v] = [status |-> s, owner |-> r.owner, version |-> v]
    <3> DEFINE q == [r EXCEPT !.status = s]
    <3>1. q = [status |-> s, owner |-> r.owner, version |-> r.version]
      OBVIOUS
    <3> HIDE DEF q
    <3>2. [q EXCEPT !.version = v] = [status |-> s, owner |-> r.owner, version |-> v]
      BY <3>1
    <3> QED BY <3>2 DEF q
  <2>4. work' = [work EXCEPT ![w] = [[work[w] EXCEPT !.status = s] EXCEPT !.version = work[w].version + 1]]
    BY <1>2, <2>1, <2>2
  <2> QED BY <1>2, <2>3, <2>4
<1> HIDE DEF w, s, row, Rows
<1>5. work \in [Works -> Rows]
  BY <1>1 DEF TypeOK, Rows
<1>6. work' \in [Works -> Rows] /\ work'[w] = row /\ \A v \in Works : v # w => work'[v] = work[v]
  BY <1>2, <1>3, <1>4, <1>5
<1>7. RowsGrow(c)
  BY <1>1, <1>2, <1>3, <1>6 DEF RowsGrow
<1>8. DecidedOnce'
  BY <1>1 DEF IInv, DecidedOnce
<1>9. \A v \in Works : work'[v].status = "none" => work'[v] = work[v]
  BY <1>3, <1>6
<1> QED BY <1>1, <1>6, <1>7, <1>8, <1>9, WorkCommit DEF TypeOK, Rows

LEMMA RequestApprovalIInv ==
  ASSUME IInv, NEW c \in Calls, Commit(c), RequestApproval(c)
  PROVE  IInv'
<1>1. /\ Left(c) /\ UNCHANGED <<access, employment, person, identity, work, history, decisions>> /\ TypeOK
      /\ Busy(c, {"RequestApproval"})
  BY CommitFrame DEF RequestApproval, memberRows, Ops
<1>2. item[c] \in Approvals /\ approval[item[c]] = "none"
  BY <1>1, CommitFrame DEF CallOK, Placed, Claims, Busy
<1>3. approval' = [approval EXCEPT ![item[c]] = "pending"]
  BY DEF RequestApproval
<1>4. RowsGrow(c)
  BY <1>1, <1>3 DEF RowsGrow, TypeOK
<1>5. DecidedOnce'
  BY <1>1, <1>2, <1>3 DEF IInv, DecidedOnce, TypeOK
<1>6. approval' \in [Approvals -> {"none", "pending", "approved", "rejected"}]
  BY <1>1, <1>3 DEF TypeOK
<1> QED BY <1>1, <1>4, <1>5, <1>6, WorkCommit DEF TypeOK

LEMMA DecideIInv ==
  ASSUME IInv, NEW c \in Calls, Commit(c), Decide(c)
  PROVE  IInv'
<1> DEFINE a == item[c]
           d == Decision(op[c])
<1>1. /\ Left(c) /\ UNCHANGED <<access, employment, person, identity, work, history>> /\ TypeOK
      /\ op[c] \in Decisions /\ pc[c] = "commit"
  BY CommitFrame DEF Decide, memberRows
<1>2. a \in Approvals /\ approval[a] = "pending"
  BY <1>1, CommitFrame DEF CallOK, Placed, Busy, Decide, StillPending
<1>3. approval' = [approval EXCEPT ![a] = d] /\ decisions' = [decisions EXCEPT ![a] = Append(@, d)]
  BY DEF Decide
<1>4. d \in {"approved", "rejected"} /\ decisions[a] = <<>>
  BY <1>2 DEF Decision, IInv, DecidedOnce
<1> HIDE DEF a, d
<1>5. Append(decisions[a], d) = <<d>> /\ <<d>> \in Seq({"approved", "rejected"})
  BY <1>4
<1>6. /\ approval' \in [Approvals -> {"none", "pending", "approved", "rejected"}]
      /\ decisions' \in [Approvals -> Seq({"approved", "rejected"})]
  BY <1>1, <1>3, <1>4, <1>5 DEF TypeOK
<1>7. DecidedOnce'
  <2>1. approval'[a] = d /\ decisions'[a] = <<d>>
    BY <1>1, <1>2, <1>3, <1>5 DEF TypeOK
  <2>2. \A b \in Approvals : b # a => approval'[b] = approval[b] /\ decisions'[b] = decisions[b]
    BY <1>1, <1>3 DEF TypeOK
  <2> QED BY <1>4, <2>1, <2>2 DEF IInv, DecidedOnce
<1>8. RowsGrow(c)
  BY <1>1, <1>2, <1>3 DEF RowsGrow, TypeOK
<1> QED BY <1>1, <1>6, <1>7, <1>8, WorkCommit DEF TypeOK

-----------------------------------------------------------------------------
LEMMA IInvStep == IInv /\ [Next]_vars => IInv'
<1> SUFFICES ASSUME IInv, [Next]_vars PROVE IInv'
  OBVIOUS
<1>1. ASSUME NEW c \in Calls, Start(c) PROVE IInv'
  <2>1. PICK o, m, i, first : Admissible(c, o, m, i, first) /\ Begin(c, o, m, i, first)
    BY <1>1, StartAdmissible
  <2> QED BY <2>1, BeginIInv
<1>2. ASSUME NEW c \in Calls, Read(c) \/ Fail(c) PROVE IInv'
  BY <1>2, ReadIInv
<1>3. ASSUME NEW c \in Calls, Commit(c) PROVE IInv'
  <2>1. \/ InsertMember(c) \/ Activate(c) \/ Suspend(c) \/ Terminate(c)
        \/ CreateWorkItem(c) \/ Reassign(c) \/ Close(c) \/ RequestApproval(c) \/ Decide(c)
    BY <1>3 DEF Commit
  <2> QED BY <1>3, <2>1, InsertMemberIInv, ActivateIInv, SuspendIInv, TerminateIInv, CreateWorkItemIInv,
             ReassignIInv, CloseIInv, RequestApprovalIInv, DecideIInv
<1>4. ASSUME NEW c \in Calls, Provider(c) PROVE IInv'
  BY <1>4, ProviderIInv
<1>5. ASSUME NEW m \in Members, SignIn(m) PROVE IInv'
  BY <1>5, SignInIInv
<1>6. CASE UNCHANGED vars
  BY <1>6, StutterIInv
<1> QED BY <1>1, <1>2, <1>3, <1>4, <1>5, <1>6 DEF Next

LEMMA IInvAlways == Spec => []IInv
  BY InitIInv, IInvStep, PTL DEF Spec

(* Rows, statements and payloads keep their types. *)
THEOREM TypeCorrect == Spec => []TypeOK
<1>1. IInv => TypeOK
  BY DEF IInv
<1> QED BY <1>1, IInvAlways, PTL

(* However many approvers and delegates find an approval pending, it has   *)
(* one decision event and the row says the same (the conditional update of *)
(* decidePendingApprovalRequest).                                          *)
THEOREM OneDecision == Spec => []DecidedOnce
<1>1. IInv => DecidedOnce
  BY DEF IInv
<1> QED BY <1>1, IInvAlways, PTL

(* However activations, suspensions, terminations and rehirings overtake   *)
(* each other, whoever has access is employed.                             *)
THEOREM AccessNeedsEmployment == Spec => []ActiveIsEmployed
<1>1. IInv => ActiveIsEmployed
  BY DEF IInv
<1> QED BY <1>1, IInvAlways, PTL

(* A revoked identity whose account is still usable has its revocation     *)
(* under way, audited as failed, or lost with the process that owed it     *)
(* (runProviderSideEffectWithRetry after the commit).                      *)
THEOREM RevocationNeverForgotten == Spec => []RevocationAccounted
<1>1. IInv => RevocationAccounted
  BY DEF IInv
<1> QED BY <1>1, IInvAlways, PTL

-----------------------------------------------------------------------------
(* Every step does to a work item what WorkLifecycle does, or nothing.     *)
StatusOf == [w \in Works |-> work[w].status]
OwnerOf == [w \in Works |-> work[w].owner]

LEMMA WorkStill ==
  ASSUME UNCHANGED <<work, history>>
  PROVE  UNCHANGED Lifecycle!vars
BY DEF Lifecycle!vars

\* An update of one row seen through the mapping.
LEMMA RowMapped ==
  ASSUME work \in [Works -> [status : {"none", "open", "completed", "cancelled"},
                             owner : Members \union {Nobody}, version : Nat]],
         NEW w \in Works, work' \in [Works -> [status : {"none", "open", "completed", "cancelled"},
                                               owner : Members \union {Nobody}, version : Nat]],
         \A v \in Works : v # w => work'[v] = work[v]
  PROVE  /\ StatusOf' = [StatusOf EXCEPT ![w] = work'[w].status]
         /\ OwnerOf' = [OwnerOf EXCEPT ![w] = work'[w].owner]
         /\ StatusOf[w] = work[w].status /\ OwnerOf[w] = work[w].owner
BY DEF StatusOf, OwnerOf

LEMMA CreateRefines ==
  ASSUME IInv, IInv', NEW c \in Calls, Commit(c), CreateWorkItem(c)
  PROVE  Lifecycle!Next
<1> PICK w, m : w = item[c] /\ m = member[c]
  OBVIOUS
<1>1. w \in Works /\ m \in Members /\ work[w].status = "none" /\ work[w].owner = Nobody
  BY CommitFrame DEF CallOK, Placed, Claims, Busy, OnMember, CreateWorkItem, Ops, Inserted
<1>2. work' = [work EXCEPT ![w] = Row("open", m, 0)]
      /\ history' = [history EXCEPT ![w] = Append(@, [from |-> Nobody, to |-> m])]
  BY DEF CreateWorkItem, RecordOwner
<1>3. work'[w].status = "open" /\ work'[w].owner = m /\ \A v \in Works : v # w => work'[v] = work[v]
  BY <1>1, <1>2 DEF IInv, TypeOK, Row
<1>4. /\ StatusOf' = [StatusOf EXCEPT ![w] = "open"] /\ OwnerOf' = [OwnerOf EXCEPT ![w] = m]
      /\ StatusOf[w] = "none" /\ OwnerOf[w] = Nobody
  <2>1. /\ work \in [Works -> [status : {"none", "open", "completed", "cancelled"},
                              owner : Members \union {Nobody}, version : Nat]]
        /\ work' \in [Works -> [status : {"none", "open", "completed", "cancelled"},
                               owner : Members \union {Nobody}, version : Nat]]
    BY DEF IInv, TypeOK
  <2>2. /\ StatusOf' = [StatusOf EXCEPT ![w] = work'[w].status]
        /\ OwnerOf' = [OwnerOf EXCEPT ![w] = work'[w].owner]
        /\ StatusOf[w] = work[w].status /\ OwnerOf[w] = work[w].owner
    BY ONLY <1>1, <1>3, <2>1, RowMapped
  <2> QED BY <1>1, <1>3, <2>2
<1>5. Lifecycle!Open(w, m)
  BY <1>2, <1>4 DEF Lifecycle!Open, Lifecycle!Hand, StatusOf, OwnerOf
<1> QED BY <1>1, <1>5, Zenon DEF Lifecycle!Next

LEMMA ReassignRefines ==
  ASSUME IInv, IInv', NEW c \in Calls, Commit(c), Reassign(c)
  PROVE  Lifecycle!Next
<1> PICK w, m : w = item[c] /\ m = member[c]
  OBVIOUS
<1>1. w \in Works /\ work[w] = seen[c] /\ work[w].status = "open" /\ seen[c].owner = work[w].owner
  BY ReadRow DEF Reassign, OnWork
<1>2. m \in Members
  BY CommitFrame DEF CallOK, Placed, Busy, OnMember, Reassign
<1>3. work' = [work EXCEPT ![w].owner = m, ![w].version = seen[c].version + 1]
      /\ history' = [history EXCEPT ![w] = Append(@, [from |-> work[w].owner, to |-> m])]
  BY <1>1 DEF Reassign, RecordOwner
<1>4. work'[w].status = "open" /\ work'[w].owner = m /\ \A v \in Works : v # w => work'[v] = work[v]
  BY <1>1, <1>3 DEF IInv, TypeOK
<1>5. /\ StatusOf' = [StatusOf EXCEPT ![w] = "open"] /\ OwnerOf' = [OwnerOf EXCEPT ![w] = m]
      /\ StatusOf[w] = "open" /\ OwnerOf[w] = work[w].owner
  <2>1. /\ work \in [Works -> [status : {"none", "open", "completed", "cancelled"},
                              owner : Members \union {Nobody}, version : Nat]]
        /\ work' \in [Works -> [status : {"none", "open", "completed", "cancelled"},
                               owner : Members \union {Nobody}, version : Nat]]
    BY DEF IInv, TypeOK
  <2>2. /\ StatusOf' = [StatusOf EXCEPT ![w] = work'[w].status]
        /\ OwnerOf' = [OwnerOf EXCEPT ![w] = work'[w].owner]
        /\ StatusOf[w] = work[w].status /\ OwnerOf[w] = work[w].owner
    BY ONLY <1>1, <1>4, <2>1, RowMapped
  <2> QED BY <1>1, <1>4, <2>2
<1>6. UNCHANGED StatusOf
  BY <1>5 DEF StatusOf
<1>7. Lifecycle!HandOn(w, m)
  BY <1>3, <1>5, <1>6 DEF Lifecycle!HandOn, Lifecycle!Hand, StatusOf, OwnerOf
<1> QED BY <1>1, <1>2, <1>7, Zenon DEF Lifecycle!Next

LEMMA CloseRefines ==
  ASSUME IInv, IInv', NEW c \in Calls, Commit(c), Close(c)
  PROVE  Lifecycle!Next
<1> PICK w, s : w = item[c] /\ s = IF op[c] = "CompleteWork" THEN "completed" ELSE "cancelled"
  OBVIOUS
<1>1. w \in Works /\ work[w].status = "open"
  BY ReadRow DEF Close, OnWork
<1>2. work' = [work EXCEPT ![w].status = s, ![w].version = seen[c].version + 1] /\ UNCHANGED history
  BY DEF Close
<1>3. work'[w].status = s /\ work'[w].owner = work[w].owner /\ \A v \in Works : v # w => work'[v] = work[v]
  BY <1>1, <1>2 DEF IInv, TypeOK
<1>4. /\ StatusOf' = [StatusOf EXCEPT ![w] = s] /\ OwnerOf' = [OwnerOf EXCEPT ![w] = work[w].owner]
      /\ StatusOf[w] = "open" /\ OwnerOf[w] = work[w].owner
  <2>1. /\ work \in [Works -> [status : {"none", "open", "completed", "cancelled"},
                              owner : Members \union {Nobody}, version : Nat]]
        /\ work' \in [Works -> [status : {"none", "open", "completed", "cancelled"},
                               owner : Members \union {Nobody}, version : Nat]]
    BY DEF IInv, TypeOK
  <2>2. /\ StatusOf' = [StatusOf EXCEPT ![w] = work'[w].status]
        /\ OwnerOf' = [OwnerOf EXCEPT ![w] = work'[w].owner]
        /\ StatusOf[w] = work[w].status /\ OwnerOf[w] = work[w].owner
    BY ONLY <1>1, <1>3, <2>1, RowMapped
  <2> QED BY <1>1, <1>3, <2>2
<1>5. UNCHANGED OwnerOf
  BY <1>4 DEF OwnerOf
<1>6. Lifecycle!Close(w, s)
  BY <1>2, <1>4, <1>5 DEF Lifecycle!Close, StatusOf, OwnerOf
<1>7. s \in {"completed", "cancelled"}
  OBVIOUS
<1> QED BY <1>1, <1>6, <1>7, Zenon DEF Lifecycle!Next

(* Racing commands on versioned rows do to work items what WorkLifecycle   *)
(* does: open once, hand on from whoever has it, close once, and a trail   *)
(* that says so (updateWorkItem and the ownership history).                *)
THEOREM LifecycleRefined == Spec => LifecycleSpec
<1>1. Init => Lifecycle!Init
  BY DEF Init, Lifecycle!Init, NoWork
<1>2. IInv /\ IInv' /\ [Next]_vars => [Lifecycle!Next]_(Lifecycle!vars)
  <2> SUFFICES ASSUME IInv, IInv', [Next]_vars PROVE [Lifecycle!Next]_(Lifecycle!vars)
    OBVIOUS
  <2>1. CASE UNCHANGED <<work, history>>
    BY <2>1, WorkStill
  <2>2. ASSUME NEW c \in Calls, Commit(c), CreateWorkItem(c) \/ Reassign(c) \/ Close(c)
        PROVE  Lifecycle!Next
    BY <2>2, CreateRefines, ReassignRefines, CloseRefines
  <2>3. ASSUME NEW c \in Calls, Commit(c), ~ (CreateWorkItem(c) \/ Reassign(c) \/ Close(c))
        PROVE  UNCHANGED <<work, history>>
    BY <2>3 DEF Commit, InsertMember, Activate, Suspend, Terminate, RequestApproval, Decide, workRows
  <2>4. ASSUME NEW c \in Calls, Start(c) PROVE UNCHANGED <<work, history>>
    BY <2>4 DEF Start, StartInvite, StartRehire, StartOnMember, StartCreate, StartOnWork, StartRequest,
                StartDecide, Begin, workRows
  <2>5. ASSUME NEW c \in Calls, Read(c) \/ Fail(c) PROVE UNCHANGED <<work, history>>
    BY <2>5 DEF Read, Fail, CallInvite, ReadMember, FindInvited, ListOpenWork, RequireOpenWork, ReadOwner,
                ReadApproval, ReadsOnly, workRows
  <2>6. ASSUME NEW c \in Calls, Provider(c) PROVE UNCHANGED <<work, history>>
    BY <2>6 DEF Provider, Sync, EffectDone, EffectFails, Audit, Crash, ReadsOnly, workRows
  <2>7. ASSUME NEW m \in Members, SignIn(m) PROVE UNCHANGED <<work, history>>
    BY <2>7 DEF SignIn, workRows
  <2>8. UNCHANGED vars => UNCHANGED <<work, history>>
    BY DEF vars, workRows
  <2> QED BY <2>1, <2>2, <2>3, <2>4, <2>5, <2>6, <2>7, <2>8 DEF Next
<1> QED BY <1>1, <1>2, IInvAlways, PTL DEF Spec, LifecycleSpec, Lifecycle!Spec

-----------------------------------------------------------------------------
(* What the ownership history tells, and what is settled for good.          *)

Linked(t) == \A i \in 1..(Len(t) - 1) : t[i + 1].from = t[i].to

TrailTells(w) ==
  /\ work[w].status = "none" => history[w] = <<>>
  /\ work[w].status # "none" =>
       /\ Len(history[w]) >= 1
       /\ history[w][1].from = Nobody
       /\ history[w][Len(history[w])].to = work[w].owner
       /\ Linked(history[w])

TrailConnected == \A w \in Works : TrailTells(w)

\* One entry of an ownership history, recordWorkOwnership.
Hand == [from : Members \union {Nobody}, to : Members]

LEMMA TrailLonger ==
  ASSUME NEW t \in Seq(Hand), NEW hand \in Hand,
         Len(t) >= 1, Linked(t), hand.from = t[Len(t)].to
  PROVE  /\ Len(Append(t, hand)) >= 1 /\ Append(t, hand)[1] = t[1]
         /\ Append(t, hand)[Len(Append(t, hand))] = hand /\ Linked(Append(t, hand))
<1> DEFINE u == Append(t, hand)
<1>1. Len(t) \in Nat /\ Len(u) = Len(t) + 1 /\ u[Len(t) + 1] = hand /\ \A i \in 1..Len(t) : u[i] = t[i]
  OBVIOUS
<1> HIDE DEF u
<1>2. ASSUME NEW i \in 1..(Len(u) - 1) PROVE u[i + 1].from = u[i].to
  <2>1. i \in 1..Len(t)
    BY <1>1
  <2>2. CASE i = Len(t)
    BY <1>1, <2>2
  <2>3. CASE i # Len(t)
    <3>1. i \in 1..(Len(t) - 1) /\ i + 1 \in 1..Len(t)
      BY <1>1, <2>1, <2>3
    <3> QED BY <1>1, <2>1, <3>1 DEF Linked
  <2> QED BY <2>2, <2>3
<1>3. Linked(u)
  BY <1>2 DEF Linked
<1>4. Len(u) >= 1 /\ u[1] = t[1] /\ u[Len(u)] = hand
  BY <1>1
<1> QED BY <1>3, <1>4 DEF u

LEMMA TrailKept ==
  ASSUME NEW w \in Works, TrailTells(w),
         work'[w].status = "none" <=> work[w].status = "none", work'[w].owner = work[w].owner,
         history'[w] = history[w]
  PROVE  TrailTells(w)'
BY DEF TrailTells

\* What a commit that writes a work item does to one row, and to its trail.
LEMMA TrailCommit ==
  ASSUME IInv, TrailConnected, NEW c \in Calls, Commit(c), CreateWorkItem(c) \/ Reassign(c) \/ Close(c)
  PROVE  /\ TrailConnected'
         /\ item[c] \in Works /\ work[item[c]].status \in {"none", "open"}
         /\ \A w \in Works : w # item[c] => work'[w] = work[w] /\ history'[w] = history[w]
         /\ approval' = approval /\ decisions' = decisions
<1>0. TypeOK /\ Inserted
  BY DEF IInv
<1> USE <1>0 DEF TypeOK
<1>1. item[c] \in Works /\ work[item[c]].status \in {"none", "open"} /\ approval' = approval /\ decisions' = decisions
  <2>1. CASE CreateWorkItem(c)
    BY <2>1, CommitFrame DEF CallOK, Placed, Claims, Busy, CreateWorkItem, Ops
  <2>2. CASE Reassign(c) \/ Close(c)
    BY <2>2, ReadRow DEF Reassign, Close, OnWork
  <2> QED BY <2>1, <2>2
<1>2. \A w \in Works : w # item[c] => work'[w] = work[w] /\ history'[w] = history[w]
  BY DEF CreateWorkItem, Reassign, Close, RecordOwner
<1>3. ASSUME NEW w \in Works, w # item[c] PROVE TrailTells(w)'
  BY <1>2, <1>3, TrailKept DEF TrailConnected
<1>4. ASSUME NEW w, w = item[c] PROVE TrailTells(w)'
  <2>0. w \in Works /\ TrailTells(w)
    BY <1>1, <1>4 DEF TrailConnected
  <2>1. CASE CreateWorkItem(c)
    <3>1. member[c] \in Members /\ history[w] = <<>>
      BY <2>0, <2>1, <1>4, CommitFrame DEF CallOK, Placed, Claims, Busy, OnMember, CreateWorkItem, Ops, TrailTells
    <3>2. history'[w] = <<[from |-> Nobody, to |-> member[c]]>>
      BY <1>4, <2>0, <2>1, <3>1 DEF CreateWorkItem, RecordOwner
    <3>3. work'[w].status = "open" /\ work'[w].owner = member[c]
      BY <1>4, <2>0, <2>1 DEF CreateWorkItem, Row
    <3> QED BY <3>2, <3>3 DEF TrailTells, Linked
  <2>2. CASE Reassign(c)
    <3>1. work[w].status = "open" /\ seen[c].owner = work[w].owner /\ member[c] \in Members
      BY <1>4, <2>2, ReadRow, CommitFrame DEF Reassign, OnWork, CallOK, Placed, Busy, OnMember
    <3>2. work'[w].status = "open" /\ work'[w].owner = member[c]
          /\ history'[w] = Append(history[w], [from |-> work[w].owner, to |-> member[c]])
      BY <1>4, <2>0, <2>2, <3>1 DEF Reassign, RecordOwner
    <3>3. /\ history[w] \in Seq([from : Members \union {Nobody}, to : Members])
          /\ Len(history[w]) >= 1 /\ Linked(history[w]) /\ history[w][1].from = Nobody
          /\ work[w].owner = history[w][Len(history[w])].to /\ work[w].owner \in Members \union {Nobody}
      BY <2>0, <3>1 DEF TrailTells
    <3>4. /\ Len(history'[w]) >= 1 /\ history'[w][1] = history[w][1]
          /\ history'[w][Len(history'[w])].to = member[c] /\ Linked(history'[w])
      <4>1. history'[w] = Append(history[w], [from |-> history[w][Len(history[w])].to, to |-> member[c]])
        BY <3>2, <3>3
      <4>2. PICK t, hand : t = history[w] /\ hand = [from |-> t[Len(t)].to, to |-> member[c]]
        OBVIOUS
      <4>3. t \in Seq(Hand) /\ Len(t) >= 1 /\ Linked(t)
        BY <3>3, <4>2 DEF Hand
      <4>4. t[Len(t)].to \in Members \union {Nobody}
        BY <3>3, <4>2
      <4>5. hand \in Hand /\ hand.from = t[Len(t)].to /\ hand.to = member[c]
        BY ONLY <3>1, <4>2, <4>4 DEF Hand
      <4>6. /\ Len(Append(t, hand)) >= 1 /\ Append(t, hand)[1] = t[1]
            /\ Append(t, hand)[Len(Append(t, hand))] = hand /\ Linked(Append(t, hand))
        BY ONLY <4>3, <4>5, TrailLonger
      <4>7. history'[w] = Append(t, hand)
        BY <4>1, <4>2
      <4> QED BY <4>2, <4>5, <4>6, <4>7
    <3> QED BY <3>2, <3>3, <3>4 DEF TrailTells, Linked
  <2>3. CASE Close(c)
    <3>1. work[w].status = "open"
      BY <1>4, <2>3, ReadRow DEF Close, OnWork
    <3>2. work'[w].status # "none" /\ work'[w].owner = work[w].owner /\ history'[w] = history[w]
      BY <1>4, <2>0, <2>3 DEF Close
    <3> QED BY <2>0, <3>1, <3>2, TrailKept
  <2> QED BY <2>1, <2>2, <2>3
<1>5. TrailConnected'
  <2>1. ASSUME NEW w \in Works PROVE TrailTells(w)'
    BY <1>3, <1>4
  <2> QED BY ONLY <2>1 DEF TrailConnected
<1> QED BY <1>1, <1>2, <1>5

\* Only the commits of the commands on work and approvals touch these rows.
LEMMA WorkQuiet ==
  ASSUME Next
  PROVE  \/ UNCHANGED workRows
         \/ \E c \in Calls : Commit(c) /\ (CreateWorkItem(c) \/ Reassign(c) \/ Close(c) \/ RequestApproval(c) \/ Decide(c))
<1>1. ASSUME NEW c \in Calls, Start(c) PROVE UNCHANGED workRows
  BY <1>1 DEF Start, StartInvite, StartRehire, StartOnMember, StartCreate, StartOnWork, StartRequest, StartDecide, Begin
<1>2. ASSUME NEW c \in Calls, Read(c) \/ Fail(c) PROVE UNCHANGED workRows
  BY <1>2 DEF Read, Fail, CallInvite, ReadMember, FindInvited, ListOpenWork, RequireOpenWork, ReadOwner,
              ReadApproval, ReadsOnly
<1>3. ASSUME NEW c \in Calls, Provider(c) PROVE UNCHANGED workRows
  BY <1>3 DEF Provider, Sync, EffectDone, EffectFails, Audit, Crash, ReadsOnly
<1>4. ASSUME NEW m \in Members, SignIn(m) PROVE UNCHANGED workRows
  BY <1>4 DEF SignIn
<1>5. ASSUME NEW c \in Calls, Commit(c), InsertMember(c) \/ Activate(c) \/ Suspend(c) \/ Terminate(c)
      PROVE  UNCHANGED workRows
  BY <1>5 DEF InsertMember, Activate, Suspend, Terminate
<1> QED BY <1>1, <1>2, <1>3, <1>4, <1>5 DEF Next, Commit

\* A commit about approvals leaves work alone and finds a decided one in no case.
LEMMA ApprovalCommit ==
  ASSUME IInv, NEW c \in Calls, Commit(c), RequestApproval(c) \/ Decide(c)
  PROVE  /\ UNCHANGED <<work, history>>
         /\ \A a \in Approvals : approval[a] \in {"approved", "rejected"} =>
              approval'[a] = approval[a] /\ decisions'[a] = decisions[a]
<1>0. TypeOK
  BY DEF IInv
<1>1. approval[item[c]] \in {"none", "pending"}
  BY CommitFrame DEF CallOK, Claims, Busy, RequestApproval, Decide, StillPending, Ops
<1> QED BY <1>0, <1>1 DEF RequestApproval, Decide, TypeOK

SettledKept ==
  /\ \A w \in Works : work[w].status \in {"completed", "cancelled"} => work'[w] = work[w] /\ history'[w] = history[w]
  /\ \A a \in Approvals : approval[a] \in {"approved", "rejected"} =>
       approval'[a] = approval[a] /\ decisions'[a] = decisions[a]

LEMMA TrailStep == IInv /\ TrailConnected /\ [Next]_vars => TrailConnected' /\ [SettledKept]_vars
<1> SUFFICES ASSUME IInv, TrailConnected, [Next]_vars PROVE TrailConnected' /\ (SettledKept \/ UNCHANGED vars)
  OBVIOUS
<1>1. CASE UNCHANGED workRows
  BY <1>1 DEF workRows, TrailConnected, TrailTells, SettledKept
<1>2. ASSUME NEW c \in Calls, Commit(c), CreateWorkItem(c) \/ Reassign(c) \/ Close(c)
      PROVE  TrailConnected' /\ SettledKept
  <2>1. /\ TrailConnected' /\ approval' = approval /\ decisions' = decisions
        /\ work[item[c]].status \in {"none", "open"}
        /\ \A w \in Works : w # item[c] => work'[w] = work[w] /\ history'[w] = history[w]
    BY <1>2, TrailCommit
  <2> QED BY <2>1 DEF SettledKept
<1>3. ASSUME NEW c \in Calls, Commit(c), RequestApproval(c) \/ Decide(c)
      PROVE  TrailConnected' /\ SettledKept
  BY <1>3, ApprovalCommit DEF TrailConnected, TrailTells, SettledKept
<1>4. UNCHANGED vars => UNCHANGED workRows
  BY DEF vars
<1> QED BY <1>1, <1>2, <1>3, <1>4, WorkQuiet

LEMMA TrailInit == Init => TrailConnected
  BY DEF Init, NoWork, TrailConnected, TrailTells

(* The ownership history of a work item is one chain of hands: it begins    *)
(* with nobody, each hand takes the item from the one before, and the last  *)
(* has it (recordWorkOwnership, through racing reassignments).              *)
THEOREM TrailsAlwaysConnect == Spec => []TrailConnected
  BY TrailInit, TrailStep, IInvAlways, PTL DEF Spec

(* Completed or cancelled work keeps its row and its history for good, and  *)
(* a decided approval keeps its decision, whatever commands read the row    *)
(* while it was still open or pending.                                      *)
THEOREM SettledStays == Spec => [][SettledKept]_vars
  BY TrailInit, TrailStep, IInvAlways, PTL DEF Spec
=============================================================================
