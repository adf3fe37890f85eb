-------------------------- MODULE WorkAndWorkforce --------------------------
(***************************************************************************)
(* Members of one organization, the identities and provider accounts they  *)
(* sign in with, their work items and approvals: WorkCommandService and    *)
(* WorkforceCommandService over their Prisma stores.                       *)
(*                                                                         *)
(* A command is a READ COMMITTED transaction: each statement reads what is *)
(* committed when it runs.  Its first update locks the row until the       *)
(* commit, so the updates, the event rows and the commit are one step,     *)
(* Commit.  Effects on the auth provider come after the commit and die     *)
(* with the process.                                                       *)
(*                                                                         *)
(* A person is named by the first membership it had; every identity has a  *)
(* provider account of its own.  Authority and subject checks can only     *)
(* refuse a command, and any refusal is Fail.                              *)
(***************************************************************************)
EXTENDS Naturals, Sequences, FiniteSets

CONSTANTS
  Members,      \* ids of memberships
  Founders,     \* the memberships seeded as active
  Works,        \* ids of work items
  Approvals,    \* ids of approval requests
  Calls,        \* commands in progress at a time
  Nobody,       \* no member, no work item, no identity
  Attempts,     \* attempts of a provider effect
  MaxCommands   \* bound on commands started

ASSUME WorkAssumption ==
  /\ IsFiniteSet(Members) /\ Founders \subseteq Members
  /\ Nobody \notin Members \union Works \union Approvals
  /\ Attempts \in Nat \ {0} /\ MaxCommands \in Nat

VARIABLES
  \* committed rows
  access,      \* access[m]: "none" before the member row exists
  employment,  \* employment[m]
  person,      \* person[m]: the first membership of that person
  identity,    \* identity[m]: status of the identity inserted with m
  work,        \* work[w]: [status, owner, version]
  history,     \* history[w]: ownership history rows [from, to]
  approval,    \* approval[a]: its status
  decisions,   \* decisions[a]: the decision events emitted
  \* the auth provider
  account,     \* account[m]: "none", "live", "signedOut", "deleted"
  \* each call
  op, pc,      \* its command and next statement, "idle" between commands
  member,      \* the member it is about
  item,        \* the work item or approval it is about
  seen,        \* the work item it read
  found,       \* the identity it found
  effect,      \* the provider effect it scheduled: [kind, identity, tries]
  \* what happened to effects that were not carried out
  audited,     \* identities with an audited failure
  lost,        \* identities whose effect died with the process
  commands     \* commands started

memberRows == <<access, employment, person, identity>>
workRows == <<work, history, approval, decisions>>
local == <<op, pc, member, item, seen, found, effect>>
fates == <<audited, lost>>
vars == <<memberRows, workRows, account, local, fates, commands>>

NoEffect == [kind |-> "none", identity |-> Nobody, tries |-> 0]
NoWork == [status |-> "none", owner |-> Nobody, version |-> 0]

Invites == {"InviteMember", "RehireMember"}
AboutMember == {"ActivateMember", "SuspendMember", "TerminateMember", "RetryAuthProviderSync"}
Closings == {"CompleteWork", "CancelWorkItem"}
Decisions == {"Approve", "Reject"}
Ops == Invites \union AboutMember \union Closings \union Decisions
         \union {"CreateWorkItem", "ReassignWork", "RequestApproval"}
Statements == {"idle", "invite", "member", "identity", "list", "work", "owner", "approval",
               "commit", "sessions", "credentials", "effect", "audit"}

Present == {m \in Members : access[m] # "none"}
OpenWorkOf(m) == {w \in Works : work[w].status = "open" /\ work[w].owner = m}
IdentitiesOf(p, s) == {i \in Members : person[i] = p /\ identity[i] = s}

Init ==
  /\ access = [m \in Members |-> IF m \in Founders THEN "active" ELSE "none"]
  /\ employment = access
  /\ identity = access
  /\ account = [m \in Members |-> IF m \in Founders THEN "live" ELSE "none"]
  /\ person = [m \in Members |-> m]
  /\ work = [w \in Works |-> NoWork]
  /\ history = [w \in Works |-> <<>>]
  /\ approval = [a \in Approvals |-> "none"]
  /\ decisions = [a \in Approvals |-> <<>>]
  /\ op = [c \in Calls |-> "InviteMember"]
  /\ pc = [c \in Calls |-> "idle"]
  /\ member = [c \in Calls |-> Nobody]
  /\ item = [c \in Calls |-> Nobody]
  /\ seen = [c \in Calls |-> NoWork]
  /\ found = [c \in Calls |-> Nobody]
  /\ effect = [c \in Calls |-> NoEffect]
  /\ audited = {} /\ lost = {} /\ commands = 0

Goto(c, s) == pc' = [pc EXCEPT ![c] = s]

-----------------------------------------------------------------------------
(* A command arrives.  New rows get ids nobody else holds (createId).      *)

Begin(c, o, m, i, first) ==
  /\ pc[c] = "idle"
  /\ commands < MaxCommands
  /\ commands' = commands + 1
  /\ op' = [op EXCEPT ![c] = o]
  /\ member' = [member EXCEPT ![c] = m]
  /\ item' = [item EXCEPT ![c] = i]
  /\ effect' = [effect EXCEPT ![c] = NoEffect]
  /\ seen' = [seen EXCEPT ![c] = NoWork]
  /\ found' = [found EXCEPT ![c] = Nobody]
  /\ Goto(c, first)
  /\ UNCHANGED <<memberRows, workRows, account, fates>>

Fresh(m) == \A d \in Calls : pc[d] # "idle" /\ op[d] \in Invites => member[d] # m
Unclaimed(o, i) == \A d \in Calls : pc[d] # "idle" /\ op[d] = o => item[d] # i

StartInvite(c) == \E m \in Members \ Present :
  /\ account[m] = "none" /\ Fresh(m)
  /\ Begin(c, "InviteMember", m, m, "invite")

\* The person is given, whatever the state of its earlier memberships.
StartRehire(c) == \E m \in Members \ Present, p \in Present :
  /\ account[m] = "none" /\ Fresh(m)
  /\ Begin(c, "RehireMember", m, person[p], "invite")

StartOnMember(c) == \E o \in AboutMember, m \in Present : Begin(c, o, m, Nobody, "member")

StartCreate(c) == \E w \in Works, m \in Present :
  /\ work[w].status = "none" /\ Unclaimed("CreateWorkItem", w)
  /\ Begin(c, "CreateWorkItem", m, w, "owner")

StartOnWork(c) == \E w \in Works :
  /\ work[w].status # "none"
  /\ \/ \E m \in Present : Begin(c, "ReassignWork", m, w, "work")
     \/ \E o \in Closings : Begin(c, o, Nobody, w, "work")

StartRequest(c) == \E a \in Approvals, m \in Present :
  /\ approval[a] = "none" /\ Unclaimed("RequestApproval", a)
  /\ Begin(c, "RequestApproval", m, a, "owner")

StartDecide(c) == \E o \in Decisions, a \in Approvals :
  /\ approval[a] # "none"
  /\ Begin(c, o, Nobody, a, "approval")

-----------------------------------------------------------------------------
(* The statements before the first update.                                 *)

ReadsOnly(c) == UNCHANGED <<memberRows, workRows, op, member, item, effect, fates, commands>>

\* createInvite: the account exists whether or not the transaction commits.
CallInvite(c) ==
  /\ pc[c] = "invite"
  /\ account' = [account EXCEPT ![member[c]] = "live"]
  /\ Goto(c, "commit")
  /\ ReadsOnly(c) /\ UNCHANGED <<seen, found>>

\* The checks at the head of activateMember.
Activatable(m) ==
  /\ access[m] \in {"invited", "suspended"}
  /\ employment[m] # "terminated"

Syncable(m) == access[m] \in {"suspended", "revoked"}

AfterMember(c) == CASE op[c] = "ActivateMember" -> "identity"
                    [] op[c] = "TerminateMember" -> "list"
                    [] op[c] = "SuspendMember" -> "commit"
                    [] op[c] = "RetryAuthProviderSync" ->
                         IF access[member[c]] = "suspended" THEN "sessions" ELSE "credentials"

ReadMember(c) ==
  /\ pc[c] = "member"
  /\ op[c] = "ActivateMember" => Activatable(member[c])
  /\ op[c] = "RetryAuthProviderSync" => Syncable(member[c])
  /\ Goto(c, AfterMember(c))
  /\ ReadsOnly(c) /\ UNCHANGED <<account, seen, found>>

\* Plausible bug: work that is not open any more is found as well.
RequireAnyWork(c) ==
  /\ pc[c] = "work"
  /\ seen' = [seen EXCEPT ![c] = work[item[c]]]
  /\ Goto(c, IF op[c] = "ReassignWork" THEN "owner" ELSE "commit")
  /\ ReadsOnly(c) /\ UNCHANGED <<account, found>>

\* findFirst(p, s): some identity of the person with that status, if any.
FindFirst(p, s) == IF IdentitiesOf(p, s) = {} THEN {Nobody} ELSE IdentitiesOf(p, s)

FindInvited(c) ==
  /\ pc[c] = "identity"
  /\ \E i \in FindFirst(person[member[c]], "invited") : found' = [found EXCEPT ![c] = i]
  /\ Goto(c, "commit")
  /\ ReadsOnly(c) /\ UNCHANGED <<account, seen>>

ListOpenWork(c) ==
  /\ pc[c] = "list"
  /\ OpenWorkOf(member[c]) = {}
  /\ Goto(c, "commit")
  /\ ReadsOnly(c) /\ UNCHANGED <<account, seen, found>>

RequireOpenWork(c) ==
  /\ pc[c] = "work"
  /\ work[item[c]].status = "open"
  /\ seen' = [seen EXCEPT ![c] = work[item[c]]]
  /\ Goto(c, IF op[c] = "ReassignWork" THEN "owner" ELSE "commit")
  /\ ReadsOnly(c) /\ UNCHANGED <<account, found>>

\* The new owner, or the approver, has to be active.
ReadOwner(c) ==
  /\ pc[c] = "owner"
  /\ access[member[c]] = "active"
  /\ Goto(c, "commit")
  /\ ReadsOnly(c) /\ UNCHANGED <<account, seen, found>>

ReadApproval(c) ==
  /\ pc[c] = "approval"
  /\ approval[item[c]] = "pending"
  /\ Goto(c, "commit")
  /\ ReadsOnly(c) /\ UNCHANGED <<account, seen, found>>

-----------------------------------------------------------------------------
(* The updates and the commit.                                             *)

Schedule(c, kind, i) ==
  /\ effect' = [effect EXCEPT ![c] = [kind |-> IF i = Nobody THEN "none" ELSE kind, identity |-> i, tries |-> 0]]
  /\ Goto(c, IF i = Nobody THEN "idle" ELSE "effect")

NoSchedule(c) == Goto(c, "idle") /\ UNCHANGED effect

InsertMember(c) ==
  /\ op[c] \in Invites
  /\ access' = [access EXCEPT ![member[c]] = "invited"]
  /\ employment' = [employment EXCEPT ![member[c]] =
                      IF op[c] = "InviteMember" THEN "pending_start" ELSE "active"]
  /\ person' = [person EXCEPT ![member[c]] = item[c]]
  /\ identity' = [identity EXCEPT ![member[c]] = "invited"]
  /\ NoSchedule(c) /\ UNCHANGED workRows

\* Plausible bug: activation restores the access and leaves the employment.
ActivateAccessOnly(c) ==
  /\ op[c] = "ActivateMember"
  /\ access' = [access EXCEPT ![member[c]] = "active"]
  /\ identity' = IF found[c] = Nobody THEN identity ELSE [identity EXCEPT ![found[c]] = "active"]
  /\ NoSchedule(c) /\ UNCHANGED <<employment, person, workRows>>
\* updateMember and updateAuthIdentity, both by id, whatever the rows say by now.
Activate(c) ==
  /\ op[c] = "ActivateMember"
  /\ access' = [access EXCEPT ![member[c]] = "active"]
  /\ employment' = [employment EXCEPT ![member[c]] = "active"]
  /\ identity' = IF found[c] = Nobody THEN identity ELSE [identity EXCEPT ![found[c]] = "active"]
  /\ NoSchedule(c) /\ UNCHANGED <<person, workRows>>

Suspend(c) ==
  /\ op[c] = "SuspendMember"
  /\ access' = [access EXCEPT ![member[c]] = "suspended"]
  /\ \E i \in FindFirst(person[member[c]], "active") : Schedule(c, "revoke_sessions", i)
  /\ UNCHANGED <<employment, person, identity, workRows>>

Terminate(c) ==
  /\ op[c] = "TerminateMember"
  /\ access' = [access EXCEPT ![member[c]] = "revoked"]
  /\ employment' = [employment EXCEPT ![member[c]] = "terminated"]
  /\ \E i \in FindFirst(person[member[c]], "active") :
       /\ identity' = IF i = Nobody THEN identity ELSE [identity EXCEPT ![i] = "revoked"]
       /\ Schedule(c, "revoke_credentials", i)
  /\ UNCHANGED <<person, workRows>>

Row(s, m, v) == [status |-> s, owner |-> m, version |-> v]
RecordOwner(w, from, to) == history' = [history EXCEPT ![w] = Append(@, [from |-> from, to |-> to])]

CreateWorkItem(c) ==
  /\ op[c] = "CreateWorkItem"
  /\ work' = [work EXCEPT ![item[c]] = Row("open", member[c], 0)]
  /\ RecordOwner(item[c], Nobody, member[c])
  /\ NoSchedule(c) /\ UNCHANGED <<memberRows, approval, decisions>>

\* Plausible bug: the update of a work item does not ask for the version read.
VersionIgnored(c) == TRUE
\* updateWorkItem: where id and version, CONFLICT otherwise.
VersionHolds(c) == work[item[c]].version = seen[c].version

Reassign(c) ==
  /\ op[c] = "ReassignWork"
  /\ VersionHolds(c)
  /\ work' = [work EXCEPT ![item[c]].owner = member[c], ![item[c]].version = seen[c].version + 1]
  /\ RecordOwner(item[c], seen[c].owner, member[c])
  /\ NoSchedule(c) /\ UNCHANGED <<memberRows, approval, decisions>>

Close(c) ==
  /\ op[c] \in Closings
  /\ VersionHolds(c)
  /\ work' = [work EXCEPT
       ![item[c]].status = IF op[c] = "CompleteWork" THEN "completed" ELSE "cancelled",
       ![item[c]].version = seen[c].version + 1]
  /\ NoSchedule(c) /\ UNCHANGED <<memberRows, history, approval, decisions>>

RequestApproval(c) ==
  /\ op[c] = "RequestApproval"
  /\ approval' = [approval EXCEPT ![item[c]] = "pending"]
  /\ NoSchedule(c) /\ UNCHANGED <<memberRows, work, history, decisions>>

Decision(o) == IF o = "Approve" THEN "approved" ELSE "rejected"

\* Plausible bug: the update does not ask for a pending row.
StillThere(a) == approval[a] # "none"
\* decidePendingApprovalRequest: where status = 'pending', CONFLICT otherwise.
StillPending(a) == approval[a] = "pending"

Decide(c) ==
  /\ op[c] \in Decisions
  /\ StillPending(item[c])
  /\ approval' = [approval EXCEPT ![item[c]] = Decision(op[c])]
  /\ decisions' = [decisions EXCEPT ![item[c]] = Append(@, Decision(op[c]))]
  /\ NoSchedule(c) /\ UNCHANGED <<memberRows, work, history>>

Commit(c) ==
  /\ pc[c] = "commit"
  /\ \/ InsertMember(c) \/ Activate(c) \/ Suspend(c) \/ Terminate(c)
     \/ CreateWorkItem(c) \/ Reassign(c) \/ Close(c) \/ RequestApproval(c) \/ Decide(c)
  /\ UNCHANGED <<account, op, member, item, seen, found, fates, commands>>

-----------------------------------------------------------------------------
(* The auth provider.                                                      *)

\* revokeSessions and revokeCredentials; an account that is gone is no error.
Revoked(kind, i) ==
  [account EXCEPT ![i] = IF kind = "revoke_credentials" THEN "deleted"
                         ELSE IF @ = "live" THEN "signedOut" ELSE @]

\* RetryAuthProviderSync calls the provider inside its transaction, for the
\* status it read: the sessions of an active identity, or a revoked identity.
Sync(c) ==
  /\ \/ /\ pc[c] = "sessions"
        /\ \E i \in IdentitiesOf(person[member[c]], "active") : account' = Revoked("revoke_sessions", i)
     \/ /\ pc[c] = "credentials"
        /\ \E i \in IdentitiesOf(person[member[c]], "revoked") : account' = Revoked("revoke_credentials", i)
  /\ Goto(c, "idle")
  /\ ReadsOnly(c) /\ UNCHANGED <<seen, found>>

EffectDone(c) ==
  /\ pc[c] = "effect"
  /\ account' = Revoked(effect[c].kind, effect[c].identity)
  /\ Goto(c, "idle")
  /\ ReadsOnly(c) /\ UNCHANGED <<seen, found>>

\* Plausible bug: after the last attempt the call returns without the audit entry.
GiveUpSilently == "idle"
GiveUp == "audit"

\* runProviderSideEffectWithRetry; a failure may be an answer that was lost.
EffectFails(c) ==
  /\ pc[c] = "effect"
  /\ account' \in {account, Revoked(effect[c].kind, effect[c].identity)}
  /\ effect' = [effect EXCEPT ![c].tries = @ + 1]
  /\ Goto(c, IF effect[c].tries + 1 < Attempts THEN "effect" ELSE GiveUp)
  /\ UNCHANGED <<memberRows, workRows, op, member, item, seen, found, fates, commands>>

\* appendStandaloneAudit
Audit(c) ==
  /\ pc[c] = "audit"
  /\ audited' = audited \union {effect[c].identity}
  /\ Goto(c, "idle")
  /\ UNCHANGED <<memberRows, workRows, account, op, member, item, seen, found, effect, lost, commands>>

\* A refused check, a conflict, a provider error, a crash: rolled back.
Fail(c) ==
  /\ pc[c] \notin {"idle", "effect", "audit"}
  /\ Goto(c, "idle")
  /\ ReadsOnly(c) /\ UNCHANGED <<account, seen, found>>

\* The process dies after the commit and before the effect, or before its audit entry.
Crash(c) ==
  /\ pc[c] \in {"effect", "audit"}
  /\ lost' = lost \union {effect[c].identity}
  /\ Goto(c, "idle")
  /\ UNCHANGED <<memberRows, workRows, account, op, member, item, seen, found, effect, audited, commands>>

\* Someone signs in again at the provider, which knows nothing of access.
SignIn(m) ==
  /\ account[m] = "signedOut"
  /\ account' = [account EXCEPT ![m] = "live"]
  /\ UNCHANGED <<memberRows, workRows, local, fates, commands>>

Start(c) ==
  \/ StartInvite(c) \/ StartRehire(c) \/ StartOnMember(c)
  \/ StartCreate(c) \/ StartOnWork(c) \/ StartRequest(c) \/ StartDecide(c)
Read(c) ==
  \/ CallInvite(c) \/ ReadMember(c) \/ FindInvited(c) \/ ListOpenWork(c)
  \/ RequireOpenWork(c) \/ ReadOwner(c) \/ ReadApproval(c)
Provider(c) == Sync(c) \/ EffectDone(c) \/ EffectFails(c) \/ Audit(c) \/ Crash(c)

Next ==
  \/ \E c \in Calls : Start(c) \/ Read(c) \/ Commit(c) \/ Provider(c) \/ Fail(c)
  \/ \E m \in Members : SignIn(m)

Spec == Init /\ [][Next]_vars

-----------------------------------------------------------------------------
(* Properties.                                                             *)

AccessStatuses == {"none", "invited", "active", "suspended", "revoked"}
TypeOK ==
  /\ access \in [Members -> AccessStatuses]
  /\ employment \in [Members -> {"none", "pending_start", "active", "terminated"}]
  /\ person \in [Members -> Members]
  /\ identity \in [Members -> {"none", "invited", "active", "revoked"}]
  /\ work \in [Works -> [status : {"none", "open", "completed", "cancelled"},
                         owner : Members \union {Nobody}, version : Nat]]
  /\ history \in [Works -> Seq([from : Members \union {Nobody}, to : Members])]
  /\ approval \in [Approvals -> {"none", "pending", "approved", "rejected"}]
  /\ decisions \in [Approvals -> Seq({"approved", "rejected"})]
  /\ account \in [Members -> {"none", "live", "signedOut", "deleted"}]
  /\ op \in [Calls -> Ops] /\ pc \in [Calls -> Statements]
  /\ member \in [Calls -> Members \union {Nobody}]
  /\ item \in [Calls -> Members \union Works \union Approvals \union {Nobody}]
  /\ seen \in [Calls -> [status : {"none", "open"},
                         owner : Members \union {Nobody}, version : Nat]]
  /\ found \in [Calls -> Members \union {Nobody}]
  /\ effect \in [Calls -> [kind : {"none", "revoke_sessions", "revoke_credentials"},
                           identity : Members \union {Nobody}, tries : Nat]]
  /\ audited \subseteq Members /\ lost \subseteq Members
  /\ commands \in 0..MaxCommands

(* A work item is opened once, handed on only while open and from the      *)
(* hands it is in, closed once and never touched again; the ownership      *)
(* history tells exactly that.  Reassignments and closings that read the   *)
(* same row race on its version (updateWorkItem).                          *)
Lifecycle == INSTANCE WorkLifecycle WITH
  status <- [w \in Works |-> work[w].status],
  owner <- [w \in Works |-> work[w].owner],
  trail <- history
LifecycleSpec == Lifecycle!Spec

(* An approval is decided once, and the one decision event says what the   *)
(* row says, however many approvers and delegates found it pending.        *)
DecidedOnce == \A a \in Approvals :
  decisions[a] = IF approval[a] \in {"none", "pending"} THEN <<>> ELSE <<approval[a]>>

(* Whoever has access is employed, although activation, suspension and     *)
(* termination update the member by id and may overtake each other between *)
(* reading it and writing it.                                              *)
ActiveIsEmployed == \A m \in Members : access[m] = "active" => employment[m] = "active"

(* No revocation is forgotten without a trace: while a revoked identity    *)
(* still has a usable account, its effect is under way, its failure is     *)
(* audited, or the process that owed it died.                              *)
RevocationAccounted == \A i \in Members :
  identity[i] = "revoked" /\ account[i] # "deleted" =>
    \/ \E c \in Calls : /\ pc[c] \in {"effect", "audit"}
                        /\ effect[c].identity = i /\ effect[c].kind = "revoke_credentials"
    \/ i \in audited \union lost

(* What the launch plan says of TerminateMember: a terminated member is    *)
(* left with no open work.  The code lists the work and updates the member *)
(* in two statements.                                                      *)
TerminatedOwnsNothing == \A m \in Members :
  employment[m] = "terminated" => OpenWorkOf(m) = {}
=============================================================================
