------------------------------ MODULE Autosave ------------------------------
(***************************************************************************)
(* The autosave of a guided interview in the browser:                      *)
(* createSupabaseInterviewPersistence.  Saves are debounced, a flush       *)
(* writes what is pending, requests reach the server in any order, and an  *)
(* answer may be lost with or without its request.                         *)
(*                                                                         *)
(* JavaScript runs one callback at a time: what follows an awaited promise *)
(* runs in the step that settles it, in the order it was awaited.          *)
(* Interviews are numbered in the order they are saved, flushes in the     *)
(* order they begin to wait or to write; a promise is named by the flush   *)
(* whose write it is.  Number 0 is null.                                   *)
(***************************************************************************)
EXTENDS Naturals, Sequences, FiniteSetsExt

CONSTANTS MaxSaves, MaxLeaves  \* bounds on saves, and on flushes the timer did not start

ASSUME AutosaveAssumption == MaxSaves \in Nat /\ MaxLeaves \in Nat

VARIABLES
  saved,     \* interviews saved so far
  cleared,   \* the interview was completed and the autosave cleared
  pending,   \* the newest interview not yet confirmed as written
  saveTimer, \* the debounce timer is set
  inFlight,  \* the write a flush has to wait for
  flushes,   \* flushes[f]: [at, asked, on, writes]
  leaves,    \* flushes not started by the timer
  \* the server and the network
  wire,      \* requests on their way: [by, interview], by a flush or by clear
  stored,    \* the interview in the row of the workspace
  landed,    \* interviews that were stored
  failed     \* interviews whose write was answered with an error

client == <<saved, cleared, pending, saveTimer, inFlight, flushes, leaves>>
vars == <<client, wire, stored, landed, failed>>

Flushes == DOMAIN flushes
Writing == {f \in Flushes : flushes[f].at \in {"writing", "written"}}

Init ==
  /\ saved = 0 /\ pending = 0 /\ inFlight = 0 /\ leaves = 0
  /\ cleared = FALSE /\ saveTimer = FALSE
  /\ flushes = <<>>
  /\ wire = {} /\ stored = 0 /\ landed = {} /\ failed = {}

-----------------------------------------------------------------------------
(* The page.                                                               *)

\* Plausible bug: a save during a write is left to the flush that follows it.
ArmedWhenIdle == inFlight = 0 \/ saveTimer
\* setTimeout in save: the timer starts again with every save.
Armed == TRUE

\* A completed interview is not saved again.
Save ==
  /\ saved < MaxSaves /\ ~cleared
  /\ saved' = saved + 1
  /\ pending' = saved'
  /\ saveTimer' = Armed
  /\ UNCHANGED <<cleared, inFlight, flushes, leaves, wire, stored, landed, failed>>

Flush(at, on, writes) ==
  Append(flushes, [at |-> at, asked |-> pending, on |-> on, writes |-> writes])

\* flush waits for the write in flight, or writes what is pending, or has nothing to do.
BeginFlush ==
  LET f == Len(flushes) + 1 IN
  /\ saveTimer' = FALSE
  /\ \/ /\ inFlight # 0
        /\ flushes' = Flush("waiting", inFlight, 0)
        /\ UNCHANGED <<inFlight, wire>>
     \/ /\ inFlight = 0 /\ pending # 0
        /\ flushes' = Flush("writing", 0, pending)
        /\ inFlight' = f
        /\ wire' = wire \union {[by |-> f, interview |-> pending]}
     \/ /\ inFlight = 0 /\ pending = 0
        /\ UNCHANGED <<flushes, inFlight, wire>>
  /\ UNCHANGED <<saved, cleared, pending, stored, landed, failed>>

TimerFires == saveTimer /\ BeginFlush /\ UNCHANGED leaves
\* The page is hidden or left, the component unmounts, the user retries.
Leave ==
  /\ leaves < MaxLeaves
  /\ leaves' = leaves + 1
  /\ BeginFlush

\* clear does not wait for a write in flight.
Clear ==
  /\ saved > 0 /\ ~cleared
  /\ cleared' = TRUE
  /\ saveTimer' = FALSE
  /\ pending' = 0
  /\ wire' = wire \union {[by |-> 0, interview |-> 0]}
  /\ UNCHANGED <<saved, inFlight, flushes, leaves, stored, landed, failed>>

-----------------------------------------------------------------------------
(* The server, and the answer to a write.                                  *)

\* The upsert of the row of the workspace, or its deletion.
Store(m) ==
  /\ wire' = wire \ {m}
  /\ stored' = m.interview
  /\ landed' = landed \union {m.interview}
  /\ flushes' = [f \in Flushes |->
       IF f = m.by /\ flushes[f].at = "writing" THEN [flushes[f] EXCEPT !.at = "written"] ELSE flushes[f]]
  /\ UNCHANGED <<saved, cleared, pending, saveTimer, inFlight, leaves, failed>>

\* Plausible bug: a write that succeeded drops whatever is pending by now.
DropPending(f) == 0
\* Only drop the buffer if nothing newer arrived while in flight.
Unconfirmed(f) == IF pending = flushes[f].writes THEN 0 ELSE pending

Waiters(f) == {g \in Flushes : flushes[g].at = "waiting" /\ flushes[g].on = f}
\* Plausible bug: a flush that waited for a write takes it for its own.
NoneWrites(f, rest) == {}
\* The waiters that find something pending, each of which writes it.
NowWrite(f, rest) == IF rest = 0 THEN {} ELSE Waiters(f)

\* Plausible bug: the settled write is never forgotten.
StillInFlight(f, writers) == f
\* The flush whose write settled sets inFlight to null, whoever's write it is by
\* then; of the waiters the last to resume sets it last.
NextInFlight(f, writers) == IF writers = {} THEN 0 ELSE Max(writers)

\* The write of f settled and rest is still pending.
Settle(f, rest, requests) ==
  LET writers == NowWrite(f, rest) IN
  /\ pending' = rest
  /\ inFlight' = NextInFlight(f, writers)
  /\ flushes' = [g \in Flushes |->
       IF g \in writers THEN [flushes[g] EXCEPT !.at = "writing", !.on = 0, !.writes = rest]
       ELSE IF g = f \/ g \in Waiters(f) THEN [flushes[g] EXCEPT !.at = "returned", !.on = 0, !.writes = 0]
       ELSE flushes[g]]
  /\ wire' = requests \union {[by |-> g, interview |-> rest] : g \in writers}
  /\ UNCHANGED <<saved, cleared, saveTimer, leaves, stored, landed>>

Succeed(f) ==
  /\ f \in Flushes /\ flushes[f].at = "written"
  /\ Settle(f, Unconfirmed(f), wire)
  /\ UNCHANGED failed
\* An error, or no answer: the request was refused, was carried out, or still may be.
FailWrite(f) ==
  /\ f \in Writing
  /\ \E requests \in {wire, {m \in wire : m.by # f}} : Settle(f, pending, requests)
  /\ failed' = failed \union {flushes[f].writes}

MaxFlushes == MaxSaves + MaxLeaves
Next ==
  \/ Save \/ TimerFires \/ Leave \/ Clear
  \/ \E m \in wire : Store(m)
  \/ \E f \in 1..MaxFlushes : Succeed(f) \/ FailWrite(f)

\* The browser fires a timer that is not cleared, and every request ends.
Fairness ==
  /\ WF_vars(TimerFires)
  /\ \A f \in 1..MaxFlushes : WF_vars(Succeed(f) \/ FailWrite(f))
Spec == Init /\ [][Next]_vars /\ Fairness

-----------------------------------------------------------------------------
(* Properties.                                                             *)

\* inFlight is null or a write that has not settled, and flushes wait for such writes.
TypeOK ==
  /\ saved \in 0..MaxSaves /\ pending \in 0..saved
  /\ cleared \in BOOLEAN /\ saveTimer \in BOOLEAN
  /\ leaves \in 0..MaxLeaves /\ Len(flushes) <= MaxFlushes
  /\ \A f \in Flushes :
       /\ flushes[f] \in [at : {"waiting", "writing", "written", "returned"},
                          asked : 0..saved, on : 0..Len(flushes), writes : 0..saved]
       /\ flushes[f].at = "waiting" => flushes[f].on \in Writing
  /\ inFlight \in {0} \union Writing
  /\ wire \subseteq [by : 0..Len(flushes), interview : 0..saved]
  /\ stored \in 0..saved
  /\ landed \subseteq 0..saved /\ failed \subseteq 0..saved

(* A failed write leaves the answer in place instead of dropping it, and a *)
(* successful one what was saved meanwhile: until the interview is         *)
(* completed, the newest one is pending or was stored.                     *)
NothingDropped == saved > 0 /\ ~cleared => pending = saved \/ saved \in landed

(* "Write any debounced state immediately and wait for it to land": when a *)
(* flush returns, what was pending when it was called, or something newer, *)
(* was stored or its write failed visibly, also if the flush had to wait   *)
(* for the write of another.                                               *)
FlushLands ==
  \A f \in Flushes : flushes[f].at = "returned" /\ flushes[f].asked # 0 /\ ~cleared =>
    \E n \in landed \union failed : n >= flushes[f].asked

(* Every interview is written, whatever flushes and failures come between, *)
(* unless a newer one is saved or the interview is completed.              *)
EverySaveTried ==
  \A n \in 1..MaxSaves : saved = n ~> n \in landed \union failed \/ saved # n \/ cleared
=============================================================================
