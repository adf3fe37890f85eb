--------------------------- MODULE WorkLifecycle ---------------------------
(***************************************************************************)
(* What work items promise, with no rows, versions or transactions: an     *)
(* item is opened for somebody, handed on by whoever has it, closed once,  *)
(* and the trail of hands is the true story of its owners.                 *)
(***************************************************************************)
EXTENDS Sequences

CONSTANTS Works, Members, Nobody

VARIABLES
  status,  \* status[w]: "none", "open", "completed", "cancelled"
  owner,   \* owner[w]
  trail    \* trail[w]: the hands it went through, as [from, to]

vars == <<status, owner, trail>>

Init ==
  /\ status = [w \in Works |-> "none"]
  /\ owner = [w \in Works |-> Nobody]
  /\ trail = [w \in Works |-> <<>>]

Hand(w, m) ==
  /\ owner' = [owner EXCEPT ![w] = m]
  /\ trail' = [trail EXCEPT ![w] = Append(@, [from |-> owner[w], to |-> m])]

Open(w, m) ==
  /\ status[w] = "none"
  /\ status' = [status EXCEPT ![w] = "open"]
  /\ Hand(w, m)

HandOn(w, m) ==
  /\ status[w] = "open"
  /\ Hand(w, m)
  /\ UNCHANGED status

Close(w, s) ==
  /\ status[w] = "open"
  /\ status' = [status EXCEPT ![w] = s]
  /\ UNCHANGED <<owner, trail>>

Next == \E w \in Works :
  \/ \E m \in Members : Open(w, m) \/ HandOn(w, m)
  \/ \E s \in {"completed", "cancelled"} : Close(w, s)

Spec == Init /\ [][Next]_vars
=============================================================================
