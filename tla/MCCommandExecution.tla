------------------------- MODULE MCCommandExecution -------------------------
(***************************************************************************)
(* Three requests.  Requests and keys are interchangeable, so of the       *)
(* initial states that differ by renaming them one is enough: the requests *)
(* are in order of what they are, and k2 comes after k1.  Either all are   *)
(* calls of one service, with handlers that emit 0, 1 or 2 events, or r3   *)
(* is one of another service and every handler emits one event.            *)
(***************************************************************************)
EXTENDS CommandExecution

CONSTANTS r1, r2, r3, k1, k2, s1, s2

KeyRank(r) == IF key[r] = NoKey THEN 0 ELSE IF key[r] = k1 THEN 1 ELSE 2
Rank(r) == 3 * KeyRank(r) + wants[r]

OneService == service = [r \in Requests |-> s1] /\ Rank(r2) <= Rank(r3)
TwoServices ==
  service = [r \in Requests |-> IF r = r3 THEN s2 ELSE s1] /\ wants = [r \in Requests |-> 1]

MCInit ==
  /\ Init
  /\ OneService \/ TwoServices
  /\ Rank(r1) <= Rank(r2)
  /\ (\E r \in Requests : key[r] = k2) => \E r \in Requests : key[r] = k1

MCSpec == MCInit /\ [][Next]_vars /\ Fairness
=============================================================================
