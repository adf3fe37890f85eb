-------------------------- MODULE OutboxLifecycle --------------------------
(***************************************************************************)
(* What the outbox promises about one row, with the workers, leases and    *)
(* consumers left out: a row appended by a command is pending until it is  *)
(* settled once, as published or as a dead letter.  Published is final; a  *)
(* dead letter is put back to pending by an administrator and by nobody    *)
(* else (OutboxRecoveryService).                                           *)
(***************************************************************************)
EXTENDS Naturals

CONSTANT Msgs       \* rows of os_outbox_messages

VARIABLE status     \* the status column; "none": not appended yet

Init == status = [m \in Msgs |-> "none"]

Move(m, from, to) == /\ status[m] = from
                     /\ status' = [status EXCEPT ![m] = to]

Append(m)     == Move(m, "none", "pending")
Publish(m)    == Move(m, "pending", "published")
DeadLetter(m) == Move(m, "pending", "dead_letter")
Requeue(m)    == Move(m, "dead_letter", "pending")

Next == \E m \in Msgs : Append(m) \/ Publish(m) \/ DeadLetter(m) \/ Requeue(m)

Spec == Init /\ [][Next]_status
=============================================================================
