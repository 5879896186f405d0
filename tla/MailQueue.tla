------------------------------ MODULE MailQueue ------------------------------
(***************************************************************************)
(* What the email stage promises to the rest of the system, with no        *)
(* process, attempt or database in it: records are submitted in order, at  *)
(* most one email is ever delivered for a record, a record is closed when  *)
(* its outcome or the cause of its failure is saved, and only a prefix of  *)
(* closed records is ever settled.                                         *)
(***************************************************************************)
EXTENDS Naturals, Sequences

CONSTANTS Records, \* what can be submitted
          Closed0  \* the records that need no outcome

VARIABLES queue,   \* the records in the order of their submission
          closed,  \* the records whose outcome is saved
          emails,  \* how many emails were delivered for a record
          settled  \* records 1..settled will not be offered again

vars == <<queue, closed, emails, settled>>

Init == queue = <<>> /\ closed = Closed0 /\ emails = [r \in Records |-> 0] /\ settled = 0

\* A record is submitted; it may be closed from the start.
Submit(r) ==
  /\ queue' = Append(queue, r)
  /\ closed' \in {closed, closed \cup {r}}
  /\ UNCHANGED <<emails, settled>>

Deliver(r) ==
  /\ emails[r] = 0
  /\ emails' = [emails EXCEPT ![r] = 1]
  /\ UNCHANGED <<queue, closed, settled>>

Close(r) ==
  /\ closed' = closed \cup {r}
  /\ UNCHANGED <<queue, emails, settled>>

\* The offset moves within the closed prefix, backwards too: a record may be
\* offered again after its outcome is saved.
Settle(k) ==
  /\ \A i \in 1..k : queue[i] \in closed
  /\ settled' = k
  /\ UNCHANGED <<queue, closed, emails>>

Next ==
  \/ \E r \in Records : Submit(r) \/ Deliver(r) \/ Close(r)
  \/ \E k \in 1..Len(queue) : Settle(k)

Spec == Init /\ [][Next]_vars
=============================================================================
