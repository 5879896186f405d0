------------------------- MODULE MCNotificationSend -------------------------
(***************************************************************************)
(* NotificationSend on a small instance for TLC: a log of one record and   *)
(* its duplicate, whatever the record is.                                  *)
(***************************************************************************)
EXTENDS NotificationSend, TLC

PublishAgain(r) == Publish(r) /\ \A o \in DOMAIN log : log[o] = r

MCNext ==
  \/ \E w \in Workers : Loop(w) \/ Handle(w)
  \/ \E r \in Records : PublishAgain(r)
  \/ \E n \in Notifications : CancelCampaign(n) \/ DeleteRow(n) \/ WriteLog(n)

MCSpec == Init /\ [][MCNext]_vars

Symmetry == Permutations(Attempts) \cup Permutations(Workers)
=============================================================================
