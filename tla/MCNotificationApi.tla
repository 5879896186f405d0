-------------------------- MODULE MCNotificationApi --------------------------
(***************************************************************************)
(* NotificationApi on a small instance for TLC.                            *)
(***************************************************************************)
EXTENDS NotificationApi, TLC

CONSTANTS s1, s2, u1, u2

\* The first user has two tabs, the second is offline.
Tabs == s1 :> u1 @@ s2 :> u1

\* Texts and processes are interchangeable, and so are tabs and calls.
Symmetry ==
  Permutations(Texts) \cup Permutations(Workers) \cup Permutations(Sockets) \cup Permutations(Calls)
=============================================================================
