----------------------------- MODULE MCEmailWorker -----------------------------
(***************************************************************************)
(* The email stage and the SMTP pool under it on a small instance for TLC. *)
(* The stage takes of a connection that the email was accepted, refused or *)
(* neither, and the pool of the stage that a task asks and releases, so    *)
(* that a behaviour is about one of them.                                  *)
(***************************************************************************)
EXTENDS NotificationSend, SmtpPool

VARIABLE about \* which of the two

workerVars == <<about, vars, poolVars>>

WorkerInit == about \in {"stage", "pool"} /\ Init /\ PoolInit

Stage == about = "stage" /\ Next /\ UNCHANGED poolVars
Pool  == about = "pool" /\ PoolNext /\ UNCHANGED vars

\* What FairSpec and FairPoolSpec ask for, each of the part it is about.
WorkerSpec ==
  /\ WorkerInit /\ [][(Stage \/ Pool) /\ UNCHANGED about]_workerVars
  /\ \A w \in Workers : WF_vars(about = "stage" /\ Progress(w))
  /\ <>[][about = "stage" => ~Outage]_vars
  /\ \A t \in Tasks : /\ WF_poolVars(about = "pool" /\ Resolves(t))
                      /\ SF_poolVars(about = "pool" /\ DiscardLocked(t))
=============================================================================
