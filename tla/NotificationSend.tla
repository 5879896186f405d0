-------------------------- MODULE NotificationSend --------------------------
(***************************************************************************)
(* The email stage of notification_worker: the consumer loop with the      *)
(* handler of services/send_service.py.  The handler claims the row of the *)
(* notification in one transaction, sends the email outside any            *)
(* transaction, writes that the server accepted it, and then writes the    *)
(* result.  Each of these steps can fail, can lose its answer, and can be  *)
(* the last one of the process.                                            *)
(*                                                                         *)
(* The claim's SELECT ... FOR UPDATE holds the row lock until COMMIT, so a *)
(* claim is one step; so is every other transaction and statement.         *)
(***************************************************************************)
EXTENDS ConsumerLoop

CONSTANTS
  Notifications, \* notification ids
  Malformed,     \* records that are not valid JSON or not a ReadyToSendMessage
  OtherChannel,  \* records of a channel other than email
  MaxRecords     \* bound: records published to the partition

ASSUME SendAssumption ==
  /\ Records = Notifications \cup Malformed \cup OtherChannel
  /\ Notifications \cap (Malformed \cup OtherChannel) = {}
  /\ Malformed \cap OtherChannel = {}
  /\ MaxRecords \in Nat
  /\ HandlerSteps = {"smtp", "confirm", "record", "recordFailed", "reject",
                     "flag", "flagLog"}

VARIABLES
  status,     \* notifications.status; "absent" and "deleted": no row
  claimedBy,  \* attempt_id of the latest 'sending' row of notification_history
  confirmed,  \* a 'sent_by_smtp' row exists in notification_history
  logStatus,  \* notification_log.status
  accepted,   \* how many emails the SMTP server has accepted
  cancelled   \* notifications of a campaign that a manager cancelled

rowVars  == <<status, claimedBy, confirmed, logStatus>>
sendVars == <<status, claimedBy, confirmed, logStatus, accepted, cancelled>>
vars     == <<loopVars, sendVars>>

Terminal == {"sent", "failed", "skipped"}
Statuses == {"absent", "pending", "sending", "deleted"} \cup Terminal
\* "upstream" is any status that notification_api or the render stage writes.
LogStatuses == {"absent", "upstream", "sent", "failed", "requires_manual_review"}

TypeOK ==
  /\ LoopTypeOK
  /\ status \in [Notifications -> Statuses]
  /\ claimedBy \in [Notifications -> Attempts \cup {NoAttempt}]
  /\ confirmed \in [Notifications -> BOOLEAN]
  /\ logStatus \in [Notifications -> LogStatuses]
  /\ accepted \in [Notifications -> Nat]
  /\ cancelled \subseteq Notifications

Init ==
  /\ LoopInit
  /\ status = [n \in Notifications |-> "absent"]
  /\ claimedBy = [n \in Notifications |-> NoAttempt]
  /\ confirmed = [n \in Notifications |-> FALSE]
  /\ logStatus = [n \in Notifications |-> "absent"]
  /\ accepted = [n \in Notifications |-> 0]
  /\ cancelled = {}

HasRow(n) == status[n] \notin {"absent", "deleted"}

\* update_notification_log_status: an UPDATE, which changes nothing as long as
\* notification_api has not inserted the row.
SetLog(n, s) == logStatus' = [logStatus EXCEPT ![n] = IF @ = "absent" THEN @ ELSE s]

\* A fresh uuid4: no task and no history row has it.
InUse == {attempt[w] : w \in Workers} \cup {claimedBy[n] : n \in Notifications}

BeginRecord(w) ==
  /\ \E a \in Attempts \ InUse : Begin(w, a)
  /\ UNCHANGED sendVars

-----------------------------------------------------------------------------
(* handle_message *)

\* Invalid JSON or schema: a row in the DLQ, then PermanentProcessingError.
RejectMalformed(w) ==
  /\ pc[w] = "handle" /\ InHand(w) \in Malformed
  /\ \E o \in DbOutcomes :
       /\ dlq' = IF o = "failed" THEN dlq ELSE dlq \cup {InHand(w)}
       /\ IF o = "done" THEN Advance(w, "commitSkip") ELSE Fail(w)
  /\ UNCHANGED <<kafkaVars, sendVars>>

\* A record of another channel waits for another sender.
PassOtherChannel(w) ==
  /\ pc[w] = "handle" /\ InHand(w) \in OtherChannel
  /\ Advance(w, "commit")
  /\ UNCHANGED <<kafkaVars, dlq, sendVars>>

VerdictTrustsStatus(n, a) == \* mutant: 'sending' is always one's own claim
  IF ~HasRow(n) THEN "rowMissing"
  ELSE IF status[n] \in Terminal THEN "settled"
  ELSE IF status[n] = "pending" THEN "unclaimed"
  ELSE IF confirmed[n] THEN "confirmed"
  ELSE "mine"

VerdictReopens(n, a) == \* mutant: a failed row is claimed again
  IF ~HasRow(n) THEN "rowMissing"
  ELSE IF status[n] \in {"sent", "skipped"} THEN "settled"
  ELSE IF status[n] \in {"pending", "failed"} THEN "unclaimed"
  ELSE IF confirmed[n] THEN "confirmed"
  ELSE IF claimedBy[n] = a THEN "mine"
  ELSE "foreign"

\* What a claim finds, in the order _claim_for_sending asks.
Verdict(n, a) ==
  IF ~HasRow(n) THEN "rowMissing"
  ELSE IF status[n] \in Terminal THEN "settled"
  ELSE IF status[n] = "pending" THEN "unclaimed"
  ELSE IF confirmed[n] THEN "confirmed"
  ELSE IF claimedBy[n] = a THEN "mine"
  ELSE "foreign"

AfterClaimFinalizes(v) == \* mutant: a crashed claim counts as delivered
  CASE v \in {"unclaimed", "mine"} -> "smtp"
    [] v \in {"confirmed", "foreign"} -> "record"
    [] OTHER -> "commit"

\* The step that follows: SKIP, SEND or FINALIZE_ONLY.
AfterClaim(v) ==
  CASE v \in {"unclaimed", "mine"} -> "smtp"
    [] v = "confirmed" -> "record"
    [] OTHER -> "commit"

ClaimWritesLogOnly(n, a, v) == \* mutant: no DLQ row for a foreign claim
  /\ dlq' = IF v = "rowMissing" THEN dlq \cup {n} ELSE dlq
  /\ IF v = "foreign" THEN SetLog(n, "requires_manual_review") ELSE UNCHANGED logStatus
  /\ status' = IF v = "unclaimed" THEN [status EXCEPT ![n] = "sending"] ELSE status
  /\ claimedBy' = IF v = "unclaimed" THEN [claimedBy EXCEPT ![n] = a] ELSE claimedBy
  /\ UNCHANGED confirmed

\* What the transaction of the claim leaves in the database.
ClaimWrites(n, a, v) ==
  /\ dlq' = IF v \in {"rowMissing", "foreign"} THEN dlq \cup {n} ELSE dlq
  /\ IF v = "foreign" THEN SetLog(n, "requires_manual_review") ELSE UNCHANGED logStatus
  /\ status' = IF v = "unclaimed" THEN [status EXCEPT ![n] = "sending"] ELSE status
  /\ claimedBy' = IF v = "unclaimed" THEN [claimedBy EXCEPT ![n] = a] ELSE claimedBy
  /\ UNCHANGED confirmed

Claim(w) ==
  /\ pc[w] = "handle" /\ InHand(w) \in Notifications
  /\ LET n == InHand(w)
         v == Verdict(n, attempt[w])
     IN  \E o \in DbOutcomes :
           /\ IF o = "failed" THEN UNCHANGED <<rowVars, dlq>>
                              ELSE ClaimWrites(n, attempt[w], v)
           /\ IF o = "done" THEN Advance(w, AfterClaim(v)) ELSE Fail(w)
  /\ UNCHANGED <<kafkaVars, accepted, cancelled>>

\* send_email: accepted; refused before the server took the email (4xx, no
\* connection); refused for good (5xx, bad recipient); or the connection broke
\* in the middle, and the server may or may not have taken it.
SendEmail(w) ==
  /\ pc[w] = "smtp"
  /\ LET take == [accepted EXCEPT ![InHand(w)] = @ + 1]
     IN  \/ accepted' = take /\ Advance(w, "confirm")
         \/ accepted' = accepted /\ Fail(w)
         \/ accepted' = accepted /\ Advance(w, "recordFailed")
         \/ accepted' \in {accepted, take} /\ Advance(w, "flag")
  /\ UNCHANGED <<kafkaVars, dlq, rowVars, cancelled>>

ConfirmRetried(w) == \* mutant: a failed confirmation is a transient error
  /\ pc[w] = "confirm"
  /\ \E o \in IF HasRow(InHand(w)) THEN DbOutcomes ELSE {"failed"} :
       /\ confirmed' = IF o = "failed" THEN confirmed
                       ELSE [confirmed EXCEPT ![InHand(w)] = TRUE]
       /\ IF o = "done" THEN Advance(w, "record") ELSE Fail(w)
  /\ UNCHANGED <<kafkaVars, dlq, status, claimedBy, logStatus, accepted, cancelled>>

\* mark_sent_by_smtp: the history row needs its notification (foreign key).
\* No answer, whatever the cause, means a manual review and never a retry.
Confirm(w) ==
  /\ pc[w] = "confirm"
  /\ \E o \in IF HasRow(InHand(w)) THEN DbOutcomes ELSE {"failed"} :
       /\ confirmed' = IF o = "failed" THEN confirmed
                       ELSE [confirmed EXCEPT ![InHand(w)] = TRUE]
       /\ Advance(w, IF o = "done" THEN "record" ELSE "flag")
  /\ UNCHANGED <<kafkaVars, dlq, status, claimedBy, logStatus, accepted, cancelled>>

RecordResultUntied(w, result, next) == \* mutant: no transaction around the writes
  /\ \E o \in IF HasRow(InHand(w)) THEN DbOutcomes ELSE {"failed"} :
       /\ status' = IF o = "done" THEN [status EXCEPT ![InHand(w)] = result] ELSE status
       /\ IF o = "failed" THEN UNCHANGED logStatus ELSE SetLog(InHand(w), result)
       /\ IF o = "done" THEN Advance(w, next) ELSE Fail(w)
  /\ UNCHANGED <<kafkaVars, dlq, claimedBy, confirmed, accepted, cancelled>>

\* _record_result: status, history and log in one transaction. It writes the
\* status over whatever is there.
RecordResult(w, result, next) ==
  /\ \E o \in IF HasRow(InHand(w)) THEN DbOutcomes ELSE {"failed"} :
       /\ IF o = "failed" THEN UNCHANGED <<status, logStatus>>
          ELSE /\ status' = [status EXCEPT ![InHand(w)] = result]
               /\ SetLog(InHand(w), result)
       /\ IF o = "done" THEN Advance(w, next) ELSE Fail(w)
  /\ UNCHANGED <<kafkaVars, dlq, claimedBy, confirmed, accepted, cancelled>>

RecordSent(w) == pc[w] = "record" /\ RecordResult(w, "sent", "commit")

RecordFailed(w) == pc[w] = "recordFailed" /\ RecordResult(w, "failed", "reject")

\* The permanent refusal also goes to the DLQ, after the result.
RejectRefused(w) ==
  /\ pc[w] = "reject"
  /\ \E o \in DbOutcomes :
       /\ dlq' = IF o = "failed" THEN dlq ELSE dlq \cup {InHand(w)}
       /\ IF o = "done" THEN Advance(w, "commitSkip") ELSE Fail(w)
  /\ UNCHANGED <<kafkaVars, sendVars>>

\* _flag_for_manual_review: two statements, each committed by itself; a failure
\* of either is DlqUnavailableError, and the process dies.
FlagDlq(w) ==
  /\ pc[w] = "flag"
  /\ \E o \in DbOutcomes :
       /\ dlq' = IF o = "failed" THEN dlq ELSE dlq \cup {InHand(w)}
       /\ IF o = "done" THEN Advance(w, "flagLog") ELSE Exit(w)
  /\ UNCHANGED <<kafkaVars, sendVars>>

FlagLog(w) ==
  /\ pc[w] = "flagLog"
  /\ \E o \in DbOutcomes :
       /\ IF o = "failed" THEN UNCHANGED logStatus
                          ELSE SetLog(InHand(w), "requires_manual_review")
       /\ IF o = "done" THEN Advance(w, "commitSkip") ELSE Exit(w)
  /\ UNCHANGED <<kafkaVars, dlq, status, claimedBy, confirmed, accepted, cancelled>>

-----------------------------------------------------------------------------
(* The rest of the system, as far as this stage can see it. *)

\* The render stage has committed the row ('pending', or 'skipped' by another
\* render process) and publishes; it may publish the same notification again
\* (_resume_pending).
Publish(r) ==
  /\ Len(log) < MaxRecords
  /\ Append1(r)
  /\ IF r \in Notifications /\ status[r] = "absent"
       THEN \E s \in {"pending", "skipped"} : status' = [status EXCEPT ![r] = s]
       ELSE UNCHANGED status
  /\ UNCHANGED <<claimedBy, confirmed, logStatus, accepted, cancelled>>

\* A manager cancels the campaign: its pending and sending rows become failed.
CancelCampaign(n) ==
  /\ n \notin cancelled \/ status[n] \in {"pending", "sending"}
  /\ cancelled' = cancelled \cup {n}
  /\ status' = IF status[n] \in {"pending", "sending"}
                 THEN [status EXCEPT ![n] = "failed"] ELSE status
  /\ UNCHANGED <<loopVars, claimedBy, confirmed, logStatus, accepted>>

\* A row is deleted in the Django admin; its history goes with it.
DeleteRow(n) ==
  /\ HasRow(n)
  /\ status' = [status EXCEPT ![n] = "deleted"]
  /\ UNCHANGED <<loopVars, claimedBy, confirmed, logStatus, accepted, cancelled>>

\* notification_api inserts the row of the log after it has published the
\* request, and a render process may write its own status at any later time.
WriteLog(n) ==
  /\ logStatus' = [logStatus EXCEPT ![n] = "upstream"]
  /\ UNCHANGED <<loopVars, status, claimedBy, confirmed, accepted, cancelled>>

-----------------------------------------------------------------------------
Loop(w) ==
  \/ GetMany(w) /\ UNCHANGED sendVars
  \/ BeginRecord(w)
  \/ Resume(w) /\ UNCHANGED sendVars
  \/ GiveUp(w) /\ UNCHANGED sendVars
  \/ TryAgain(w) /\ UNCHANGED sendVars
  \/ DeadlineExpires(w) /\ UNCHANGED sendVars
  \/ Commit(w) /\ UNCHANGED sendVars
  \/ CommitSkip(w) /\ UNCHANGED sendVars
  \/ Crash(w) /\ UNCHANGED sendVars
  \/ Rebalance(w) /\ UNCHANGED sendVars

Handle(w) ==
  \/ RejectMalformed(w) \/ PassOtherChannel(w) \/ Claim(w) \/ SendEmail(w)
  \/ Confirm(w) \/ RecordSent(w) \/ RecordFailed(w) \/ RejectRefused(w)
  \/ FlagDlq(w) \/ FlagLog(w)

Environment ==
  \/ \E r \in Records : Publish(r)
  \/ \E n \in Notifications : CancelCampaign(n) \/ DeleteRow(n) \/ WriteLog(n)

Next == (\E w \in Workers : Loop(w) \/ Handle(w)) \/ Environment

Spec == Init /\ [][Next]_vars

-----------------------------------------------------------------------------
(* Liveness: what the docker restarts, the retries and the end of an outage *)
(* are worth.                                                               *)

\* A step of the process itself; every await in it is bounded by a timeout.
Progress(w) ==
  \/ (GetMany(w) \/ Resume(w) \/ GiveUp(w) \/ TryAgain(w) \/ Commit(w) \/ CommitSkip(w))
       /\ UNCHANGED sendVars
  \/ BeginRecord(w)
  \/ Handle(w)

\* A call to Postgres or Kafka that fails although it could have succeeded.
CallFails(w) ==
  /\ pc[w] \notin {"idle", "smtp", "pausing", "holding"}
  /\ pc[w] \in {"record", "recordFailed"} => HasRow(InHand(w))
  /\ pc[w] \in {"commit", "commitSkip"} => owner = w
  /\ pc'[w] # pc[w] \/ tries'[w] # tries[w]
  /\ pc'[w] \in {"handle", "pausing", "giveUp", "holding"} \/ pos'[w] = 0

Outage == \E w \in Workers : Crash(w) \/ Rebalance(w) \/ CallFails(w)

\* Every process goes on, and outages of Postgres and Kafka, crashes and
\* rebalances stop at some point. The SMTP server need never recover.
FairSpec ==
  /\ Spec
  /\ \A w \in Workers : WF_vars(Progress(w))
  /\ <>[][~Outage]_vars

\* Every record published to the partition is let go in the end: a record that
\* cannot be processed does not block the partition for ever.
EverySettles == \A i \in 1..MaxRecords : Len(log) >= i ~> committed >= i

-----------------------------------------------------------------------------
(* Safety. *)

\* The outcome of a record, or the cause of its failure, is saved. (When the
\* row was deleted there is nothing left to be lost.)
Recorded(r) ==
  \/ r \in dlq \cup OtherChannel
  \/ r \in Notifications /\ status[r] \in Terminal \cup {"deleted"}

\* No user gets the same notification twice: whatever is retried, redelivered,
\* published again, handed to another process or cut off by a crash, the SMTP
\* server accepts at most one email per notification_id.
NoDuplicateEmail == \A n \in Notifications : accepted[n] <= 1

\* _process_with_retry returns only when the outcome or the cause is saved: a
\* record behind the committed offset is never one that nobody knows about.
CommittedIsRecorded == \A i \in 1..committed : Recorded(log[i])

\* Two processes never talk to the SMTP server about the same notification at
\* once, not even the old and the new owner of the partition.
OneSender ==
  \A v, w \in Workers :
    (pc[v] = "smtp" /\ pc[w] = "smtp" /\ InHand(v) = InHand(w)) => v = w

\* 'sent' is never claimed for an email the server did not accept, in the
\* notification's row or in the log, although a process other than the one
\* that sent the email may be the one to write it.
SentWasAccepted ==
  \A n \in Notifications :
    (status[n] = "sent" \/ confirmed[n] \/ logStatus[n] = "sent") => accepted[n] >= 1

\* A delivered email leaves a trace before its record is let go: the row says
\* 'sent', or the DLQ has it, unless a manager cancelled the campaign.
DeliveredIsTraced ==
  \A i \in 1..committed :
    LET n == log[i]
    IN  (n \in Notifications /\ accepted[n] >= 1) =>
          status[n] \in {"sent", "deleted"} \/ n \in dlq \/ n \in cancelled

\* A confirmed acceptance is a fact about the delivery, whoever left it: what
\* remains is to write the result. Cancelling the campaign before that makes
\* the claim take the row for settled, and the email stays 'failed' for good.
ConfirmedIsFinalized ==
  \A i \in 1..committed :
    LET n == log[i]
    IN  (n \in Notifications /\ confirmed[n]) =>
          status[n] \in {"sent", "deleted"} \/ n \in dlq

\* A partition stays paused only while a record is in hand: otherwise getmany
\* would return nothing and the partition would stop for good.
PausedOnlyInHand == \A w \in Workers : paused[w] => Busy(w)

\* What this stage says of a result in the log is what the row says, although
\* the log has other writers and the row may be deleted. (The converse needs
\* the log's row to be there, and nobody to write it after this stage.)
LogAgrees ==
  \A n \in Notifications :
    logStatus[n] \in {"sent", "failed"} => status[n] \in {logStatus[n], "deleted"}

\* A row never goes back: once claimed it is never claimable again, 'sent' and
\* 'skipped' are final, and 'failed' is overwritten by 'sent' only for an
\* email the server did accept.
RowsMoveForward ==
  [][\A n \in Notifications : status'[n] # status[n] =>
       CASE status[n] = "absent" -> status'[n] \in {"pending", "skipped"}
         [] status[n] = "pending" -> status'[n] \in {"sending", "failed", "deleted"}
         [] status[n] = "sending" -> status'[n] \in Terminal \cup {"deleted"}
         [] status[n] = "failed" -> \/ status'[n] = "deleted"
                                    \/ status'[n] = "sent" /\ accepted[n] >= 1
         [] OTHER -> status'[n] = "deleted"]_vars

\* The stage implements the queue that delivers a record at most once and
\* settles closed prefixes only: a record is closed when it is Recorded.
Queue == INSTANCE MailQueue WITH
  Closed0 <- OtherChannel,
  queue   <- log,
  closed  <- {r \in Records : Recorded(r)},
  emails  <- [r \in Records |-> IF r \in Notifications THEN accepted[r] ELSE 0],
  settled <- committed

ImplementsMailQueue == Queue!Spec
=============================================================================
