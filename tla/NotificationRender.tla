-------------------------- MODULE NotificationRender --------------------------
(***************************************************************************)
(* The render stage of notification_worker and the API that feeds it: the  *)
(* consumer loop with the handler of services/render_service.py, and       *)
(* notification_api, which publishes a request to Kafka first and writes   *)
(* its row of notification_log afterwards.                                 *)
(*                                                                         *)
(* The stage saves the rendered text in one transaction and publishes it   *)
(* in another step, so a process can die between the two; the next one     *)
(* finds the row 'pending' and publishes what was saved (_resume_pending). *)
(* A profile or a template can change between any two reads of it (the     *)
(* template is cached as well), so each read may give any answer.          *)
(***************************************************************************)
EXTENDS ConsumerLoop

CONSTANTS
  Notifications, \* notification ids: requests with their channel and template
  Malformed,     \* records that are not valid JSON or not a NotificationKafkaMessage
  OtherChannel,  \* the notifications of a channel other than email
  Texts,         \* what a template can be rendered to
  NoDraft,       \* no text in hand, no text saved
  MaxRequests    \* bound: records published to the partition

ASSUME RenderAssumption ==
  /\ Records = Notifications \cup Malformed
  /\ Notifications \cap Malformed = {}
  /\ OtherChannel \subseteq Notifications
  /\ NoDraft \notin Texts
  /\ MaxRequests \in Nat
  /\ HandlerSteps = {"resume", "profile", "template", "save", "skip", "publish",
                     "reject", "rejectLog"}

VARIABLES
  row,       \* notifications.status; "settled": any status of the email stage
  saved,     \* the text of the row's notification_contents
  logStatus, \* notification_log.status
  ready,     \* the texts published to notifications.ready.v1
  draft,     \* the text each process is about to save or publish
  unlogged,  \* log rows that notification_api has yet to write
  rivals     \* notifications whose INSERT met the row of another process

renderVars == <<row, saved, logStatus, ready, draft, unlogged, rivals>>
storeVars  == <<row, saved, logStatus, ready, rivals>>
vars       == <<loopVars, renderVars>>

\* "api": kafka_published or kafka_publish_failed.
WorkerStatuses == {"queued_for_send", "render_failed", "skipped", "result"}

TypeOK ==
  /\ LoopTypeOK
  /\ row \in [Notifications -> {"absent", "pending", "skipped", "settled"}]
  /\ saved \in [Notifications -> Texts \cup {NoDraft}]
  /\ logStatus \in [Notifications -> {"absent", "api"} \cup WorkerStatuses]
  /\ ready \in [Notifications -> SUBSET Texts]
  /\ draft \in [Workers -> Texts \cup {NoDraft}]
  /\ unlogged \subseteq Notifications
  /\ rivals \subseteq Notifications

Init ==
  /\ LoopInit
  /\ row = [n \in Notifications |-> "absent"]
  /\ saved = [n \in Notifications |-> NoDraft]
  /\ logStatus = [n \in Notifications |-> "absent"]
  /\ ready = [n \in Notifications |-> {}]
  /\ draft = [w \in Workers |-> NoDraft]
  /\ unlogged = {}
  /\ rivals = {}

\* The text in hand is local to the handler's call.
Take(w, text) == draft' = [draft EXCEPT ![w] = text]
Forget(w) == Take(w, NoDraft)

\* update_notification_log_status: an UPDATE, which changes nothing as long as
\* notification_api has not inserted the row.
SetLog(n, s) == logStatus' = [logStatus EXCEPT ![n] = IF @ = "absent" THEN @ ELSE s]

-----------------------------------------------------------------------------
(* handle_message *)

\* Invalid JSON or schema: a row in the DLQ, then PermanentProcessingError.
RejectMalformed(w) ==
  /\ pc[w] = "handle" /\ InHand(w) \in Malformed
  /\ \E o \in DbOutcomes :
       /\ dlq' = IF o = "failed" THEN dlq ELSE dlq \cup {InHand(w)}
       /\ IF o = "done" THEN Advance(w, "commitSkip") ELSE Fail(w)
  /\ UNCHANGED <<kafkaVars, renderVars>>

ReadStatusPendingDone(w) == \* mutant: a 'pending' row counts as processed
  /\ pc[w] = "handle" /\ InHand(w) \in Notifications
  /\ \/ row[InHand(w)] # "absent" /\ Advance(w, "commit")
     \/ row[InHand(w)] = "absent" /\ Advance(w, "profile")
     \/ Fail(w)
  /\ UNCHANGED <<kafkaVars, dlq, renderVars>>

\* The row tells what an earlier call has done: nothing, all but perhaps the
\* publication, or everything there is to do here.
ReadStatus(w) ==
  /\ pc[w] = "handle" /\ InHand(w) \in Notifications
  /\ \/ row[InHand(w)] = "pending" /\ Advance(w, "resume")
     \/ row[InHand(w)] = "absent" /\ Advance(w, "profile")
     \/ row[InHand(w)] \notin {"pending", "absent"} /\ Advance(w, "commit")
     \/ Fail(w)
  /\ UNCHANGED <<kafkaVars, dlq, renderVars>>

\* get_user_profile: 200 with is_active, 404, or any other answer or none.
ProfileAnswers == {"active", "inactive", "unknown", "unavailable"}

ResumeRendersAgain(w) == \* mutant: the resumed text is a new one
  /\ pc[w] = "resume"
  /\ \/ \E t \in Texts : Take(w, t) /\ Advance(w, "publish")
     \/ Forget(w) /\ (Advance(w, "reject") \/ Fail(w))
  /\ UNCHANGED <<kafkaVars, dlq, storeVars, unlogged>>

\* _resume_pending: the saved text, with the address of the profile as it is
\* now. The profile's is_active is not looked at.
ResumePending(w) ==
  /\ pc[w] = "resume"
  /\ \E answer \in ProfileAnswers :
       \/ /\ answer \in {"active", "inactive"}
          /\ Take(w, saved[InHand(w)]) /\ Advance(w, "publish")
       \/ answer = "unknown" /\ Forget(w) /\ Advance(w, "reject")
       \/ answer = "unavailable" /\ Forget(w) /\ Fail(w)
  /\ UNCHANGED <<kafkaVars, dlq, storeVars, unlogged>>

\* An unknown user is a permanent error; an inactive one, or a channel nobody
\* serves, is a decision not to send.
Profile(w) ==
  /\ pc[w] = "profile"
  /\ \E answer \in ProfileAnswers :
       \/ answer = "unavailable" /\ Fail(w)
       \/ answer = "unknown" /\ Advance(w, "reject")
       \/ /\ answer \in {"active", "inactive"}
          /\ Advance(w, IF answer = "active" /\ InHand(w) \notin OtherChannel
                         THEN "template" ELSE "skip")
  /\ UNCHANGED <<kafkaVars, dlq, renderVars>>

\* get_template and render: a text of the template as it is now, or as it is
\* cached; none of a template that is missing, inactive or broken.
Rendered == Texts \cup {NoDraft}

\* No text is a permanent error; and the database may fail.
Render(w) ==
  /\ pc[w] = "template"
  /\ \E text \in Rendered :
       /\ Take(w, text)
       /\ \/ text # NoDraft /\ Advance(w, "save")
          \/ text = NoDraft /\ (Advance(w, "reject") \/ Fail(w))
  /\ UNCHANGED <<kafkaVars, dlq, storeVars, unlogged>>

\* insert_content_and_notification: ON CONFLICT DO NOTHING, so the row another
\* process has inserted stays, with its own content.
Insert(n, s, text) ==
  /\ row' = IF row[n] = "absent" THEN [row EXCEPT ![n] = s] ELSE row
  /\ saved' = IF row[n] = "absent" THEN [saved EXCEPT ![n] = text] ELSE saved
  /\ rivals' = IF row[n] = "absent" THEN rivals ELSE rivals \cup {n}

\* The row and the log in one transaction.
Store(w, s, text, logged, next) ==
  /\ \E o \in DbOutcomes :
       /\ IF o = "failed" THEN UNCHANGED <<row, saved, logStatus, rivals>>
          ELSE Insert(InHand(w), s, text) /\ SetLog(InHand(w), logged)
       /\ IF o = "done" THEN Advance(w, next) ELSE Fail(w)
       /\ IF o = "done" /\ next = "publish" THEN UNCHANGED draft ELSE Forget(w)
  /\ UNCHANGED <<kafkaVars, dlq, ready, unlogged>>

\* _record_skip
RecordSkip(w) == pc[w] = "skip" /\ Store(w, "skipped", NoDraft, "skipped", "commit")

Save(w) == pc[w] = "save" /\ Store(w, "pending", draft[w], "queued_for_send", "publish")

\* publish_ready: send_and_wait raises without an acknowledgement.
PublishReady(w) ==
  /\ pc[w] = "publish"
  /\ \E o \in DbOutcomes :
       /\ ready' = IF o = "failed" THEN ready
                   ELSE [ready EXCEPT ![InHand(w)] = @ \cup {draft[w]}]
       /\ IF o = "done" THEN Advance(w, "commit") ELSE Fail(w)
  /\ Forget(w)
  /\ UNCHANGED <<kafkaVars, dlq, row, saved, logStatus, unlogged, rivals>>

\* A permanent error: a row in the DLQ, then the log, each by itself.
RejectDlq(w) ==
  /\ pc[w] = "reject"
  /\ \E o \in DbOutcomes :
       /\ dlq' = IF o = "failed" THEN dlq ELSE dlq \cup {InHand(w)}
       /\ IF o = "done" THEN Advance(w, "rejectLog") ELSE Fail(w)
  /\ UNCHANGED <<kafkaVars, renderVars>>

RejectLog(w) ==
  /\ pc[w] = "rejectLog"
  /\ \E o \in DbOutcomes :
       /\ IF o = "failed" THEN UNCHANGED logStatus ELSE SetLog(InHand(w), "render_failed")
       /\ IF o = "done" THEN Advance(w, "commitSkip") ELSE Fail(w)
  /\ UNCHANGED <<kafkaVars, dlq, row, saved, ready, draft, unlogged, rivals>>

-----------------------------------------------------------------------------
(* notification_api *)

\* _publish_one: a client sends a request, or sends it again under the same
\* request_id. Whether or not Kafka acknowledges the record, it may be in the
\* topic, and a row of the log is due.
ApiPublish(r) ==
  /\ \/ Len(log) < MaxRequests /\ Append1(r)
     \/ r \in Notifications /\ UNCHANGED loopVars
  /\ unlogged' = IF r \in Notifications THEN unlogged \cup {r} ELSE unlogged
  /\ UNCHANGED <<storeVars, draft>>

ApiUpsertOverwrites(n) == \* mutant: the upsert has no CASE
  logStatus' = [logStatus EXCEPT ![n] = "api"]

\* INSERT ... ON CONFLICT DO UPDATE SET status = CASE ...: a status of the
\* worker stays.
ApiUpsert(n) ==
  logStatus' = [logStatus EXCEPT ![n] = IF @ \in WorkerStatuses THEN @ ELSE "api"]

\* _persist_log_entries, after the publication: best effort, an error is logged
\* and the row is not written.
ApiPersist(n) ==
  /\ n \in unlogged
  /\ unlogged' = unlogged \ {n}
  /\ ApiUpsert(n) \/ UNCHANGED logStatus
  /\ UNCHANGED <<loopVars, row, saved, ready, draft, rivals>>

\* The email stage takes a published text and settles the row.
EmailStage(n) ==
  /\ row[n] = "pending" /\ ready[n] # {}
  /\ row' = [row EXCEPT ![n] = "settled"]
  /\ SetLog(n, "result")
  /\ UNCHANGED <<loopVars, saved, ready, draft, unlogged, rivals>>

\* A manager cancels the campaign: perform_destroy fails its pending rows.
CancelCampaign(n) ==
  /\ row[n] = "pending"
  /\ row' = [row EXCEPT ![n] = "settled"]
  /\ UNCHANGED <<loopVars, saved, logStatus, ready, draft, unlogged, rivals>>

-----------------------------------------------------------------------------
Loop(w) ==
  \/ GetMany(w) /\ UNCHANGED renderVars
  \/ (\E a \in Attempts : Begin(w, a)) /\ UNCHANGED renderVars
  \/ Resume(w) /\ UNCHANGED renderVars
  \/ GiveUp(w) /\ UNCHANGED renderVars
  \/ TryAgain(w) /\ UNCHANGED renderVars
  \/ DeadlineExpires(w) /\ UNCHANGED renderVars
  \/ Commit(w) /\ UNCHANGED renderVars
  \/ CommitSkip(w) /\ UNCHANGED renderVars
  \/ Crash(w) /\ Forget(w) /\ UNCHANGED <<storeVars, unlogged>>
  \/ Rebalance(w) /\ UNCHANGED renderVars

Handle(w) ==
  \/ RejectMalformed(w) \/ ReadStatus(w) \/ ResumePending(w) \/ Profile(w)
  \/ Render(w) \/ RecordSkip(w) \/ Save(w) \/ PublishReady(w)
  \/ RejectDlq(w) \/ RejectLog(w)

Environment ==
  \/ \E r \in Records : ApiPublish(r)
  \/ \E n \in Notifications : ApiPersist(n) \/ EmailStage(n) \/ CancelCampaign(n)

Next == (\E w \in Workers : Loop(w) \/ Handle(w)) \/ Environment

Spec == Init /\ [][Next]_vars

-----------------------------------------------------------------------------
(* Safety. *)

\* What became of a request: a decision not to send, a text on its way to the
\* email stage, or a row in the DLQ.
Answered(r) ==
  \/ r \in dlq
  \/ /\ r \in Notifications
     /\ row[r] \in {"skipped", "settled"} \/ (row[r] = "pending" /\ ready[r] # {})

\* No accepted request is lost: one behind the committed offset is answered,
\* whatever failed between the save and the publication (handle_message). The
\* exception are two processes that render the same request at once: the
\* INSERT of the second leaves no row of its own, see NoneIsStranded.
CommittedIsAnswered == \A i \in 1..committed : Answered(log[i]) \/ log[i] \in rivals

\* What the email stage relies on: a published text has its row, so the claim
\* finds one (handle_message publishes after the transaction).
PublishedHasRow == \A n \in Notifications : ready[n] # {} => row[n] # "absent"

\* The text that is sent is the one that was saved, also when it is published
\* by a later call (_resume_pending), unless two processes rendered the request
\* at once.
PublishedIsSaved ==
  \A n \in Notifications : ready[n] \subseteq {saved[n]} \/ n \in rivals

\* The status the worker has written is not thrown back by a request that is
\* sent again or whose row is written late (_persist_log_entries).
WorkerStatusStays ==
  [][\A n \in Notifications :
       logStatus[n] \in WorkerStatuses => logStatus'[n] \in WorkerStatuses]_vars

\* A request is let go only when its result is saved: one that nobody has in
\* hand any more is answered. Two processes that render it at once refute it:
\* the skip of the second meets the row of the first, which dies before it
\* publishes.
NoneIsStranded ==
  (\A w \in Workers : pc[w] = "idle" /\ pos[w] = fetched[w]) =>
    \A i \in 1..committed : Answered(log[i])
=============================================================================
