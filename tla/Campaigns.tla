------------------------------- MODULE Campaigns -------------------------------
(***************************************************************************)
(* The campaigns of notification_admin_panel: managers create, edit, send  *)
(* and cancel them through the API or the forms, cron sends what is due    *)
(* every minute, and each send is one request to notification_api, whose   *)
(* answer may not arrive.  Everything works on Django objects: a copy of   *)
(* the row that is read, changed in memory and saved later, some saves     *)
(* writing all fields and some only those they name.                       *)
(*                                                                         *)
(* A task is the work of one process on one campaign: a manager's request, *)
(* or one element of the list a cron command has read.  Cron starts a new  *)
(* process every minute whether or not the last one is done, so tasks      *)
(* overlap.  Time is left out: a delay, a retry time and a period may end  *)
(* at any moment.                                                          *)
(***************************************************************************)
EXTENDS Naturals, FiniteSets

CONSTANTS
  Campaigns,
  Tasks,      \* what can be in progress at once
  NoRun,      \* current_run_request_id is NULL
  NoJob,      \* a task with nothing to do
  MaxEdits,   \* bound: edits of one campaign
  MaxPresses, \* bound: calls of send_now for a campaign without a schedule
  MaxRuns     \* bound: with a schedule, later runs share their number

Base == 0     \* the campaign's own request_id

ASSUME CampaignsAssumption ==
  /\ MaxEdits \in Nat
  /\ MaxPresses \in Nat
  /\ MaxRuns \in Nat \ {0}
  /\ NoRun \notin Nat

VARIABLES
  type,       \* campaigns.schedule_type: "once" is immediate or delayed
  status,     \* campaigns.status
  last,       \* campaigns.last_send_status
  run,        \* campaigns.current_run_request_id
  schedule,   \* notification_schedules: no row, is_active or not
  due,        \* next_run is in the past
  creating,   \* "no", or the type an unfinished creation works with
  cancelling, \* campaigns whose cancellation is not finished
  pc,         \* where each task is
  job,        \* its campaign and its copy of the row
  edits,      \* how many edits of a campaign were begun
  calm,       \* nothing dies or fails any more
  issued,     \* how many new request ids were made for a campaign
  presses,    \* how often "send now" sent a campaign without a schedule
  batches     \* the request ids under which notification_api took the campaign

rows  == <<status, last, run>>
sched == <<schedule, due>>
tasks == <<pc, job>>
history == <<edits, issued, presses, batches>>
vars  == <<type, status, last, run, schedule, due, creating, cancelling, pc, job, calm, edits, issued, presses, batches>>

Types == {"once", "recurring"}
Once == {c \in Campaigns : type[c] = "once"}

Kinds == {"cron", "recurring", "now", "edit"}
Statuses == {"absent", "draft", "scheduled", "cancelled"}
SendStatuses == {"pending", "pending_retry", "api_accepted", "api_rejected"}
RunIds == 0..(MaxPresses + MaxRuns)
Jobs == [kind : Kinds, campaign : Campaigns, status : Statuses,
         last : SendStatuses, run : RunIds \cup {NoRun}]

ASSUME NoJobAssumption == NoJob \notin Jobs

TypeOK ==
  /\ type \in [Campaigns -> Types]
  /\ status \in [Campaigns -> Statuses]
  /\ last \in [Campaigns -> SendStatuses]
  /\ run \in [Campaigns -> RunIds \cup {NoRun}]
  /\ schedule \in [Campaigns -> {"none", "on", "off"}]
  /\ due \in [Campaigns -> BOOLEAN]
  /\ creating \in [Campaigns -> Types \cup {"no"}]
  /\ cancelling \subseteq Campaigns
  /\ pc \in [Tasks -> {"idle", "send", "save", "move", "write"}]
  /\ job \in [Tasks -> Jobs \cup {NoJob}]
  /\ calm \in BOOLEAN
  /\ edits \in [Campaigns -> 0..MaxEdits]
  /\ issued \in [Campaigns -> RunIds]
  /\ presses \in [Campaigns -> 0..MaxPresses]
  /\ batches \in [Campaigns -> SUBSET RunIds]

Init ==
  /\ type = [c \in Campaigns |-> "once"]
  /\ status = [c \in Campaigns |-> "absent"]
  /\ last = [c \in Campaigns |-> "pending"]
  /\ run = [c \in Campaigns |-> NoRun]
  /\ schedule = [c \in Campaigns |-> "none"]
  /\ due = [c \in Campaigns |-> FALSE]
  /\ creating = [c \in Campaigns |-> "no"]
  /\ cancelling = {}
  /\ pc = [t \in Tasks |-> "idle"]
  /\ job = [t \in Tasks |-> NoJob]
  /\ calm = FALSE
  /\ edits = [c \in Campaigns |-> 0]
  /\ issued = [c \in Campaigns |-> 0]
  /\ presses = [c \in Campaigns |-> 0]
  /\ batches = [c \in Campaigns |-> {}]

-----------------------------------------------------------------------------
(* Managers: perform_create and perform_destroy, one step per save. *)

Create(c) ==
  /\ status[c] = "absent"
  /\ \E s \in Types : type' = [type EXCEPT ![c] = s] /\ creating' = [creating EXCEPT ![c] = s]
  /\ status' = [status EXCEPT ![c] = "draft"]
  /\ UNCHANGED <<last, run, sched, cancelling, tasks, history, calm>>

CreateSchedule(c) ==
  /\ creating[c] = "recurring" /\ schedule[c] = "none"
  /\ schedule' = [schedule EXCEPT ![c] = "on"]
  /\ UNCHANGED <<type, rows, due, creating, cancelling, tasks, history, calm>>

Enqueue(c) ==
  /\ creating[c] # "no" /\ (creating[c] = "recurring" => schedule[c] # "none")
  /\ creating' = [creating EXCEPT ![c] = "no"]
  /\ status' = [status EXCEPT ![c] = "scheduled"]
  /\ UNCHANGED <<type, last, run, sched, cancelling, tasks, history, calm>>

\* Only a campaign that has a schedule or may get one has a second step, and
\* cancelling again matters only while that schedule is on.
Cancel(c) ==
  /\ status[c] # "absent" /\ c \notin cancelling
  /\ status[c] = "cancelled" => schedule[c] = "on"
  /\ status' = [status EXCEPT ![c] = "cancelled"]
  /\ cancelling' = IF schedule[c] = "on" \/ creating[c] = "recurring"
                     THEN cancelling \cup {c} ELSE cancelling
  /\ UNCHANGED <<type, last, run, sched, creating, tasks, history, calm>>

CancelSchedule(c) ==
  /\ c \in cancelling
  /\ cancelling' = cancelling \ {c}
  /\ schedule' = [schedule EXCEPT ![c] = IF @ = "none" THEN @ ELSE "off"]
  /\ UNCHANGED <<type, rows, due, creating, tasks, history, calm>>

\* A request dies between two saves: the panel has no transaction around it.
RequestDies(c) ==
  /\ \/ creating[c] # "no" /\ creating' = [creating EXCEPT ![c] = "no"] /\ UNCHANGED cancelling
     \/ c \in cancelling /\ cancelling' = cancelling \ {c} /\ UNCHANGED creating
  /\ UNCHANGED <<type, rows, sched, tasks, history, calm>>

-----------------------------------------------------------------------------
(* Reading a copy of the row. *)

\* Of the copy a task keeps what it still uses: a sender the status it looks
\* at, a retry the run it belongs to, an edit everything.
Read(t, kind, c, step) ==
  /\ pc[t] = "idle"
  /\ pc' = [pc EXCEPT ![t] = step]
  /\ job' = [job EXCEPT ![t] =
       [kind |-> kind, campaign |-> c,
        status |-> IF kind = "cron" THEN "scheduled" ELSE status[c],
        last |-> IF kind = "edit" THEN last[c] ELSE "pending",
        run |-> IF kind \in {"cron", "edit"} THEN run[c] ELSE NoRun]]
  /\ edits' = [edits EXCEPT ![c] = IF kind = "edit" THEN @ + 1 ELSE @]
  /\ UNCHANGED <<type, rows, sched, creating, cancelling, issued, presses, batches, calm>>

ReadPendingScheduled(t, c) == \* mutant: drafts are left out
  /\ c \in Once /\ status[c] = "scheduled"
  /\ last[c] \in {"pending", "pending_retry"}
  /\ Read(t, "cron", c, "send")

\* process_pending_campaigns: the query of what is due or due again.
ReadPending(t, c) ==
  /\ c \in Once /\ status[c] \in {"draft", "scheduled"}
  /\ last[c] \in {"pending", "pending_retry"}
  /\ Read(t, "cron", c, "send")

\* process_recurring: the schedules that are due, with their campaigns.
ReadDue(t, c) ==
  /\ schedule[c] = "on" /\ due[c]
  /\ Read(t, "recurring", c, "send")

\* send_now; the number of calls is bounded.
ReadNow(t, c) ==
  /\ status[c] # "absent" /\ presses[c] < MaxPresses
  /\ \A u \in Tasks : job[u] # NoJob => job[u].kind # "now"
  /\ Read(t, "now", c, "send")

\* partial_update or campaign_edit.
ReadEdit(t, c) ==
  /\ status[c] # "absent" /\ edits[c] < MaxEdits
  /\ Read(t, "edit", c, "write")

-----------------------------------------------------------------------------
(* send_campaign_notifications and its callers. *)

Copy(t) == job[t]
Of(t) == job[t].campaign
Leave(t) == pc' = [pc EXCEPT ![t] = "idle"] /\ job' = [job EXCEPT ![t] = NoJob]

\* The caller looks at the status of its copy, and a cancelled recurring
\* campaign loses its schedule.
TurnDownOnly(t) == \* mutant: process_recurring skips what is cancelled
  /\ pc[t] = "send" /\ Copy(t).status = "cancelled"
  /\ Leave(t)
  /\ UNCHANGED <<type, rows, sched, creating, cancelling, history, calm>>

TurnDown(t) ==
  /\ pc[t] = "send" /\ Copy(t).status = "cancelled"
  /\ schedule' = IF Copy(t).kind = "recurring" THEN [schedule EXCEPT ![Of(t)] = "off"]
                                               ELSE schedule
  /\ Leave(t)
  /\ UNCHANGED <<type, rows, due, creating, cancelling, history, calm>>

NewRunId(c) ==
  IF schedule[c] # "none" /\ issued[c] >= MaxRuns THEN issued[c] ELSE issued[c] + 1

RunIdAlwaysNew(t) == \* mutant: a retry is a new run
  NewRunId(Of(t))

\* force_new_request_id, the id of the run in the copy, or the campaign's own.
RunId(t) ==
  IF Copy(t).kind \in {"recurring", "now"} THEN NewRunId(Of(t))
  ELSE IF Copy(t).run = NoRun THEN Base ELSE Copy(t).run

\* What notification_api does and what the client hears of it: taken or not;
\* the answer, a 5xx or a timeout. A request nobody accepted is api_rejected
\* for good.
Answers == {"api_accepted", "api_rejected", "pending_retry"}

PostBelievesStatus(t) == \* mutant: a 202 counts, whoever was accepted
  \E answer \in Answers, taken \in BOOLEAN :
    /\ answer = "pending_retry" => ~calm
    /\ batches' = IF taken THEN [batches EXCEPT ![Of(t)] = @ \cup {RunId(t)}] ELSE batches
    /\ job' = [job EXCEPT ![t].run = RunId(t), ![t].last = answer,
                            ![t].status = "scheduled"]

Post(t) ==
  \E answer \in Answers, taken \in BOOLEAN :
    /\ answer = "api_accepted" => taken
    /\ answer = "pending_retry" => ~calm
    /\ batches' = IF taken THEN [batches EXCEPT ![Of(t)] = @ \cup {RunId(t)}] ELSE batches
    /\ job' = [job EXCEPT ![t].run = RunId(t), ![t].last = answer,
                            ![t].status = "scheduled"]

Send(t) ==
  /\ pc[t] = "send" /\ Copy(t).status # "cancelled"
  /\ Post(t)
  /\ issued' = [issued EXCEPT ![Of(t)] = IF RunId(t) > @ THEN RunId(t) ELSE @]
  /\ presses' = [presses EXCEPT ![Of(t)] =
                     IF Copy(t).kind = "now" /\ schedule[Of(t)] = "none" THEN @ + 1 ELSE @]
  /\ pc' = [pc EXCEPT ![t] = "save"]
  /\ UNCHANGED <<type, rows, sched, creating, cancelling, edits, calm>>

\* The list of recipients may have been emptied: no request and no save.
NoRecipients(t) ==
  /\ ~calm /\ pc[t] = "send" /\ Copy(t).status # "cancelled"
  /\ IF Copy(t).kind = "recurring"
       THEN pc' = [pc EXCEPT ![t] = "move"] /\ UNCHANGED job
       ELSE Leave(t)
  /\ UNCHANGED <<type, rows, sched, creating, cancelling, history, calm>>

\* save(update_fields=...): the run and the result, not the status.
SaveResult(t) ==
  /\ pc[t] = "save"
  /\ run' = [run EXCEPT ![Of(t)] = Copy(t).run]
  /\ last' = [last EXCEPT ![Of(t)] = Copy(t).last]
  /\ IF Copy(t).kind = "recurring"
       THEN pc' = [pc EXCEPT ![t] = "move"] /\ UNCHANGED job
       ELSE Leave(t)
  /\ UNCHANGED <<type, status, sched, creating, cancelling, history, calm>>

\* process_recurring moves next_run after the send.
MoveNextRun(t) ==
  /\ pc[t] = "move"
  /\ due' = [due EXCEPT ![Of(t)] = FALSE]
  /\ Leave(t)
  /\ UNCHANGED <<type, rows, schedule, creating, cancelling, history, calm>>

\* save() of the form or the serializer writes every field of the copy; the
\* form has a new schedule_type, which changes no schedule.
WriteBack(t) ==
  /\ pc[t] = "write"
  /\ status' = [status EXCEPT ![Of(t)] = Copy(t).status]
  /\ last' = [last EXCEPT ![Of(t)] = Copy(t).last]
  /\ run' = [run EXCEPT ![Of(t)] = Copy(t).run]
  /\ \E s \in Types : type' = [type EXCEPT ![Of(t)] = s]
  /\ Leave(t)
  /\ UNCHANGED <<sched, creating, cancelling, history, calm>>

\* The process dies, or a save raises.
TaskDies(t) ==
  /\ ~calm /\ pc[t] # "idle"
  /\ Leave(t)
  /\ UNCHANGED <<type, rows, sched, creating, cancelling, history, calm>>

\* The next run of a schedule comes.
PeriodEnds(c) ==
  /\ schedule[c] = "on" /\ ~due[c]
  /\ due' = [due EXCEPT ![c] = TRUE]
  /\ UNCHANGED <<type, rows, schedule, creating, cancelling, tasks, history, calm>>

\* At some point processes stop dying, requests stop failing and lists of
\* recipients stop being emptied.
CalmDown ==
  /\ calm' = TRUE
  /\ UNCHANGED <<type, rows, sched, creating, cancelling, tasks, history>>

-----------------------------------------------------------------------------
Work(t) ==
  \/ TurnDown(t) \/ Send(t) \/ SaveResult(t) \/ MoveNextRun(t) \/ WriteBack(t)

Manage(c) ==
  \/ Create(c) \/ CreateSchedule(c) \/ Enqueue(c) \/ Cancel(c) \/ CancelSchedule(c)
  \/ RequestDies(c)

Start(t, c) == ReadPending(t, c) \/ ReadDue(t, c) \/ ReadNow(t, c) \/ ReadEdit(t, c)

Next ==
  \/ \E t \in Tasks : Work(t) \/ NoRecipients(t) \/ TaskDies(t) \/ \E c \in Campaigns : Start(t, c)
  \/ \E c \in Campaigns : Manage(c) \/ PeriodEnds(c)
  \/ CalmDown

Spec == Init /\ [][Next]_vars

-----------------------------------------------------------------------------
(* Liveness: cron starts a process every minute, so that the number of      *)
(* tasks never stands in the way; every call has a timeout; CalmDown.         *)

FairSpec ==
  /\ Spec
  /\ \A t \in Tasks : WF_vars(Work(t))
  /\ \A c \in Campaigns :
       /\ SF_vars(\E t \in Tasks : ReadPending(t, c))
       /\ SF_vars(\E t \in Tasks : ReadDue(t, c))
       /\ WF_vars(PeriodEnds(c))
  /\ WF_vars(CalmDown)

\* A campaign that was created is sent, also when its creation died between two
\* saves or its request timed out, unless it is refused, cancelled or made
\* recurring (process_pending_campaigns).
EveryCampaignIsSent ==
  \A c \in Campaigns :
    (c \in Once /\ status[c] = "draft") ~>
      \/ c \notin Once
      \/ status[c] = "cancelled"
      \/ last[c] \in {"api_accepted", "api_rejected"}

\* A recurring campaign that stays cancelled stops being scheduled, although
\* the request that cancelled it may have died before it switched the schedule
\* off (process_recurring finishes its work).
CancelledStops ==
  \A c \in Campaigns :
    (status[c] = "cancelled" /\ schedule[c] = "on") ~>
      (status[c] # "cancelled" \/ schedule[c] = "off")

-----------------------------------------------------------------------------
(* Safety. *)

\* Without a schedule a user gets one batch for the campaign and one for every
\* press of "send now": overlapping cron runs, retries after a lost answer, stale copies that
\* are saved back and crashes make no batch of their own, because they send
\* under an id that notification_worker knows (process_pending_campaigns).
OneBatchPerDecision ==
  \A c \in Campaigns :
    schedule[c] = "none" => Cardinality(batches[c]) <= 1 + presses[c]

\* What the panel shows as accepted was accepted (send_campaign_notifications).
AcceptedHasBatch == \A c \in Campaigns : last[c] = "api_accepted" => batches[c] # {}

\* "проверяем статус прямо перед отправкой": nothing is sent for a campaign
\* whose row says it is cancelled.
CancelledIsNotSent ==
  [][\A t \in Tasks :
       (pc[t] = "send" /\ pc'[t] = "save" /\ job[t].kind = "cron") =>
         status[job[t].campaign] # "cancelled"]_vars
=============================================================================
