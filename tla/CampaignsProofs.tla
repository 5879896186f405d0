---------------------------- MODULE CampaignsProofs ----------------------------
(***************************************************************************)
(* Proofs about Campaigns: for any set of campaigns and of tasks, and       *)
(* whatever the bounds are, OneBatchPerDecision and AcceptedHasBatch hold.  *)
(*                                                                         *)
(* A batch is named by a request id.  The inductive invariant says where    *)
(* ids can be: a row, a copy in a task's hands and a batch only hold ids    *)
(* that were issued, and without a schedule each issued id was paid for by  *)
(* a press of "send now".  Copies are the reason it speaks of tasks: a      *)
(* stale copy that is saved back brings old values into the row.            *)
(***************************************************************************)
EXTENDS Campaigns, FiniteSetTheorems, TLAPS

Busy(t) == pc[t] # "idle"

\* What a task holds is about its campaign: the run in its copy was issued, a
\* due schedule exists, an accepted result has a batch.
CopyIsKnown(t) ==
  /\ IF Busy(t) THEN job[t] \in Jobs ELSE job[t] = NoJob
  /\ Busy(t) =>
       /\ job[t].run # NoRun => job[t].run <= issued[job[t].campaign]
       /\ job[t].kind = "recurring" => schedule[job[t].campaign] # "none"
       /\ job[t].last = "api_accepted" => batches[job[t].campaign] # {}

\* There is one send_now at a time, and it has not used up the presses.
OnePress ==
  /\ \A t, u \in Tasks :
       (Busy(t) /\ Busy(u) /\ job[t].kind = "now" /\ job[u].kind = "now") => t = u
  /\ \A t \in Tasks :
       (pc[t] = "send" /\ job[t].kind = "now") => presses[job[t].campaign] < MaxPresses

\* The row and the batches of a campaign hold issued ids, and without a schedule
\* only a press issues one.
RowIsKnown(c) ==
  /\ run[c] # NoRun => run[c] <= issued[c]
  /\ batches[c] \subseteq 0..issued[c]
  /\ schedule[c] = "none" => issued[c] <= presses[c]
  /\ last[c] = "api_accepted" => batches[c] # {}

CampaignsInv ==
  /\ TypeOK
  /\ \A t \in Tasks : CopyIsKnown(t)
  /\ \A c \in Campaigns : RowIsKnown(c)
  /\ OnePress

-----------------------------------------------------------------------------
(* What steps of others leave alone. *)

\* Ids stay issued, batches stay, and a schedule is switched off but not removed.
Grows ==
  \A c \in Campaigns :
    /\ issued[c] <= issued'[c] /\ batches[c] \subseteq batches'[c]
    /\ schedule[c] # "none" => schedule'[c] # "none"

\* A task t leaves the others alone.
OthersRest(t) == \A u \in Tasks \ {t} : pc'[u] = pc[u] /\ job'[u] = job[u]

LEMMA JobParts ==
  ASSUME NEW j \in Jobs
  PROVE  /\ j.kind \in Kinds /\ j.campaign \in Campaigns /\ j.status \in Statuses
         /\ j.last \in SendStatuses /\ j.run \in RunIds \cup {NoRun}
PROOF BY DEF Jobs

LEMMA RunIdsAreNumbers == (\A r \in RunIds : r \in Nat) /\ NoRun \notin RunIds
PROOF BY CampaignsAssumption DEF RunIds

LEMMA Counts ==
  ASSUME TypeOK, NEW c \in Campaigns
  PROVE  /\ issued[c] \in Nat /\ presses[c] \in Nat
         /\ run[c] \in RunIds \cup {NoRun}
PROOF
  <1>1. issued[c] \in RunIds /\ run[c] \in RunIds \cup {NoRun}
    BY DEF TypeOK
  <1>2. presses[c] \in 0..MaxPresses
    BY DEF TypeOK
  <1> QED BY <1>1, <1>2, RunIdsAreNumbers

LEMMA CountsNext ==
  ASSUME TypeOK', NEW c \in Campaigns
  PROVE  /\ issued'[c] \in Nat /\ presses'[c] \in Nat
         /\ run'[c] \in RunIds \cup {NoRun}
PROOF
  <1>1. issued'[c] \in RunIds /\ run'[c] \in RunIds \cup {NoRun}
    BY DEF TypeOK
  <1>2. presses'[c] \in 0..MaxPresses
    BY DEF TypeOK
  <1> QED BY <1>1, <1>2, RunIdsAreNumbers

\* The copy of a task that takes no step stays known.
LEMMA CopyStays ==
  ASSUME CampaignsInv, TypeOK', Grows,
         NEW t \in Tasks, pc'[t] = pc[t], job'[t] = job[t]
  PROVE  CopyIsKnown(t)'
PROOF
  <1>1. CopyIsKnown(t)
    BY DEF CampaignsInv
  <1>2. CASE ~Busy(t)
    BY <1>1, <1>2 DEF CopyIsKnown, Busy
  <1>3. CASE Busy(t)
    <2> DEFINE c == job[t].campaign
    <2>1. job[t] \in Jobs /\ c \in Campaigns /\ job[t].run \in RunIds \cup {NoRun}
      BY <1>1, <1>3, JobParts DEF CopyIsKnown
    <2>2. issued[c] \in Nat /\ issued'[c] \in Nat
      BY <2>1, Counts, CountsNext DEF CampaignsInv
    <2>3. job[t].run # NoRun => job[t].run <= issued'[c]
      <3>1. issued[c] <= issued'[c]
        BY <2>1 DEF Grows
      <3> QED BY <1>1, <1>3, <2>1, <2>2, <3>1, RunIdsAreNumbers DEF CopyIsKnown
    <2>4. /\ job[t].kind = "recurring" => schedule'[c] # "none"
          /\ job[t].last = "api_accepted" => batches'[c] # {}
      BY <1>1, <1>3, <2>1 DEF CopyIsKnown, Grows
    <2> QED BY <1>3, <2>1, <2>3, <2>4 DEF CopyIsKnown, Busy
  <1> QED BY <1>2, <1>3

\* So does the row of a campaign whose fields are left alone, when the presses
\* are too.
LEMMA RowStays ==
  ASSUME CampaignsInv, TypeOK', Grows, NEW c \in Campaigns,
         run'[c] = run[c] \/ run'[c] = NoRun \/ run'[c] <= issued'[c],
         last'[c] = "api_accepted" => last[c] = "api_accepted" \/ batches'[c] # {},
         issued'[c] = issued[c], batches'[c] = batches[c], presses[c] <= presses'[c]
  PROVE  RowIsKnown(c)'
PROOF
  <1>1. RowIsKnown(c)
    BY DEF CampaignsInv
  <1>2. /\ issued[c] \in Nat /\ presses[c] \in Nat /\ presses'[c] \in Nat
    BY Counts, CountsNext DEF CampaignsInv
  <1>3. schedule'[c] = "none" => schedule[c] = "none"
    BY DEF Grows
  <1> QED BY <1>1, <1>2, <1>3 DEF RowIsKnown

\* And the presses, as long as no task begins one.
LEMMA PressStays ==
  ASSUME CampaignsInv, UNCHANGED presses,
         \A t \in Tasks :
           \/ pc'[t] = "idle"
           \/ /\ Busy(t) /\ job'[t].kind = job[t].kind /\ job'[t].campaign = job[t].campaign
              /\ pc'[t] = "send" => pc[t] = "send"
  PROVE  OnePress'
PROOF BY DEF CampaignsInv, OnePress, Busy

-----------------------------------------------------------------------------
(* The steps. *)

LEMMA CampaignsInvInit == Init => CampaignsInv
PROOF
  <1> SUFFICES ASSUME Init PROVE CampaignsInv
    OBVIOUS
  <1>1. TypeOK
    <2>1. 0 \in RunIds /\ 0 \in 0..MaxEdits /\ 0 \in 0..MaxPresses
      BY CampaignsAssumption DEF RunIds
    <2> QED BY <2>1 DEF Init, TypeOK, Types, Statuses, SendStatuses
  <1>2. \A t \in Tasks : CopyIsKnown(t)
    BY DEF Init, CopyIsKnown, Busy
  <1>3. \A c \in Campaigns : RowIsKnown(c)
    BY DEF Init, RowIsKnown
  <1>4. OnePress
    BY DEF Init, OnePress, Busy
  <1> QED BY <1>1, <1>2, <1>3, <1>4 DEF CampaignsInv

\* A step that leaves copies, results and batches alone.
LEMMA QuietStep ==
  ASSUME CampaignsInv, TypeOK', Grows,
         UNCHANGED <<last, run, pc, job, issued, presses, batches>>
  PROVE  CampaignsInv'
PROOF
  <1>1. \A t \in Tasks : CopyIsKnown(t)'
    BY CopyStays
  <1>2. \A c \in Campaigns : RowIsKnown(c)'
    <2> SUFFICES ASSUME NEW c \in Campaigns PROVE RowIsKnown(c)'
      OBVIOUS
    <2>1. presses[c] <= presses'[c]
      BY Counts DEF CampaignsInv
    <2> QED BY <2>1, RowStays
  <1>3. OnePress'
    BY DEF CampaignsInv, OnePress, Busy
  <1> QED BY <1>1, <1>2, <1>3 DEF CampaignsInv

LEMMA ManageKeepsTypes ==
  ASSUME TypeOK, NEW c \in Campaigns, Manage(c) \/ PeriodEnds(c)
  PROVE  /\ TypeOK'
         /\ \A d \in Campaigns : schedule[d] # "none" => schedule'[d] # "none"
         /\ UNCHANGED <<last, run, tasks, history>>
PROOF
  <1> USE DEF TypeOK, rows, sched, tasks, history
  <1>1. CASE Create(c)
    BY <1>1 DEF Create, Types, Statuses
  <1>2. CASE CreateSchedule(c)
    BY <1>2 DEF CreateSchedule
  <1>3. CASE Enqueue(c)
    BY <1>3 DEF Enqueue, Statuses
  <1>4. CASE Cancel(c)
    BY <1>4 DEF Cancel, Statuses
  <1>5. CASE CancelSchedule(c)
    BY <1>5 DEF CancelSchedule
  <1>6. CASE RequestDies(c)
    BY <1>6 DEF RequestDies
  <1>7. CASE PeriodEnds(c)
    BY <1>7 DEF PeriodEnds
  <1> QED BY <1>1, <1>2, <1>3, <1>4, <1>5, <1>6, <1>7 DEF Manage

LEMMA ManageStep ==
  ASSUME CampaignsInv, NEW c \in Campaigns, Manage(c) \/ PeriodEnds(c)
  PROVE  CampaignsInv'
PROOF
  <1>1. /\ TypeOK'
        /\ \A d \in Campaigns : schedule[d] # "none" => schedule'[d] # "none"
        /\ UNCHANGED <<last, run, tasks, history>>
    BY ManageKeepsTypes DEF CampaignsInv
  <1>2. Grows
    BY <1>1, Counts DEF Grows, history, CampaignsInv
  <1> QED BY <1>1, <1>2, QuietStep DEF tasks, history

LEMMA RestStep ==
  ASSUME CampaignsInv, CalmDown \/ UNCHANGED vars
  PROVE  CampaignsInv'
PROOF
  <1>1. TypeOK' /\ UNCHANGED <<last, run, pc, job, schedule, issued, presses, batches>>
    BY DEF CampaignsInv, TypeOK, CalmDown, vars, rows, sched, tasks, history
  <1>2. Grows
    BY <1>1, Counts DEF Grows, CampaignsInv
  <1> QED BY <1>1, <1>2, QuietStep

\* A task reads a copy of a row.
LEMMA ReadStep ==
  ASSUME CampaignsInv, NEW t \in Tasks, NEW c \in Campaigns,
         NEW kind \in Kinds, NEW step \in {"send", "write"}, Read(t, kind, c, step),
         kind = "edit" => edits[c] < MaxEdits,
         kind = "recurring" => schedule[c] # "none",
         kind = "now" => /\ presses[c] < MaxPresses
                         /\ \A u \in Tasks : job[u] # NoJob => job[u].kind # "now"
  PROVE  CampaignsInv'
PROOF
  <1> DEFINE copy == [kind |-> kind, campaign |-> c,
                      status |-> IF kind = "cron" THEN "scheduled" ELSE status[c],
                      last |-> IF kind = "edit" THEN last[c] ELSE "pending",
                      run |-> IF kind \in {"cron", "edit"} THEN run[c] ELSE NoRun]
  <1>0. TypeOK /\ RowIsKnown(c) /\ OnePress /\ \A u \in Tasks : CopyIsKnown(u)
    BY DEF CampaignsInv
  <1>1. copy \in Jobs
    <2>1. /\ status[c] \in Statuses /\ "scheduled" \in Statuses
          /\ last[c] \in SendStatuses /\ "pending" \in SendStatuses
          /\ run[c] \in RunIds \cup {NoRun}
      BY <1>0 DEF TypeOK, Statuses, SendStatuses
    <2> QED BY <2>1 DEF Jobs
  <1>2. /\ job' = [job EXCEPT ![t] = copy] /\ pc' = [pc EXCEPT ![t] = step]
        /\ UNCHANGED <<type, status, last, run, schedule, due, creating, cancelling, calm>>
        /\ UNCHANGED <<issued, presses, batches>>
    BY DEF Read, rows, sched
  <1> HIDE DEF copy
  <1>3. TypeOK'
    <2>1. job' \in [Tasks -> Jobs \cup {NoJob}]
      BY <1>0, <1>1, <1>2 DEF TypeOK
    <2>2. pc' \in [Tasks -> {"idle", "send", "save", "move", "write"}]
      BY <1>0, <1>2 DEF TypeOK
    <2>3. edits' \in [Campaigns -> 0..MaxEdits]
      <3>1. edits \in [Campaigns -> 0..MaxEdits]
        BY <1>0 DEF TypeOK
      <3>2. edits' = [edits EXCEPT ![c] = IF kind = "edit" THEN edits[c] + 1 ELSE edits[c]]
        BY DEF Read
      <3>3. (IF kind = "edit" THEN edits[c] + 1 ELSE edits[c]) \in 0..MaxEdits
        BY <3>1, CampaignsAssumption
      <3> QED BY <3>1, <3>2, <3>3
    <2> QED BY <1>0, <1>2, <2>1, <2>2, <2>3 DEF TypeOK
  <1>4. Grows
    BY <1>0, <1>2, Counts DEF Grows
  <1>5. /\ job'[t] = copy /\ pc'[t] = step /\ ~Busy(t)
        /\ \A u \in Tasks \ {t} : pc'[u] = pc[u] /\ job'[u] = job[u]
    BY <1>0, <1>2 DEF TypeOK, Read, Busy
  <1>6. \A u \in Tasks : CopyIsKnown(u)'
    <2>1. CopyIsKnown(t)'
      <3>1. copy.campaign = c /\ copy.kind = kind /\ (copy.run = run[c] \/ copy.run = NoRun)
        BY DEF copy
      <3>2. copy.last = "api_accepted" => last[c] = "api_accepted"
        BY DEF copy
      <3> QED BY <1>0, <1>1, <1>2, <1>5, <3>1, <3>2 DEF CopyIsKnown, RowIsKnown, Busy
    <2> QED BY <1>3, <1>4, <1>5, <2>1, CopyStays
  <1>7. \A d \in Campaigns : RowIsKnown(d)'
    BY <1>0, <1>2 DEF CampaignsInv, RowIsKnown
  <1>8. OnePress'
    <2>1. \A u \in Tasks \ {t} : Busy(u) => job[u] # NoJob
      BY <1>0, NoJobAssumption DEF CopyIsKnown
    <2>2. copy.kind = kind /\ copy.campaign = c
      BY DEF copy
    <2> QED BY <1>0, <1>2, <1>5, <2>1, <2>2 DEF OnePress, Busy
  <1> QED BY <1>3, <1>6, <1>7, <1>8 DEF CampaignsInv

LEMMA StartStep ==
  ASSUME CampaignsInv, NEW t \in Tasks, NEW c \in Campaigns, Start(t, c)
  PROVE  CampaignsInv'
PROOF
  <1>1. CASE ReadPending(t, c)
    BY <1>1, ReadStep DEF ReadPending, Kinds
  <1>2. CASE ReadDue(t, c)
    BY <1>2, ReadStep DEF ReadDue, Kinds
  <1>3. CASE ReadNow(t, c)
    BY <1>3, ReadStep DEF ReadNow, Kinds
  <1>4. CASE ReadEdit(t, c)
    BY <1>4, ReadStep DEF ReadEdit, Kinds
  <1> QED BY <1>1, <1>2, <1>3, <1>4 DEF Start

\* What a busy task holds, and what follows for its campaign.
LEMMA InHand ==
  ASSUME CampaignsInv, NEW t \in Tasks, pc[t] # "idle"
  PROVE  /\ job[t] \in Jobs /\ Of(t) \in Campaigns
         /\ Copy(t).kind \in Kinds /\ Copy(t).status \in Statuses
         /\ Copy(t).last \in SendStatuses /\ Copy(t).run \in RunIds \cup {NoRun}
         /\ Copy(t).run # NoRun => Copy(t).run <= issued[Of(t)]
         /\ Copy(t).kind = "recurring" => schedule[Of(t)] # "none"
         /\ Copy(t).last = "api_accepted" => batches[Of(t)] # {}
PROOF BY JobParts DEF CampaignsInv, CopyIsKnown, Busy, Of, Copy

\* A task that is done forgets its copy.
LEMMA LeaveTypes ==
  ASSUME TypeOK, NEW t \in Tasks, Leave(t)
  PROVE  /\ pc' \in [Tasks -> {"idle", "send", "save", "move", "write"}]
         /\ job' \in [Tasks -> Jobs \cup {NoJob}]
         /\ pc'[t] = "idle" /\ job'[t] = NoJob
         /\ \A u \in Tasks \ {t} : pc'[u] = pc[u] /\ job'[u] = job[u]
PROOF BY DEF TypeOK, Leave

LEMMA LeaveStep ==
  ASSUME CampaignsInv, NEW t \in Tasks, Leave(t), TypeOK', Grows, UNCHANGED presses,
         \A c \in Campaigns : RowIsKnown(c)'
  PROVE  CampaignsInv'
PROOF
  <1>1. /\ pc'[t] = "idle" /\ job'[t] = NoJob
        /\ \A u \in Tasks \ {t} : pc'[u] = pc[u] /\ job'[u] = job[u]
    BY LeaveTypes DEF CampaignsInv
  <1>2. \A u \in Tasks : CopyIsKnown(u)'
    <2>1. CopyIsKnown(t)'
      BY <1>1 DEF CopyIsKnown, Busy
    <2> QED BY <1>1, <2>1, CopyStays
  <1>3. OnePress'
    BY <1>1 DEF CampaignsInv, OnePress, Busy
  <1> QED BY <1>2, <1>3 DEF CampaignsInv

\* The row is left alone: a cancelled copy, an empty list, a lost process, the
\* end of a recurring send.
LEMMA DropStep ==
  ASSUME CampaignsInv, NEW t \in Tasks, Leave(t),
         TurnDown(t) \/ NoRecipients(t) \/ MoveNextRun(t) \/ TaskDies(t)
  PROVE  CampaignsInv'
PROOF
  <1>1. UNCHANGED <<type, status, last, run, creating, cancelling, calm, history>>
    BY DEF TurnDown, NoRecipients, MoveNextRun, TaskDies, rows
  <1>2. /\ schedule' \in [Campaigns -> {"none", "on", "off"}]
        /\ \A c \in Campaigns : schedule[c] # "none" => schedule'[c] # "none"
    <2>1. schedule \in [Campaigns -> {"none", "on", "off"}]
      BY DEF CampaignsInv, TypeOK
    <2>2. CASE UNCHANGED schedule
      BY <2>1, <2>2
    <2>3. CASE schedule' = [schedule EXCEPT ![Of(t)] = "off"]
      BY <2>1, <2>3
    <2> QED BY <2>2, <2>3 DEF TurnDown, NoRecipients, MoveNextRun, TaskDies, sched
  <1>3. due' \in [Campaigns -> BOOLEAN]
    <2>1. due \in [Campaigns -> BOOLEAN]
      BY DEF CampaignsInv, TypeOK
    <2>2. CASE UNCHANGED due
      BY <2>1, <2>2
    <2>3. CASE due' = [due EXCEPT ![Of(t)] = FALSE]
      BY <2>1, <2>3
    <2> QED BY <2>2, <2>3 DEF TurnDown, NoRecipients, MoveNextRun, TaskDies, sched
  <1>4. TypeOK'
    <2>1. TypeOK
      BY DEF CampaignsInv
    <2> QED BY <1>1, <1>2, <1>3, <2>1, LeaveTypes DEF TypeOK, history
  <1>5. Grows
    BY <1>1, <1>2, Counts DEF Grows, history, CampaignsInv
  <1>6. \A c \in Campaigns : RowIsKnown(c)'
    <2> SUFFICES ASSUME NEW c \in Campaigns PROVE RowIsKnown(c)'
      OBVIOUS
    <2>1. presses[c] <= presses'[c]
      BY <1>1, Counts DEF CampaignsInv, history
    <2> QED BY <1>1, <1>4, <1>5, <2>1, RowStays DEF history
  <1> QED BY <1>1, <1>4, <1>5, <1>6, LeaveStep DEF history

\* A recurring send goes on to move the schedule.
LEMMA MoveStep ==
  ASSUME CampaignsInv, NEW t \in Tasks, pc[t] \in {"send", "save"},
         pc' = [pc EXCEPT ![t] = "move"], UNCHANGED <<job, issued, presses, batches>>,
         TypeOK', Grows, \A c \in Campaigns : RowIsKnown(c)'
  PROVE  CampaignsInv'
PROOF
  <1>1. pc'[t] = "move" /\ \A u \in Tasks \ {t} : pc'[u] = pc[u]
    BY DEF CampaignsInv, TypeOK
  <1>2. \A u \in Tasks : CopyIsKnown(u)'
    <2>1. CopyIsKnown(t)'
      <3>1. /\ job[t] \in Jobs /\ job[t].campaign \in Campaigns
            /\ job[t].run # NoRun => job[t].run <= issued[job[t].campaign]
            /\ job[t].kind = "recurring" => schedule[job[t].campaign] # "none"
            /\ job[t].last = "api_accepted" => batches[job[t].campaign] # {}
        BY InHand DEF Of, Copy
      <3>2. job[t].kind = "recurring" => schedule'[job[t].campaign] # "none"
        BY <3>1 DEF Grows
      <3> QED BY <1>1, <3>1, <3>2 DEF CopyIsKnown, Busy
    <2> QED BY <1>1, <2>1, CopyStays
  <1>3. OnePress'
    BY <1>1 DEF CampaignsInv, OnePress, Busy
  <1> QED BY <1>2, <1>3 DEF CampaignsInv

LEMMA NoRecipientsStep ==
  ASSUME CampaignsInv, NEW t \in Tasks, NoRecipients(t)
  PROVE  CampaignsInv'
PROOF
  <1>1. CASE Leave(t)
    BY <1>1, DropStep
  <1>2. CASE ~Leave(t)
    <2>1. /\ pc[t] = "send" /\ pc' = [pc EXCEPT ![t] = "move"] /\ UNCHANGED job
          /\ UNCHANGED <<type, rows, sched, creating, cancelling, history, calm>>
      BY <1>2 DEF NoRecipients
    <2>2. TypeOK'
      BY <2>1 DEF CampaignsInv, TypeOK, rows, sched, history
    <2>3. Grows
      BY <2>1, Counts DEF Grows, history, sched, CampaignsInv
    <2>4. \A c \in Campaigns : RowIsKnown(c)'
      BY <2>1 DEF CampaignsInv, RowIsKnown, rows, sched, history
    <2> QED BY <2>1, <2>2, <2>3, <2>4, MoveStep DEF history
  <1> QED BY <1>1, <1>2

\* A copy that is saved brings back an issued run, and an accepted result that
\* has its batch.
LEMMA RowsSaved ==
  ASSUME CampaignsInv, NEW t \in Tasks, pc[t] # "idle", TypeOK',
         run' = [run EXCEPT ![Of(t)] = Copy(t).run],
         last' = [last EXCEPT ![Of(t)] = Copy(t).last],
         UNCHANGED <<schedule, issued, presses, batches>>
  PROVE  Grows /\ \A c \in Campaigns : RowIsKnown(c)'
PROOF
  <1>1. Grows
    BY Counts DEF Grows, CampaignsInv
  <1>2. ASSUME NEW c \in Campaigns
        PROVE  RowIsKnown(c)'
    <2>1. /\ Copy(t).run # NoRun => Copy(t).run <= issued[Of(t)]
          /\ Copy(t).last = "api_accepted" => batches[Of(t)] # {}
      BY InHand
    <2>2. /\ run'[c] = IF c = Of(t) THEN Copy(t).run ELSE run[c]
          /\ last'[c] = IF c = Of(t) THEN Copy(t).last ELSE last[c]
      BY DEF CampaignsInv, TypeOK
    <2> QED BY <2>1, <2>2 DEF CampaignsInv, RowIsKnown
  <1> QED BY <1>1, <1>2

LEMMA SaveResultStep ==
  ASSUME CampaignsInv, NEW t \in Tasks, SaveResult(t)
  PROVE  CampaignsInv'
PROOF
  <1>1. /\ pc[t] = "save"
        /\ run' = [run EXCEPT ![Of(t)] = Copy(t).run]
        /\ last' = [last EXCEPT ![Of(t)] = Copy(t).last]
        /\ UNCHANGED <<type, status, schedule, due, creating, cancelling, calm>>
        /\ UNCHANGED <<edits, issued, presses, batches>>
    BY DEF SaveResult, sched, history
  <1>2. \/ Leave(t)
        \/ pc' = [pc EXCEPT ![t] = "move"] /\ UNCHANGED job
    BY DEF SaveResult
  <1>3. TypeOK'
    <2>0. TypeOK
      BY DEF CampaignsInv
    <2>1. run' \in [Campaigns -> RunIds \cup {NoRun}] /\ last' \in [Campaigns -> SendStatuses]
      BY <1>1, <2>0, InHand DEF TypeOK
    <2>2. /\ pc' \in [Tasks -> {"idle", "send", "save", "move", "write"}]
          /\ job' \in [Tasks -> Jobs \cup {NoJob}]
      BY <1>2, <2>0, LeaveTypes DEF TypeOK
    <2> QED BY <1>1, <2>0, <2>1, <2>2 DEF TypeOK
  <1>4. Grows /\ \A c \in Campaigns : RowIsKnown(c)'
    BY <1>1, <1>3, RowsSaved
  <1>5. CASE Leave(t)
    BY <1>1, <1>3, <1>4, <1>5, LeaveStep
  <1>6. CASE pc' = [pc EXCEPT ![t] = "move"] /\ UNCHANGED job
    BY <1>1, <1>3, <1>4, <1>6, MoveStep
  <1> QED BY <1>2, <1>5, <1>6

LEMMA WriteBackStep ==
  ASSUME CampaignsInv, NEW t \in Tasks, WriteBack(t)
  PROVE  CampaignsInv'
PROOF
  <1>1. /\ pc[t] = "write" /\ Leave(t)
        /\ status' = [status EXCEPT ![Of(t)] = Copy(t).status]
        /\ run' = [run EXCEPT ![Of(t)] = Copy(t).run]
        /\ last' = [last EXCEPT ![Of(t)] = Copy(t).last]
        /\ \E s \in Types : type' = [type EXCEPT ![Of(t)] = s]
        /\ UNCHANGED <<schedule, due, creating, cancelling, calm>>
        /\ UNCHANGED <<edits, issued, presses, batches>>
    BY DEF WriteBack, sched, history
  <1>2. TypeOK'
    <2>0. TypeOK
      BY DEF CampaignsInv
    <2>1. /\ run' \in [Campaigns -> RunIds \cup {NoRun}] /\ last' \in [Campaigns -> SendStatuses]
          /\ status' \in [Campaigns -> Statuses]
      <3>1. /\ Copy(t).run \in RunIds \cup {NoRun} /\ Copy(t).last \in SendStatuses
            /\ Copy(t).status \in Statuses
        BY <1>1, <2>0, InHand, ZenonT(30)
      <3> QED BY <1>1, <2>0, <3>1 DEF TypeOK
    <2>2. type' \in [Campaigns -> Types]
      BY <1>1, <2>0, ZenonT(30) DEF TypeOK
    <2> QED BY <1>1, <2>0, <2>1, <2>2, LeaveTypes DEF TypeOK
  <1>3. Grows /\ \A c \in Campaigns : RowIsKnown(c)'
    BY <1>1, <1>2, RowsSaved
  <1> QED BY <1>1, <1>2, <1>3, LeaveStep

-----------------------------------------------------------------------------
(* Sending. *)

\* The id a task sends under is the campaign's own, one that was issued, or the
\* next; only a due schedule or a press makes the next one.
LEMMA RunIdIsKnown ==
  ASSUME CampaignsInv, NEW t \in Tasks, pc[t] = "send"
  PROVE  /\ RunId(t) \in RunIds /\ RunId(t) <= issued[Of(t)] + 1
         /\ RunId(t) > issued[Of(t)] =>
              \/ schedule[Of(t)] # "none"
              \/ Copy(t).kind = "now" /\ presses[Of(t)] < MaxPresses
PROOF
  <1> DEFINE c == Of(t)
  <1>0. /\ c \in Campaigns /\ Copy(t).run \in RunIds \cup {NoRun}
        /\ Copy(t).run # NoRun => Copy(t).run <= issued[c]
        /\ Copy(t).kind = "recurring" => schedule[c] # "none"
    BY InHand
  <1>1. issued[c] \in RunIds /\ issued[c] \in Nat /\ presses[c] \in Nat
    BY <1>0, Counts DEF CampaignsInv, TypeOK
  <1>2. schedule[c] = "none" => issued[c] <= presses[c]
    BY <1>0 DEF CampaignsInv, RowIsKnown
  <1>3. Copy(t).kind = "now" => presses[c] < MaxPresses
    BY DEF CampaignsInv, OnePress, Copy, Of
  <1>4. CASE Copy(t).kind \in {"recurring", "now"}
    <2>1. RunId(t) = NewRunId(c)
      BY <1>4 DEF RunId
    <2>2. NewRunId(c) = issued[c] \/ NewRunId(c) = issued[c] + 1
      BY DEF NewRunId
    <2>3. NewRunId(c) = issued[c] + 1 =>
            \/ schedule[c] # "none" /\ issued[c] < MaxRuns
            \/ schedule[c] = "none" /\ issued[c] < MaxPresses
      <3>1. CASE schedule[c] # "none"
        BY <3>1, <1>1, CampaignsAssumption DEF NewRunId
      <3>2. CASE schedule[c] = "none"
        BY <3>2, <1>0, <1>1, <1>2, <1>3, <1>4, CampaignsAssumption
      <3> QED BY <3>1, <3>2
    <2>4. NewRunId(c) \in RunIds
      BY <1>1, <2>2, <2>3, CampaignsAssumption DEF RunIds
    <2> QED BY <1>0, <1>1, <1>3, <1>4, <2>1, <2>2, <2>4
  <1>5. CASE Copy(t).kind \notin {"recurring", "now"}
    <2>1. RunId(t) = IF Copy(t).run = NoRun THEN 0 ELSE Copy(t).run
      BY <1>5 DEF RunId, Base
    <2>2. 0 \in RunIds
      BY CampaignsAssumption DEF RunIds
    <2>3. RunId(t) \in RunIds /\ RunId(t) <= issued[c]
      BY <1>0, <1>1, <2>1, <2>2
    <2> QED BY <1>1, <2>3, RunIdsAreNumbers
  <1> QED BY <1>4, <1>5

\* What Send changes, for the answer it got.
LEMMA SendChanges ==
  ASSUME CampaignsInv, NEW t \in Tasks, Send(t)
  PROVE  \E answer \in Answers, taken \in BOOLEAN :
           /\ answer = "api_accepted" => taken
           /\ batches' = IF taken THEN [batches EXCEPT ![Of(t)] = @ \cup {RunId(t)}] ELSE batches
           /\ job'[t] \in Jobs
           /\ job'[t].kind = Copy(t).kind /\ job'[t].campaign = Of(t)
           /\ job'[t].run = RunId(t) /\ job'[t].last = answer
           /\ \A u \in Tasks \ {t} : job'[u] = job[u]
           /\ job' \in [Tasks -> Jobs \cup {NoJob}]
PROOF
  <1>1. PICK answer \in Answers, taken \in BOOLEAN :
          /\ answer = "api_accepted" => taken
          /\ batches' = IF taken THEN [batches EXCEPT ![Of(t)] = @ \cup {RunId(t)}] ELSE batches
          /\ job' = [job EXCEPT ![t].run = RunId(t), ![t].last = answer,
                                 ![t].status = "scheduled"]
    BY DEF Send, Post
  <1>2. job \in [Tasks -> Jobs \cup {NoJob}] /\ job[t] \in Jobs
    BY InHand DEF CampaignsInv, TypeOK, Send
  <1>3. RunId(t) \in RunIds
    BY RunIdIsKnown DEF Send
  <1> DEFINE new == [[[job[t] EXCEPT !.run = RunId(t)] EXCEPT !.last = answer]
                      EXCEPT !.status = "scheduled"]
  <1>4. /\ new.kind = job[t].kind /\ new.campaign = job[t].campaign
        /\ new.run = RunId(t) /\ new.last = answer
    BY <1>2 DEF Jobs
  <1>5. new \in Jobs
    BY <1>2, <1>3 DEF Jobs, Answers, SendStatuses, Statuses
  <1>6. job'[t] = new /\ \A u \in Tasks \ {t} : job'[u] = job[u]
    BY <1>1, <1>2
  <1>7. job' \in [Tasks -> Jobs \cup {NoJob}]
    <2>1. job' = [job EXCEPT ![t] = new]
      BY <1>1, <1>2
    <2> HIDE DEF new
    <2> QED BY <1>2, <1>5, <2>1
  <1> HIDE DEF new
  <1>8. /\ job'[t] \in Jobs /\ job'[t].kind = Copy(t).kind /\ job'[t].campaign = Of(t)
        /\ job'[t].run = RunId(t) /\ job'[t].last = answer
    BY <1>4, <1>5, <1>6 DEF Copy, Of
  <1> QED BY <1>1, <1>6, <1>7, <1>8

LEMMA SendStep ==
  ASSUME CampaignsInv, NEW t \in Tasks, Send(t)
  PROVE  CampaignsInv'
PROOF
  <1> DEFINE c == Of(t)
  <1> DEFINE id == RunId(t)
  <1>0. /\ TypeOK /\ OnePress /\ pc[t] = "send" /\ c \in Campaigns
        /\ UNCHANGED <<type, status, last, run, schedule, due, creating, cancelling>>
        /\ UNCHANGED <<edits, calm>>
    BY InHand DEF CampaignsInv, Send, rows, sched
  <1>1. PICK answer \in Answers, taken \in BOOLEAN :
          /\ answer = "api_accepted" => taken
          /\ batches' = IF taken THEN [batches EXCEPT ![c] = @ \cup {id}] ELSE batches
          /\ job'[t] \in Jobs
          /\ job'[t].kind = Copy(t).kind /\ job'[t].campaign = c
          /\ job'[t].run = id /\ job'[t].last = answer
          /\ \A u \in Tasks \ {t} : job'[u] = job[u]
          /\ job' \in [Tasks -> Jobs \cup {NoJob}]
    BY SendChanges
  <1>2. /\ id \in RunIds /\ id \in Nat /\ id <= issued[c] + 1
        /\ id > issued[c] => \/ schedule[c] # "none"
                             \/ Copy(t).kind = "now" /\ presses[c] < MaxPresses
    BY <1>0, RunIdIsKnown, RunIdsAreNumbers
  <1>3. Copy(t).kind = "now" => presses[c] < MaxPresses
    BY <1>0 DEF OnePress, Copy, Of
  <1> HIDE DEF id
  <1>4. /\ issued' = [issued EXCEPT ![c] = IF id > issued[c] THEN id ELSE issued[c]]
        /\ presses' = [presses EXCEPT ![c] =
             IF Copy(t).kind = "now" /\ schedule[c] = "none" THEN presses[c] + 1 ELSE presses[c]]
        /\ pc' = [pc EXCEPT ![t] = "save"]
    BY DEF Send, id
  <1>5. /\ pc'[t] = "save" /\ \A u \in Tasks \ {t} : pc'[u] = pc[u]
        /\ pc' \in [Tasks -> {"idle", "send", "save", "move", "write"}]
    BY <1>0, <1>4 DEF TypeOK
  <1>6. /\ issued' \in [Campaigns -> RunIds]
        /\ issued'[c] = IF id > issued[c] THEN id ELSE issued[c]
        /\ \A d \in Campaigns \ {c} : issued'[d] = issued[d]
    BY <1>0, <1>2, <1>4 DEF TypeOK
  <1>7. /\ presses' \in [Campaigns -> 0..MaxPresses]
        /\ presses'[c] = IF Copy(t).kind = "now" /\ schedule[c] = "none"
                         THEN presses[c] + 1 ELSE presses[c]
        /\ \A d \in Campaigns \ {c} : presses'[d] = presses[d]
    <2>1. presses \in [Campaigns -> 0..MaxPresses]
      BY <1>0 DEF TypeOK
    <2>2. (IF Copy(t).kind = "now" /\ schedule[c] = "none"
             THEN presses[c] + 1 ELSE presses[c]) \in 0..MaxPresses
      BY <1>0, <1>3, <2>1, CampaignsAssumption
    <2> QED BY <1>0, <1>4, <2>1, <2>2
  <1>8. /\ batches' \in [Campaigns -> SUBSET RunIds]
        /\ batches'[c] = IF taken THEN batches[c] \cup {id} ELSE batches[c]
        /\ \A d \in Campaigns \ {c} : batches'[d] = batches[d]
    BY <1>0, <1>1, <1>2 DEF TypeOK
  <1>9. TypeOK'
    BY <1>0, <1>1, <1>5, <1>6, <1>7, <1>8 DEF TypeOK
  <1>10. Grows
    <2> SUFFICES ASSUME NEW d \in Campaigns
                 PROVE  issued[d] <= issued'[d] /\ batches[d] \subseteq batches'[d]
      BY <1>0 DEF Grows
    <2>1. issued[d] \in Nat
      BY <1>0, Counts
    <2> QED BY <1>2, <1>6, <1>8, <2>1
  <1>11. \A u \in Tasks : CopyIsKnown(u)'
    <2>1. CopyIsKnown(t)'
      <3>1. id <= issued'[c]
        BY <1>0, <1>2, <1>6, Counts
      <3>2. Copy(t).kind = "recurring" => schedule'[c] # "none"
        BY <1>0, InHand
      <3>3. answer = "api_accepted" => batches'[c] # {}
        BY <1>1, <1>8
      <3> QED BY <1>1, <1>5, <3>1, <3>2, <3>3 DEF CopyIsKnown, Busy
    <2> QED BY <1>1, <1>5, <1>9, <1>10, <2>1, CopyStays
  <1>12. ASSUME NEW d \in Campaigns
         PROVE  RowIsKnown(d)'
    <2>0. RowIsKnown(d) /\ issued[d] \in Nat /\ presses[d] \in Nat
      BY <1>0, Counts DEF CampaignsInv
    <2>1. CASE d # c
      BY <1>0, <1>6, <1>7, <1>8, <2>0, <2>1 DEF RowIsKnown
    <2>2. CASE d = c
      <3>1. run'[d] # NoRun => run'[d] <= issued'[d]
        <4>1. run[d] \in RunIds \cup {NoRun} /\ run'[d] = run[d]
          BY <1>0, Counts
        <4>2. issued'[d] \in Nat /\ issued[d] <= issued'[d]
          BY <1>2, <1>6, <2>0, <2>2
        <4>3. run[d] # NoRun => run[d] \in Nat /\ run[d] <= issued[d]
          BY <2>0, <4>1, RunIdsAreNumbers DEF RowIsKnown
        <4> QED BY <2>0, <4>1, <4>2, <4>3
      <3>2. batches'[d] \subseteq 0..issued'[d]
        <4>1. 0..issued[d] \subseteq 0..issued'[d] /\ id \in 0..issued'[d]
          BY <1>2, <1>6, <2>0, <2>2
        <4> QED BY <1>8, <2>0, <2>2, <4>1 DEF RowIsKnown
      <3>3. schedule'[d] = "none" => issued'[d] <= presses'[d]
        BY <1>0, <1>2, <1>6, <1>7, <2>0, <2>2 DEF RowIsKnown
      <3>4. last'[d] = "api_accepted" => batches'[d] # {}
        BY <1>0, <1>8, <2>0, <2>2 DEF RowIsKnown
      <3> QED BY <3>1, <3>2, <3>3, <3>4 DEF RowIsKnown
    <2> QED BY <2>1, <2>2
  <1>13. OnePress'
    <2>1. \A u, w \in Tasks :
            (pc'[u] # "idle" /\ pc'[w] # "idle" /\ job'[u].kind = "now" /\ job'[w].kind = "now")
              => u = w
      BY <1>0, <1>1, <1>5 DEF OnePress, Busy, Copy
    <2>2. ASSUME NEW u \in Tasks, pc'[u] = "send", job'[u].kind = "now"
          PROVE  presses'[job'[u].campaign] < MaxPresses
      <3>1. u # t /\ pc[u] = "send" /\ job[u].kind = "now" /\ job'[u] = job[u]
        BY <1>1, <1>5, <2>2
      <3>2. Copy(t).kind # "now"
        BY <1>0, <3>1 DEF OnePress, Busy, Copy
      <3>3. job[u].campaign \in Campaigns /\ presses[job[u].campaign] < MaxPresses
        BY <1>0, <3>1, InHand DEF OnePress, Of
      <3> QED BY <1>7, <3>1, <3>2, <3>3
    <2> QED BY <2>1, <2>2 DEF OnePress, Busy
  <1> QED BY <1>9, <1>11, <1>12, <1>13 DEF CampaignsInv

-----------------------------------------------------------------------------
(* The theorems. *)

LEMMA CampaignsInvNext == CampaignsInv /\ [Next]_vars => CampaignsInv'
PROOF
  <1> SUFFICES ASSUME CampaignsInv, [Next]_vars PROVE CampaignsInv'
    OBVIOUS
  <1>1. ASSUME NEW t \in Tasks, Work(t)
        PROVE  CampaignsInv'
    <2>1. CASE TurnDown(t) \/ MoveNextRun(t)
      BY <2>1, DropStep DEF TurnDown, MoveNextRun
    <2>2. CASE Send(t)
      BY <2>2, SendStep
    <2>3. CASE SaveResult(t)
      BY <2>3, SaveResultStep
    <2>4. CASE WriteBack(t)
      BY <2>4, WriteBackStep
    <2> QED BY <1>1, <2>1, <2>2, <2>3, <2>4 DEF Work
  <1>2. ASSUME NEW t \in Tasks, TaskDies(t)
        PROVE  CampaignsInv'
    BY <1>2, DropStep DEF TaskDies
  <1> QED BY <1>1, <1>2, NoRecipientsStep, StartStep, ManageStep, RestStep DEF Next

THEOREM CampaignsInvariant == Spec => []CampaignsInv
PROOF BY CampaignsInvInit, CampaignsInvNext, PTL DEF Spec

\* The fields of a campaign, of a task and of what a task copied keep their
\* kinds, and the bounds on edits, presses and ids are never passed.
THEOREM CampaignsTyped == Spec => []TypeOK
PROOF BY CampaignsInvariant, PTL DEF CampaignsInv

\* Ids that a campaign without a schedule was sent under are the campaign's own
\* and one for each press (send_campaign_notifications, send_now): at most
\* 1 + presses of them, whichever tasks overlapped, died or saved a stale copy.
THEOREM NoUnaskedBatch == Spec => []OneBatchPerDecision
PROOF
  <1>1. CampaignsInv => OneBatchPerDecision
    <2> SUFFICES ASSUME CampaignsInv, NEW c \in Campaigns, schedule[c] = "none"
                 PROVE  Cardinality(batches[c]) <= 1 + presses[c]
      BY DEF OneBatchPerDecision
    <2>1. issued[c] \in Nat /\ presses[c] \in Nat
      BY Counts DEF CampaignsInv
    <2>2. batches[c] \subseteq 0..issued[c] /\ issued[c] <= presses[c]
      BY DEF CampaignsInv, RowIsKnown
    <2>3. IsFiniteSet(0..issued[c]) /\ Cardinality(0..issued[c]) = issued[c] + 1
      <3>1. 0 \in Int /\ issued[c] \in Int /\ 0 <= issued[c]
        BY <2>1
      <3>2. /\ IsFiniteSet(0..issued[c])
            /\ Cardinality(0..issued[c]) = IF 0 > issued[c] THEN 0 ELSE issued[c] - 0 + 1
        BY <3>1, FS_Interval, ZenonT(30)
      <3> QED BY <3>1, <3>2
    <2>4. /\ Cardinality(batches[c]) <= Cardinality(0..issued[c])
          /\ Cardinality(batches[c]) \in Nat
      BY <2>2, <2>3, FS_Subset, FS_CardinalityType
    <2> QED BY <2>1, <2>2, <2>3, <2>4
  <1> QED BY <1>1, CampaignsInvariant, PTL

\* What the panel shows as accepted was accepted under some request id, also when
\* an editor saved a copy that had read the result of another task
\* (send_campaign_notifications, CampaignForm.save).
THEOREM AcceptedWasTaken == Spec => []AcceptedHasBatch
PROOF
  <1>1. CampaignsInv => AcceptedHasBatch
    BY DEF CampaignsInv, RowIsKnown, AcceptedHasBatch
  <1> QED BY <1>1, CampaignsInvariant, PTL
=============================================================================
