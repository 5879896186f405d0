-------------------------- MODULE NotificationApiProofs --------------------------
(***************************************************************************)
(* What holds of NotificationApi for any number of processes, requests,    *)
(* users, connections and calls.  By way of Kafka: a request behind the    *)
(* committed offset is answered, a text that is published is the one that  *)
(* was saved, and a status of the worker stays.  By way of the websocket:  *)
(* whoever stays connected gets the message.                               *)
(***************************************************************************)
EXTENDS NotificationApi, ConsumerLoopProofs

-----------------------------------------------------------------------------
(* The render stage.                                                       *)
(*                                                                         *)
(* A row is never taken back, and its text is the one it was inserted      *)
(* with; what was published stays published.  So what a process has seen   *)
(* of the row of the record in hand still holds when it acts on it, and    *)
(* what one process has answered no other can undo.                        *)

StoreTypeOK ==
  /\ row \in [Notifications -> {"absent", "pending", "skipped", "settled"}]
  /\ saved \in [Notifications -> Texts \cup {NoDraft}]
  /\ logStatus \in [Notifications -> {"absent", "api"} \cup WorkerStatuses]
  /\ ready \in [Notifications -> SUBSET Texts]
  /\ unlogged \subseteq Notifications
  /\ rivals \subseteq Notifications

DraftTypeOK == draft \in [Workers -> Texts \cup {NoDraft}]

RenderTyped == LoopTyped /\ StoreTypeOK /\ DraftTypeOK

WithText == {"pending", "settled"}

\* A row that a text belongs to has it, and before there is a row nothing is
\* published.
RowHasText ==
  \A n \in Notifications :
    /\ row[n] \in WithText => saved[n] \in Texts
    /\ row[n] = "absent" => ready[n] = {}

\* What the step of a process says of the record in hand.
StepKnows(w) ==
  /\ pc[w] \in HandlerSteps => InHand(w) \in Notifications
  /\ pc[w] = "resume" => row[InHand(w)] \in WithText
  /\ pc[w] = "save" => draft[w] \in Texts
  /\ pc[w] = "publish" =>
       /\ row[InHand(w)] # "absent" /\ draft[w] \in Texts
       /\ draft[w] = saved[InHand(w)] \/ InHand(w) \in rivals

Settled(r) == Answered(r) \/ r \in rivals

\* A process commits an answered record only, and goes on to the next record of
\* its batch only after the commit.
BehindIsSettled(w) ==
  /\ pc[w] \in Committing => Settled(InHand(w))
  /\ pc[w] = "rejectLog" => InHand(w) \in dlq
  /\ \A i \in 1..pos[w] : Settled(log[i]) \/ (Busy(w) /\ i = pos[w])

RenderInv ==
  /\ RowHasText /\ PublishedIsSaved /\ CommittedIsAnswered
  /\ \A w \in Workers : StepKnows(w) /\ BehindIsSettled(w)

\* What a step may do to the rows, the published texts and the DLQ.
Grows ==
  /\ dlq \subseteq dlq' /\ rivals \subseteq rivals'
  /\ \A n \in Notifications :
       /\ ready[n] \subseteq ready'[n]
       /\ row[n] # "absent" => saved'[n] = saved[n]
       /\ row'[n] = row[n] \/ row[n] = "absent" \/ (row[n] = "pending" /\ row'[n] = "settled")

LEMMA SettledStays ==
  ASSUME StoreTypeOK, Grows, NEW r \in Records, Settled(r)
  PROVE  Settled(r)'
<1>1. CASE r \in dlq \cup rivals
  BY <1>1 DEF Grows, Settled, Answered
<1>2. CASE r \in Notifications /\ row[r] \in {"skipped", "settled"}
  BY <1>2 DEF Grows, Settled, Answered
<1>3. CASE r \in Notifications /\ row[r] = "pending" /\ ready[r] # {}
  <2>1. row'[r] \in WithText /\ ready'[r] # {}
    BY <1>3 DEF Grows, WithText
  <2> QED BY <1>3, <2>1 DEF Settled, Answered, WithText
<1> QED BY <1>1, <1>2, <1>3 DEF Settled, Answered

\* What a process knows outlives the steps of others.
LEMMA KnowledgeStays ==
  ASSUME RenderTyped, Grows, NEW v \in Workers, StepKnows(v), BehindIsSettled(v),
         pc'[v] = pc[v], pos'[v] = pos[v], draft'[v] = draft[v],
         \A i \in 1..Len(log) : log'[i] = log[i]
  PROVE  StepKnows(v)' /\ BehindIsSettled(v)'
<1> USE DEF RenderTyped, LoopTyped
<1>0. pos[v] \in Nat /\ pos[v] <= Len(log) /\ \A i \in 1..Len(log) : log[i] \in Records
  BY DEF TaskTypeOK, SharedTypeOK, InsideBatch
<1>1. \A r \in Records : Settled(r) => Settled(r)'
  BY SettledStays
<1>2. CASE Busy(v)
  <2>1. InHand(v)' = InHand(v) /\ InHand(v) \in Records
    BY <1>2, InHandIsRecord DEF InHand
  <2>2. StepKnows(v)'
    <3>1. pc[v] \in HandlerSteps => InHand(v) \in Notifications
      BY DEF StepKnows
    <3>2. pc[v] \in {"resume", "publish"} => InHand(v) \in Notifications
      BY <3>1, RenderAssumption
    <3> QED
      BY <2>1, <3>1, <3>2 DEF StepKnows, Grows, WithText
  <2>3. Settled(InHand(v)) => Settled(InHand(v))'
    BY <1>1, <2>1 DEF Settled, Answered
  <2>4. ASSUME NEW i \in 1..pos[v]
        PROVE  (Settled(log[i]) \/ (Busy(v) /\ i = pos[v]))'
    <3>1. log'[i] = log[i] /\ log[i] \in Records
      BY <1>0
    <3>2. Settled(log[i]) => Settled(log[i])'
      BY <1>1, <3>1 DEF Settled, Answered
    <3> QED BY <3>2 DEF BehindIsSettled, Busy
  <2> QED
    BY <2>1, <2>2, <2>3, <2>4 DEF BehindIsSettled, Grows
<1>3. CASE ~Busy(v)
  <2>1. StepKnows(v)' /\ pc'[v] = "idle"
    BY <1>3, RenderAssumption DEF StepKnows, Busy
  <2>2. ASSUME NEW i \in 1..pos[v]
        PROVE  Settled(log[i])'
    <3>1. log'[i] = log[i] /\ log[i] \in Records
      BY <1>0
    <3> QED BY <1>1, <1>3, <3>1 DEF BehindIsSettled, Settled, Answered
  <2> QED
    BY <2>1, <2>2 DEF BehindIsSettled, Committing
<1> QED BY <1>2, <1>3

\* Nothing is known of a record whose handler is to be called (again), nor of one
\* that the process has let go.
LEMMA RetryKnowsNothing ==
  ASSUME RenderTyped, Grows, NEW w \in Workers, Busy(w), BehindIsSettled(w), log' = log,
         StepsTo(w, Retrying) \/ (Ends(w) /\ pos'[w] = 0)
  PROVE  StepKnows(w)' /\ BehindIsSettled(w)'
<1>1. pc'[w] \notin HandlerSteps \cup Committing
  BY RenderAssumption DEF StepsTo, Ends, Retrying, Committing
<1>2. CASE pos'[w] = 0
  BY <1>1, <1>2, RenderAssumption DEF StepKnows, BehindIsSettled
<1>3. CASE StepsTo(w, Retrying)
  <2>1. ASSUME NEW i \in 1..pos[w], i # pos[w]
        PROVE  Settled(log[i])'
    <3>1. log[i] \in Records /\ Settled(log[i])
      BY <2>1 DEF BehindIsSettled, RenderTyped, LoopTyped, TaskTypeOK, SharedTypeOK, InsideBatch
    <3>2. \A r \in Records : Settled(r) => Settled(r)'
      BY SettledStays DEF RenderTyped
    <3> QED BY <3>1, <3>2 DEF Settled, Answered
  <2>2. Busy(w)'
    BY <1>3 DEF StepsTo, Retrying, Busy
  <2> QED
    BY <1>1, <1>3, <2>1, <2>2, RenderAssumption DEF StepKnows, BehindIsSettled, StepsTo
<1> QED BY <1>2, <1>3 DEF Ends

\* The records before the one in hand stay settled on the way through the handler.
LEMMA BehindStays ==
  ASSUME RenderTyped, Grows, NEW w \in Workers, Busy(w), BehindIsSettled(w), log' = log,
         pc'[w] # "idle", pos'[w] = pos[w]
  PROVE  \A i \in 1..pos[w] : (Settled(log[i]) \/ (Busy(w) /\ i = pos[w]))'
<1> SUFFICES ASSUME NEW i \in 1..pos[w], i # pos[w]
             PROVE  Settled(log[i])'
  BY DEF Busy
<1>1. log[i] \in Records /\ Settled(log[i])
  BY DEF BehindIsSettled, RenderTyped, LoopTyped, TaskTypeOK, SharedTypeOK, InsideBatch
<1>2. \A r \in Records : Settled(r) => Settled(r)'
  BY SettledStays DEF RenderTyped
<1> QED BY <1>1, <1>2 DEF Settled, Answered

-----------------------------------------------------------------------------
(* The handler. *)

\* The INSERT: the row is there afterwards, with this text or a rival's.
LEMMA InsertStep ==
  ASSUME StoreTypeOK, RowHasText, PublishedIsSaved, NEW n \in Notifications,
         NEW s \in {"pending", "skipped"}, NEW text \in Texts \cup {NoDraft},
         s = "pending" => text \in Texts, Insert(n, s, text), UNCHANGED <<ready, dlq>>
  PROVE  /\ Grows /\ RowHasText' /\ PublishedIsSaved'
         /\ (row \in [Notifications -> {"absent", "pending", "skipped", "settled"}])'
         /\ (saved \in [Notifications -> Texts \cup {NoDraft}])'
         /\ rivals' \subseteq Notifications
         /\ row'[n] # "absent"
         /\ n \notin rivals' => row'[n] = s /\ saved'[n] = text
<1>1. CASE row[n] = "absent"
  <2>1. /\ row' = [row EXCEPT ![n] = s] /\ saved' = [saved EXCEPT ![n] = text] /\ rivals' = rivals
        /\ ready[n] = {}
    BY <1>1 DEF Insert, RowHasText
  <2> QED
    BY <1>1, <2>1 DEF StoreTypeOK, Grows, RowHasText, PublishedIsSaved, WithText
<1>2. CASE row[n] # "absent"
  <2>1. row' = row /\ saved' = saved /\ rivals' = rivals \cup {n}
    BY <1>2 DEF Insert
  <2> QED
    BY <1>2, <2>1 DEF StoreTypeOK, Grows, RowHasText, PublishedIsSaved
<1> QED BY <1>1, <1>2

LEMMA HandleStays ==
  ASSUME NEW w \in Workers, Handle(w)
  PROVE  Busy(w) /\ UNCHANGED <<kafkaVars, unlogged>>
BY DEF Handle, RejectMalformed, ReadStatus, ResumePending, Profile, Render, RecordSkip, Save, Store,
       PublishReady, RejectDlq, RejectLog, renderVars, kafkaVars, Busy

\* Every step of the handler goes on to a step of its own, to a commit, or fails.
LEMMA HandleTask ==
  ASSUME RenderTyped, NEW w \in Workers, Handle(w)
  PROVE  /\ OthersStay(w) /\ TaskTypeOK' /\ InsideBatch'
<1> USE DEF RenderTyped, LoopTyped
<1>1. Busy(w) /\ log' = log /\ log \in Seq(Records)
  BY HandleStays DEF kafkaVars, SharedTypeOK
<1>2. Fail(w) \/ \E step \in HandlerSteps \cup Committing : Advance(w, step)
  BY RenderAssumption
  DEF Handle, RejectMalformed, ReadStatus, ResumePending, Profile, Render, RecordSkip, Save, Store,
      PublishReady, RejectDlq, RejectLog, Committing
<1>3. CASE Fail(w)
  BY <1>1, <1>3, FailTyped, FailMoves
<1>4. ASSUME NEW step \in HandlerSteps \cup Committing, Advance(w, step)
      PROVE  OthersStay(w) /\ TaskTypeOK' /\ InsideBatch'
  <2>1. step \in LoopSteps \cup HandlerSteps
    BY DEF Committing, LoopSteps
  <2> QED BY <1>1, <1>4, <2>1, AdvanceTyped, AdvanceMoves
<1> QED BY <1>2, <1>3, <1>4

\* What is true of the texts and the rows after any step of the handler.
RowsAgree ==
  /\ StoreTypeOK' /\ DraftTypeOK' /\ SharedTypeOK' /\ Grows /\ RowHasText' /\ PublishedIsSaved'

LEMMA SameRowsAgree ==
  ASSUME StoreTypeOK, RowHasText, PublishedIsSaved, SharedTypeOK, DraftTypeOK',
         UNCHANGED <<kafkaVars, storeVars, unlogged>>, dlq \subseteq dlq', dlq' \subseteq Records
  PROVE  RowsAgree
BY DEF StoreTypeOK, RowHasText, PublishedIsSaved, SharedTypeOK, kafkaVars, storeVars, RowsAgree, Grows

LEMMA SetLogTyped ==
  ASSUME StoreTypeOK, NEW n \in Notifications, NEW s \in WorkerStatuses, SetLog(n, s)
  PROVE  (logStatus \in [Notifications -> {"absent", "api"} \cup WorkerStatuses])'
BY DEF StoreTypeOK, SetLog

LEMMA HandleRows ==
  ASSUME RenderTyped, RenderInv, NEW w \in Workers, Handle(w)
  PROVE  RowsAgree /\ \A v \in Workers \ {w} : draft'[v] = draft[v]
<1> DEFINE n == InHand(w)
           Goal == RowsAgree /\ \A v \in Workers \ {w} : draft'[v] = draft[v]
<1> USE DEF RenderTyped, LoopTyped
<1>0. /\ RowHasText /\ PublishedIsSaved /\ StepKnows(w)
      /\ n \in Records /\ UNCHANGED <<kafkaVars, unlogged>>
  BY HandleStays, InHandIsRecord DEF RenderInv
<1>a. dlq \subseteq Records
  BY DEF SharedTypeOK
<1>b. ASSUME NEW text \in Texts \cup {NoDraft}, Take(w, text)
      PROVE  DraftTypeOK' /\ \A v \in Workers \ {w} : draft'[v] = draft[v]
  BY <1>b DEF Take, DraftTypeOK
<1>1. CASE RejectMalformed(w) \/ ReadStatus(w) \/ Profile(w) \/ RejectDlq(w)
  <2>1. UNCHANGED renderVars /\ dlq \subseteq dlq' /\ dlq' \subseteq Records
    BY <1>0, <1>1, <1>a DEF RejectMalformed, ReadStatus, Profile, RejectDlq
  <2> QED
    BY <1>0, <2>1, SameRowsAgree DEF renderVars, storeVars, DraftTypeOK
<1>2. CASE ResumePending(w) \/ Render(w)
  <2>1. pc[w] \in {"resume", "template"} /\ n \in Notifications
    BY <1>0, <1>2, RenderAssumption DEF ResumePending, Render, StepKnows
  <2>2. UNCHANGED <<dlq, storeVars>> /\ \E text \in Texts \cup {NoDraft} : Take(w, text)
    BY <1>2, <2>1 DEF ResumePending, Render, Rendered, Forget, StoreTypeOK
  <2> QED
    BY <1>0, <1>a, <1>b, <2>2, SameRowsAgree
<1>3. ASSUME NEW s \in {"pending", "skipped"}, NEW text \in Texts \cup {NoDraft},
             s = "pending" => text \in Texts,
             NEW logged \in WorkerStatuses, NEW next, Store(w, s, text, logged, next),
             n \in Notifications
      PROVE  Goal
  <2>1. DraftTypeOK' /\ \A v \in Workers \ {w} : draft'[v] = draft[v]
    BY <1>3, <1>b DEF Store, Forget, DraftTypeOK
  <2>2. UNCHANGED <<dlq, ready>>
    BY <1>3 DEF Store
  <2>3. CASE UNCHANGED <<row, saved, logStatus, rivals>>
    BY <1>0, <1>a, <2>1, <2>2, <2>3, SameRowsAgree DEF storeVars
  <2>4. CASE Insert(n, s, text) /\ SetLog(n, logged)
    <3>1. /\ Grows /\ RowHasText' /\ PublishedIsSaved'
          /\ (row \in [Notifications -> {"absent", "pending", "skipped", "settled"}])'
          /\ (saved \in [Notifications -> Texts \cup {NoDraft}])'
          /\ rivals' \subseteq Notifications
      BY <1>0, <1>3, <2>2, <2>4, InsertStep
    <3>2. (logStatus \in [Notifications -> {"absent", "api"} \cup WorkerStatuses])'
      BY <1>3, <2>4, SetLogTyped
    <3>3. StoreTypeOK'
      BY <1>0, <2>2, <3>1, <3>2 DEF StoreTypeOK
    <3>4. SharedTypeOK'
      BY <1>0, <2>2 DEF SharedTypeOK, kafkaVars
    <3> QED BY <2>1, <3>1, <3>3, <3>4 DEF RowsAgree
  <2> QED BY <1>3, <2>3, <2>4 DEF Store
<1>4. CASE RecordSkip(w)
  <2>1. n \in Notifications
    BY <1>0, <1>4, RenderAssumption DEF RecordSkip, StepKnows
  <2> QED BY <1>3, <1>4, <2>1 DEF RecordSkip, WorkerStatuses
<1>5. CASE Save(w)
  <2>1. n \in Notifications /\ draft[w] \in Texts
    BY <1>0, <1>5, RenderAssumption DEF Save, StepKnows
  <2> QED BY <1>3, <1>5, <2>1 DEF Save, WorkerStatuses
<1>6. CASE PublishReady(w)
  <2>1. n \in Notifications /\ row[n] # "absent" /\ draft[w] \in Texts
        /\ (draft[w] = saved[n] \/ n \in rivals)
    BY <1>0, <1>6, RenderAssumption DEF PublishReady, StepKnows
  <2>2. UNCHANGED <<dlq, row, saved, logStatus, rivals>>
    BY <1>6 DEF PublishReady
  <2>3. ready' = ready \/ ready' = [ready EXCEPT ![n] = @ \cup {draft[w]}]
    BY <1>6 DEF PublishReady
  <2>4. ready' \in [Notifications -> SUBSET Texts]
    BY <2>1, <2>3 DEF StoreTypeOK
  <2>5. \A m \in Notifications : ready[m] \subseteq ready'[m]
                                 /\ (m # n => ready'[m] = ready[m])
                                 /\ ready'[m] \subseteq ready[m] \cup {draft[w]}
    BY <2>1, <2>3 DEF StoreTypeOK
  <2>6. StoreTypeOK' /\ SharedTypeOK'
    BY <1>0, <2>2, <2>4 DEF StoreTypeOK, SharedTypeOK, kafkaVars
  <2>7. Grows /\ RowHasText' /\ PublishedIsSaved'
    BY <1>0, <2>1, <2>2, <2>5 DEF Grows, RowHasText, PublishedIsSaved
  <2>8. DraftTypeOK' /\ \A v \in Workers \ {w} : draft'[v] = draft[v]
    BY <1>6, <1>b DEF PublishReady, Forget
  <2> QED BY <2>6, <2>7, <2>8 DEF RowsAgree
<1>7. CASE RejectLog(w)
  <2>1. n \in Notifications
    BY <1>0, <1>7, RenderAssumption DEF RejectLog, StepKnows
  <2>2. UNCHANGED <<dlq, row, saved, ready, draft, rivals>>
    BY <1>7 DEF RejectLog
  <2>3. (logStatus \in [Notifications -> {"absent", "api"} \cup WorkerStatuses])'
    BY <1>7, <2>1, SetLogTyped DEF RejectLog, StoreTypeOK, WorkerStatuses
  <2>4. StoreTypeOK' /\ SharedTypeOK' /\ DraftTypeOK'
    BY <1>0, <2>2, <2>3 DEF StoreTypeOK, SharedTypeOK, DraftTypeOK, kafkaVars
  <2> QED
    BY <1>0, <2>2, <2>4 DEF RowsAgree, Grows, RowHasText, PublishedIsSaved
<1> QED
  BY <1>1, <1>2, <1>4, <1>5, <1>6, <1>7 DEF Handle

\* A process that goes on knows what it has read or written, and commits what it
\* has answered.
LEMMA HandleKnows ==
  ASSUME RenderTyped, RenderInv, NEW w \in Workers, Handle(w)
  PROVE  StepKnows(w)' /\ BehindIsSettled(w)'
<1> DEFINE n == InHand(w)
           Goal == StepKnows(w)' /\ BehindIsSettled(w)'
<1> USE DEF RenderTyped, LoopTyped
<1>0. /\ Busy(w) /\ log' = log /\ n \in Records
      /\ StepKnows(w) /\ BehindIsSettled(w) /\ RowHasText
      /\ Grows /\ StoreTypeOK'
  BY HandleStays, HandleRows, InHandIsRecord DEF RenderInv, kafkaVars, RowsAgree
<1>1. CASE Fail(w)
  BY <1>0, <1>1, FailMoves, RetryKnowsNothing
<1>2. ASSUME NEW step \in HandlerSteps \cup Committing, Advance(w, step)
      PROVE  /\ pc'[w] = step /\ InHand(w)' = n
             /\ \A i \in 1..pos[w] : (Settled(log[i]) \/ (Busy(w) /\ i = pos[w]))'
             /\ pos'[w] = pos[w]
  <2>1. StepsTo(w, {step}) /\ step # "idle"
    BY <1>2, AdvanceMoves, RenderAssumption DEF Committing
  <2> QED
    BY <1>0, <2>1, BehindStays DEF StepsTo, InHand
<1>3. ASSUME NEW step \in HandlerSteps \cup Committing, Advance(w, step),
             step \in HandlerSteps => n \in Notifications,
             step = "resume" => row'[n] \in WithText,
             step = "save" => draft'[w] \in Texts,
             step = "publish" =>
               /\ row'[n] # "absent" /\ draft'[w] \in Texts
               /\ draft'[w] = saved'[n] \/ n \in rivals',
             step = "rejectLog" => n \in dlq',
             step \in Committing =>
               \/ n \in dlq' \cup rivals'
               \/ /\ n \in Notifications
                  /\ row'[n] \in {"skipped", "settled"} \/ (row'[n] = "pending" /\ ready'[n] # {})
      PROVE  Goal
  <2>1. /\ pc'[w] = step /\ InHand(w)' = n /\ pos'[w] = pos[w]
        /\ \A i \in 1..pos[w] : (Settled(log[i]) \/ (Busy(w) /\ i = pos[w]))'
    BY <1>2, <1>3
  <2>2. StepKnows(w)'
    BY <1>3, <2>1 DEF StepKnows
  <2>3. step \in Committing => Settled(InHand(w))'
    BY <1>3, <2>1 DEF Settled, Answered
  <2> QED
    BY <1>3, <2>1, <2>2, <2>3 DEF BehindIsSettled
<1> HIDE DEF n, Goal
<1>n. /\ n = InHand(w)
      /\ pc[w] \in HandlerSteps => n \in Notifications
  BY <1>0 DEF n, StepKnows
<1>4. CASE RejectMalformed(w)
  <2>1. Fail(w) \/ (Advance(w, "commitSkip") /\ n \in dlq')
    BY <1>4, <1>n DEF RejectMalformed
  <2> QED BY <1>1, <1>3, <2>1, RenderAssumption DEF Committing, Goal
<1>5. CASE ReadStatus(w)
  <2>1. n \in Notifications /\ UNCHANGED renderVars
    BY <1>5, <1>n DEF ReadStatus
  <2>2. row[n] \in {"absent", "pending", "skipped", "settled"}
    BY <2>1 DEF StoreTypeOK
  <2>3. \/ Fail(w)
        \/ row[n] = "pending" /\ Advance(w, "resume")
        \/ Advance(w, "profile")
        \/ row[n] \in {"skipped", "settled"} /\ Advance(w, "commit")
    BY <1>5, <1>n, <2>2 DEF ReadStatus
  <2> QED
    BY <1>1, <1>3, <2>1, <2>3, RenderAssumption DEF Committing, WithText, renderVars, Goal
<1>6. CASE ResumePending(w)
  <2>1. n \in Notifications /\ row[n] \in WithText /\ UNCHANGED storeVars
    BY <1>0, <1>6, <1>n, RenderAssumption DEF ResumePending, StepKnows
  <2>2. \/ Fail(w)
        \/ Advance(w, "reject")
        \/ Advance(w, "publish") /\ draft'[w] = saved[n]
    BY <1>6, <1>n DEF ResumePending, Take, DraftTypeOK
  <2>3. saved[n] \in Texts /\ row[n] # "absent"
    BY <1>0, <2>1 DEF RowHasText, WithText
  <2> QED
    BY <1>1, <1>3, <2>1, <2>2, <2>3, RenderAssumption DEF Committing, storeVars, Goal
<1>7. CASE Profile(w)
  <2>1. n \in Notifications
    BY <1>7, <1>n, RenderAssumption DEF Profile
  <2>2. Fail(w) \/ \E step \in {"reject", "template", "skip"} : Advance(w, step)
    BY <1>7 DEF Profile
  <2> QED BY <1>1, <1>3, <2>1, <2>2, RenderAssumption DEF Committing, Goal
<1>8. CASE Render(w)
  <2>1. n \in Notifications
    BY <1>8, <1>n, RenderAssumption DEF Render
  <2>2. \/ Fail(w)
        \/ Advance(w, "reject")
        \/ Advance(w, "save") /\ draft'[w] \in Texts
    BY <1>8 DEF Render, Rendered, Take, DraftTypeOK
  <2> QED BY <1>1, <1>3, <2>1, <2>2, RenderAssumption DEF Committing, Goal
<1>9. CASE RecordSkip(w)
  <2>1. n \in Notifications
    BY <1>9, <1>n, RenderAssumption DEF RecordSkip
  <2>2. Fail(w) \/ (Advance(w, "commit") /\ Insert(n, "skipped", NoDraft) /\ UNCHANGED <<ready, dlq>>)
    BY <1>9, <1>n DEF RecordSkip, Store
  <2>3. CASE Advance(w, "commit") /\ Insert(n, "skipped", NoDraft) /\ UNCHANGED <<ready, dlq>>
    <3>1. n \in rivals' \/ row'[n] = "skipped"
      BY <2>1, <2>3, InsertStep DEF RenderInv
    <3> QED BY <1>3, <2>1, <2>3, <3>1, RenderAssumption DEF Committing, Goal
  <2> QED BY <1>1, <2>2, <2>3 DEF Goal
<1>10. CASE Save(w)
  <2>1. n \in Notifications /\ draft[w] \in Texts
    BY <1>0, <1>10, <1>n, RenderAssumption DEF Save, StepKnows
  <2>2. \/ Fail(w)
        \/ /\ Advance(w, "publish") /\ Insert(n, "pending", draft[w])
           /\ UNCHANGED <<ready, dlq, draft>>
    BY <1>10, <1>n DEF Save, Store
  <2>3. CASE /\ Advance(w, "publish") /\ Insert(n, "pending", draft[w])
             /\ UNCHANGED <<ready, dlq, draft>>
    <3>1. row'[n] # "absent" /\ (n \in rivals' \/ saved'[n] = draft[w])
      BY <2>1, <2>3, InsertStep DEF RenderInv
    <3> QED BY <1>3, <2>1, <2>3, <3>1, RenderAssumption DEF Committing, Goal
  <2> QED BY <1>1, <2>2, <2>3 DEF Goal
<1>11. CASE PublishReady(w)
  <2>1. n \in Notifications /\ row[n] # "absent"
    BY <1>0, <1>11, <1>n, RenderAssumption DEF PublishReady, StepKnows
  <2>2. Fail(w) \/ (Advance(w, "commit") /\ row' = row /\ ready'[n] # {})
    BY <1>11, <1>n, <2>1 DEF PublishReady, StoreTypeOK
  <2>3. row[n] \in {"pending", "skipped", "settled"}
    BY <2>1 DEF StoreTypeOK
  <2> QED BY <1>1, <1>3, <2>1, <2>2, <2>3, RenderAssumption DEF Committing, Goal
<1>12. CASE RejectDlq(w)
  <2>1. n \in Notifications
    BY <1>12, <1>n, RenderAssumption DEF RejectDlq
  <2>2. Fail(w) \/ (Advance(w, "rejectLog") /\ n \in dlq')
    BY <1>12, <1>n DEF RejectDlq
  <2> QED BY <1>1, <1>3, <2>1, <2>2, RenderAssumption DEF Committing, Goal
<1>13. CASE RejectLog(w)
  <2>1. n \in dlq /\ dlq' = dlq
    BY <1>0, <1>13, <1>n DEF RejectLog, BehindIsSettled
  <2>2. Fail(w) \/ Advance(w, "commitSkip")
    BY <1>13 DEF RejectLog
  <2> QED BY <1>1, <1>3, <2>1, <2>2, RenderAssumption DEF Committing, Goal
<1> QED
  BY <1>4, <1>5, <1>6, <1>7, <1>8, <1>9, <1>10, <1>11, <1>12, <1>13 DEF Handle, Goal

-----------------------------------------------------------------------------
(* Every step. *)

LEMMA SameStore ==
  ASSUME UNCHANGED <<storeVars, dlq>>
  PROVE  Grows
BY DEF Grows, storeVars

\* The commits that a process still knows of others are enough for the offset.
LEMMA OffsetStays ==
  ASSUME RenderTyped, RenderInv, Grows, NEW w \in Workers, OffsetMoves(w),
         \A i \in 1..Len(log) : log'[i] = log[i]
  PROVE  CommittedIsAnswered'
<1> USE DEF RenderTyped, LoopTyped
<1>1. \A r \in Records : Settled(r) => Settled(r)'
  BY SettledStays
<1>2. ASSUME NEW i \in 1..committed'
      PROVE  i \in 1..Len(log) /\ Settled(log[i])
  <2>1. CASE committed' = committed
    BY <1>2, <2>1 DEF RenderInv, CommittedIsAnswered, Settled, SharedTypeOK
  <2>2. CASE pc[w] \in Committing /\ committed' = pos[w]
    <3>1. pos[w] \in 1..Len(log)
      BY <2>2, InHandIsRecord DEF Committing, Busy
    <3>2. Settled(log[i]) \/ i = pos[w]
      BY <1>2, <2>2 DEF RenderInv, BehindIsSettled
    <3> QED
      BY <1>2, <2>2, <3>1, <3>2 DEF RenderInv, BehindIsSettled, InHand, SharedTypeOK
  <2> QED BY <2>1, <2>2 DEF OffsetMoves
<1>3. ASSUME NEW i \in 1..committed'
      PROVE  (Answered(log[i]) \/ log[i] \in rivals)'
  <2>1. log'[i] = log[i] /\ log[i] \in Records /\ Settled(log[i])
    BY <1>2 DEF SharedTypeOK
  <2> QED BY <1>1, <2>1 DEF Settled, Answered
<1> QED BY <1>3 DEF CommittedIsAnswered

LEMMA RenderHandle ==
  ASSUME RenderTyped, RenderInv, NEW w \in Workers, Handle(w)
  PROVE  RenderTyped' /\ RenderInv'
<1>1. /\ RowsAgree /\ OthersStay(w) /\ TaskTypeOK' /\ InsideBatch'
      /\ \A v \in Workers \ {w} : draft'[v] = draft[v]
      /\ log' = log /\ committed' = committed
      /\ StepKnows(w)' /\ BehindIsSettled(w)'
  BY HandleRows, HandleTask, HandleKnows, HandleStays DEF kafkaVars
<1>2. ASSUME NEW v \in Workers, v # w
      PROVE  StepKnows(v)' /\ BehindIsSettled(v)'
  BY <1>1, <1>2, KnowledgeStays DEF RenderInv, RowsAgree, OthersStay
<1>3. CommittedIsAnswered'
  BY <1>1, OffsetStays DEF OffsetMoves, RowsAgree
<1> QED
  BY <1>1, <1>2, <1>3 DEF RenderTyped, LoopTyped, RenderInv, RowsAgree

LEMMA RenderLoop ==
  ASSUME RenderTyped, RenderInv, NEW w \in Workers, Loop(w)
  PROVE  RenderTyped' /\ RenderInv'
<1> USE DEF RenderTyped
<1>1. /\ LoopStep(w) /\ UNCHANGED <<storeVars, unlogged>>
      /\ DraftTypeOK' /\ \A v \in Workers \ {w} : draft'[v] = draft[v]
  BY DEF Loop, LoopStep, renderVars, storeVars, Forget, Take, DraftTypeOK
<1>2. /\ LoopTyped' /\ OthersStay(w) /\ TaskMoves(w) /\ OffsetMoves(w)
      /\ log' = log /\ dlq \subseteq dlq'
  BY <1>1, LoopStepTyped, LoopStepMoves
<1>3. Grows
  BY <1>1, <1>2 DEF Grows, storeVars
<1>4. StoreTypeOK' /\ RowHasText' /\ PublishedIsSaved'
  BY <1>1 DEF StoreTypeOK, RenderInv, RowHasText, PublishedIsSaved, storeVars
<1>5. CommittedIsAnswered'
  BY <1>2, <1>3, OffsetStays
<1>6. ASSUME NEW v \in Workers, v # w
      PROVE  StepKnows(v)' /\ BehindIsSettled(v)'
  BY <1>1, <1>2, <1>3, <1>6, KnowledgeStays DEF RenderInv, OthersStay
<1>7. StepKnows(w)' /\ BehindIsSettled(w)'
  <2>0. StepKnows(w) /\ BehindIsSettled(w)
    BY DEF RenderInv
  <2>a. \A r \in Records : Settled(r) => Settled(r)'
    BY <1>3, SettledStays
  <2>b. ASSUME NEW i \in 1..Len(log), Settled(log[i])
        PROVE  Settled(log[i])'
    <3>1. log[i] \in Records /\ log'[i] = log[i]
      BY <1>2 DEF LoopTyped, SharedTypeOK
    <3> QED BY <2>a, <2>b, <3>1 DEF Settled, Answered
  <2>c. pos[w] \in Nat /\ pos[w] <= Len(log) /\ committed \in 0..Len(log)
    BY DEF LoopTyped, TaskTypeOK, SharedTypeOK, InsideBatch
  <2>1. CASE pc'[w] = "idle"
    <3>1. ASSUME NEW i \in 1..pos'[w]
          PROVE  Settled(log[i])'
      <4>1. i \in 1..Len(log) /\ Settled(log[i])
        <5>1. CASE pos'[w] = 0
          BY <5>1
        <5>2. CASE pc[w] \in Committing /\ pos'[w] = pos[w]
          BY <2>0, <2>c, <5>2 DEF BehindIsSettled, InHand
        <5>3. CASE ~Busy(w) /\ pos'[w] \in {pos[w], committed}
          BY <2>0, <2>c, <5>3 DEF BehindIsSettled, RenderInv, CommittedIsAnswered, Settled
        <5> QED
          BY <1>2, <2>1, <5>1, <5>2, <5>3, RenderAssumption
          DEF TaskMoves, StepsTo, Busy, Retrying
      <4> QED BY <2>b, <4>1
    <3> QED
      BY <2>1, <3>1, RenderAssumption DEF StepKnows, BehindIsSettled, Committing
  <2>2. CASE Busy(w) /\ StepsTo(w, {pc[w]})
    <3>1. CASE draft'[w] = draft[w]
      BY <1>2, <1>3, <2>0, <2>2, <3>1, KnowledgeStays DEF StepsTo
    <3>2. CASE draft'[w] # draft[w]
      BY <1>1, <2>2, <3>2
      DEF Loop, renderVars, Crash, Exit, Goto, Forget, StepsTo, Busy, LoopTyped, TaskTypeOK
    <3> QED BY <3>1, <3>2
  <2>3. CASE Busy(w) /\ StepsTo(w, Retrying)
    BY <1>2, <1>3, <2>0, <2>3, RetryKnowsNothing
  <2>4. CASE pc[w] = "giveUp" /\ StepsTo(w, {"commitSkip"}) /\ InHand(w) \in dlq'
    <3>1. InHand(w)' \in dlq' /\ pc'[w] = "commitSkip" /\ pos'[w] = pos[w] /\ Busy(w)
      BY <1>2, <2>4 DEF StepsTo, InHand, Busy
    <3>2. \A i \in 1..pos[w] : (Settled(log[i]) \/ (Busy(w) /\ i = pos[w]))'
      BY <1>2, <1>3, <2>0, <3>1, BehindStays
    <3> QED
      BY <3>1, <3>2, RenderAssumption DEF StepKnows, BehindIsSettled, Settled, Answered
  <2>5. CASE ~Busy(w) /\ pc'[w] = "handle" /\ pos'[w] = pos[w] + 1
    <3>1. Busy(w)'
      BY <2>5 DEF Busy
    <3>2. ASSUME NEW i \in 1..pos[w]
          PROVE  Settled(log[i])'
      BY <2>0, <2>b, <2>c, <2>5 DEF BehindIsSettled
    <3> QED
      BY <2>c, <2>5, <3>1, <3>2, RenderAssumption DEF StepKnows, BehindIsSettled, Committing
  <2> QED
    BY <1>2, <2>1, <2>2, <2>3, <2>4, <2>5
    DEF TaskMoves, Ends, StepsTo, Busy, Retrying
<1> QED
  BY <1>2, <1>1, <1>4, <1>5, <1>6, <1>7 DEF RenderInv

LEMMA RenderEnvironment ==
  ASSUME RenderTyped, RenderInv, Environment
  PROVE  RenderTyped' /\ RenderInv'
<1> USE DEF RenderTyped
<1>0. /\ UNCHANGED <<pc, pos, draft, committed>>
  BY DEF Environment, ApiPublish, ApiPersist, EmailStage, CancelCampaign, Append1, loopVars, taskVars
<1>1. LoopTyped' /\ \A i \in 1..Len(log) : log'[i] = log[i]
  <2>1. ASSUME NEW r \in Records, Append1(r)
        PROVE  LoopTyped' /\ \A i \in 1..Len(log) : log'[i] = log[i]
    BY <2>1, AppendTyped
  <2>2. CASE UNCHANGED loopVars
    BY <2>2, LoopStutterTyped DEF loopVars
  <2> QED
    BY <2>1, <2>2 DEF Environment, ApiPublish, ApiPersist, EmailStage, CancelCampaign
<1>2. StoreTypeOK' /\ Grows /\ RowHasText' /\ PublishedIsSaved'
  <2>0. StoreTypeOK /\ RowHasText /\ PublishedIsSaved
    BY DEF RenderInv
  <2>1. ASSUME NEW r \in Records, ApiPublish(r)
        PROVE  StoreTypeOK' /\ Grows /\ RowHasText' /\ PublishedIsSaved'
    BY <2>0, <2>1
    DEF ApiPublish, Append1, loopVars, storeVars, StoreTypeOK, Grows, RowHasText, PublishedIsSaved
  <2>2. ASSUME NEW m \in Notifications, ApiPersist(m)
        PROVE  StoreTypeOK' /\ Grows /\ RowHasText' /\ PublishedIsSaved'
    <3>1. (logStatus \in [Notifications -> {"absent", "api"} \cup WorkerStatuses])'
      BY <2>0, <2>2 DEF ApiPersist, ApiUpsert, StoreTypeOK
    <3>2. UNCHANGED <<dlq, row, saved, ready, rivals>> /\ unlogged' \subseteq unlogged
      BY <2>2 DEF ApiPersist, loopVars
    <3> QED
      BY <2>0, <3>1, <3>2 DEF StoreTypeOK, Grows, RowHasText, PublishedIsSaved
  <2>3. ASSUME NEW m \in Notifications, EmailStage(m) \/ CancelCampaign(m)
        PROVE  StoreTypeOK' /\ Grows /\ RowHasText' /\ PublishedIsSaved'
    <3>1. (logStatus \in [Notifications -> {"absent", "api"} \cup WorkerStatuses])'
      BY <2>0, <2>3, SetLogTyped DEF EmailStage, CancelCampaign, StoreTypeOK, WorkerStatuses
    <3>2. /\ UNCHANGED <<dlq, saved, ready, rivals, unlogged>>
          /\ row[m] = "pending" /\ row' = [row EXCEPT ![m] = "settled"]
      BY <2>3 DEF EmailStage, CancelCampaign, loopVars
    <3> QED
      BY <2>0, <3>1, <3>2 DEF StoreTypeOK, Grows, RowHasText, PublishedIsSaved, WithText
  <2> QED BY <2>1, <2>2, <2>3 DEF Environment
<1>3. ASSUME NEW v \in Workers
      PROVE  StepKnows(v)' /\ BehindIsSettled(v)'
  BY <1>0, <1>1, <1>2, KnowledgeStays DEF RenderInv
<1>4. CommittedIsAnswered'
  <2>1. PICK w \in Workers : TRUE
    BY LoopAssumption
  <2> QED BY <1>0, <1>1, <1>2, <2>1, OffsetStays DEF OffsetMoves
<1>5. DraftTypeOK'
  BY <1>0 DEF DraftTypeOK
<1> QED BY <1>1, <1>2, <1>3, <1>4, <1>5 DEF RenderInv

LEMMA RenderInit == Init => RenderTyped /\ RenderInv
<1> SUFFICES ASSUME Init PROVE RenderTyped /\ RenderInv
  OBVIOUS
<1>1. LoopTyped /\ log = <<>> /\ committed = 0 /\ pc = [w \in Workers |-> "idle"]
      /\ pos = [w \in Workers |-> 0]
  BY LoopInitTyped DEF Init, LoopInit
<1>2. StoreTypeOK /\ DraftTypeOK /\ RowHasText /\ PublishedIsSaved
  BY DEF Init, StoreTypeOK, DraftTypeOK, RowHasText, PublishedIsSaved, WithText
<1>3. CommittedIsAnswered /\ \A w \in Workers : StepKnows(w) /\ BehindIsSettled(w)
  BY <1>1, RenderAssumption DEF CommittedIsAnswered, StepKnows, BehindIsSettled, Committing
<1> QED BY <1>1, <1>2, <1>3 DEF RenderTyped, RenderInv

LEMMA RenderStutter == RenderTyped /\ RenderInv /\ UNCHANGED vars => RenderTyped' /\ RenderInv'
<1> SUFFICES ASSUME RenderTyped, RenderInv, UNCHANGED vars
             PROVE  RenderTyped' /\ RenderInv'
  OBVIOUS
<1>1. UNCHANGED <<loopVars, row, saved, logStatus, ready, draft, unlogged, rivals>>
  BY DEF vars, renderVars
<1>2. RenderTyped'
  BY <1>1, LoopStutterTyped DEF RenderTyped, StoreTypeOK, DraftTypeOK
<1>3. Grows /\ UNCHANGED <<log, committed, pc, pos>>
  BY <1>1, SameStore DEF storeVars, loopVars
<1>4. ASSUME NEW v \in Workers
      PROVE  StepKnows(v)' /\ BehindIsSettled(v)'
  BY <1>1, <1>3, KnowledgeStays DEF RenderInv
<1>5. CommittedIsAnswered'
  <2>1. PICK w \in Workers : TRUE
    BY LoopAssumption
  <2> QED BY <1>3, <2>1, OffsetStays DEF OffsetMoves
<1> QED
  BY <1>1, <1>2, <1>4, <1>5 DEF RenderInv, RowHasText, PublishedIsSaved

LEMMA RenderNext == RenderTyped /\ RenderInv /\ [ApiNext]_apiVars => RenderTyped' /\ RenderInv'
BY RenderHandle, RenderLoop, RenderEnvironment, RenderStutter
DEF ApiNext, ViaKafka, ViaSocket, Next, apiVars

LEMMA RenderInvariant == ApiSpec => [](RenderTyped /\ RenderInv)
<1>1. ApiInit => RenderTyped /\ RenderInv
  BY RenderInit DEF ApiInit
<1> QED BY <1>1, RenderNext, PTL DEF ApiSpec

\* Whatever process, Kafka or PostgreSQL fails between the save and the
\* publication, a request whose offset is committed was answered, or its row met
\* the row of a process that rendered it at the same time (handle_message,
\* _process_with_retry).
THEOREM NoRequestIsLost == ApiSpec => []CommittedIsAnswered
<1>1. RenderInv => CommittedIsAnswered
  BY DEF RenderInv
<1> QED BY <1>1, RenderInvariant, PTL

\* The email stage gets the text of the row, from the call that saved it as from
\* one that resumes it (_resume_pending), and it finds the row.
THEOREM SavedTextIsPublished == ApiSpec => [](PublishedIsSaved /\ PublishedHasRow)
<1>1. RenderInv => PublishedIsSaved /\ PublishedHasRow
  BY DEF RenderInv, RowHasText, PublishedHasRow
<1> QED BY <1>1, RenderInvariant, PTL

\* No step of the API, of the render stage or of the email stage takes a status of
\* the worker back (update_notification_log_status, _persist_log_entries).
THEOREM WorkerStatusIsKept == ApiSpec => WorkerStatusStays
<1>1. ASSUME RenderTyped, [ApiNext]_apiVars, NEW n \in Notifications,
             logStatus[n] \in WorkerStatuses
      PROVE  logStatus'[n] \in WorkerStatuses
  <2>0. logStatus \in [Notifications -> {"absent", "api"} \cup WorkerStatuses]
    BY <1>1 DEF RenderTyped, StoreTypeOK
  <2>a. ASSUME NEW m, NEW s \in WorkerStatuses, SetLog(m, s)
        PROVE  logStatus'[n] \in WorkerStatuses
    BY <1>1, <2>0, <2>a DEF SetLog
  <2>1. CASE UNCHANGED logStatus
    BY <1>1, <2>1
  <2>2. ASSUME NEW w \in Workers, Handle(w)
        PROVE  logStatus'[n] \in WorkerStatuses
    BY <2>1, <2>2, <2>a
    DEF Handle, RejectMalformed, ReadStatus, ResumePending, Profile, Render, RecordSkip, Save,
        Store, PublishReady, RejectDlq, RejectLog, renderVars, storeVars, WorkerStatuses
  <2>3. ASSUME NEW w \in Workers, Loop(w)
        PROVE  logStatus'[n] \in WorkerStatuses
    BY <2>1, <2>3 DEF Loop, renderVars, storeVars
  <2>4. CASE Environment
    BY <1>1, <2>0, <2>1, <2>4, <2>a
    DEF Environment, ApiPublish, ApiPersist, ApiUpsert, EmailStage, CancelCampaign, storeVars,
        WorkerStatuses
  <2>5. CASE UNCHANGED vars
    BY <2>1, <2>5 DEF vars, renderVars
  <2> QED
    BY <1>1, <2>2, <2>3, <2>4, <2>5 DEF ApiNext, ViaKafka, ViaSocket, Next, apiVars
<1>2. RenderTyped /\ [ApiNext]_apiVars =>
        [\A n \in Notifications :
           logStatus[n] \in WorkerStatuses => logStatus'[n] \in WorkerStatuses]_vars
  BY <1>1
<1> QED BY <1>2, RenderInvariant, PTL DEF ApiSpec, WorkerStatusStays

-----------------------------------------------------------------------------
(* The websocket.                                                          *)
(*                                                                         *)
(* What a call may rely on is that a connection never comes back: one that *)
(* was open when the call came and is open now was in the registry at      *)
(* every moment between, so the copy of send_to_user holds it.             *)

\* A connection that is open is in the registry.
OpenIsRegistered == \A s \in Sockets : socket[s] = "open" => s \in registry[Owner[s]]

Been == {"open", "left", "closed"}

\* What a call knows are connections that will not be opened any more.
KnownHaveBeen ==
  /\ \A u \in Users : \A s \in registry[u] : socket[s] \in Been
  /\ \A c \in Calls : \A s \in call[c].early \cup call[c].connections \cup call[c].done : socket[s] \in Been

\* A recipient's task has copied every connection that the call found open, and
\* that still is.
CopiesAreComplete ==
  \A c \in Calls : \A s \in call[c].early :
    socket[s] = "open" /\ content = "text" /\ call[c].found[Owner[s]] # "unknown"
      => s \in call[c].connections /\ call[c].found[Owner[s]] = "websocket_delivered"

\* The loop has reached the connections it is through with.
DoneAreReached ==
  \A c \in Calls : \A s \in call[c].done : socket[s] = "open" => c \in received[s]

EndedIsThrough ==
  \A c \in Calls : call[c].at = "ended" =>
    /\ call[c].done = call[c].connections
    /\ \A u \in Users : call[c].found[u] # "unknown"

\* A call that has not come yet has looked at nothing.
UncalledIsBlank ==
  \A c \in Calls : call[c].at = "none" =>
    call[c].connections = {} /\ \A u \in Users : call[c].found[u] = "unknown"

\* A row comes from a call.
RowsAreFound ==
  \A u \in Users : instant[u] # "absent" => \E c \in Calls : call[c].found[u] = instant[u]

InstantInv ==
  /\ InstantTypeOK
  /\ OpenIsRegistered /\ KnownHaveBeen /\ CopiesAreComplete
  /\ DoneAreReached /\ EndedIsThrough /\ UncalledIsBlank /\ RowsAreFound

LEMMA InstantInitInv == InstantAssumption /\ InstantInit => InstantInv
  BY DEF InstantAssumption, InstantInit, InstantInv, InstantTypeOK, OpenIsRegistered,
         KnownHaveBeen, CopiesAreComplete, DoneAreReached, EndedIsThrough, UncalledIsBlank,
         RowsAreFound, Found, CallRecords

\* What the steps of a call make of it is a call.
LEMMA CallUpdates ==
  ASSUME NEW r \in CallRecords
  PROVE  /\ \A at \in {"sending", "ended", "died"} : [r EXCEPT !.at = at] \in CallRecords
         /\ \A early \in SUBSET Sockets :
              [r EXCEPT !.at = "sending", !.early = early] \in CallRecords
         /\ \A u \in Users, status \in Found, connections \in SUBSET Sockets :
              [r EXCEPT !.found[u] = status, !.connections = @ \cup connections] \in CallRecords
  BY DEF CallRecords

\* A step of a connection: it opens from "verifying" only, and then it is registered.
LEMMA ConnectionStep ==
  ASSUME InstantAssumption, InstantInv, NEW s \in Sockets,
         Verify(s) \/ Refuse(s) \/ Open(s) \/ Leaves(s) \/ Unregister(s)
  PROVE  InstantInv'
<1> USE DEF InstantAssumption, InstantInv, InstantTypeOK, CallRecords, Goes
<1>0. PICK new \in {"verifying", "open", "left", "closed"} :
        /\ socket' = [socket EXCEPT ![s] = new]
        /\ new \notin Been => socket[s] \notin Been
        /\ new = "open" => socket[s] = "verifying" /\ registry' = [registry EXCEPT ![Owner[s]] = @ \cup {s}]
        /\ new # "open" => registry' = registry \/ registry' = [registry EXCEPT ![Owner[s]] = @ \ {s}]
        /\ UNCHANGED <<content, call, received, instant>>
  BY DEF Verify, Refuse, Open, Leaves, Unregister, Been
<1>1. InstantTypeOK'
  BY <1>0
<1>2. OpenIsRegistered'
  BY <1>0 DEF OpenIsRegistered
<1>3. KnownHaveBeen'
  <2>1. ASSUME NEW r \in Sockets, socket[r] \in Been
        PROVE  socket'[r] \in Been
    BY <1>0, <2>1 DEF Been
  <2>2. ASSUME NEW u \in Users, NEW r \in registry'[u]
        PROVE  r \in registry[u] \/ (r = s /\ socket'[r] = "open")
    BY <1>0, <2>2
  <2>3. ASSUME NEW u \in Users, NEW r \in registry'[u]
        PROVE  socket'[r] \in Been
    BY <2>1, <2>2, <2>3 DEF KnownHaveBeen, Been
  <2>4. ASSUME NEW c \in Calls, NEW r \in call[c].early \cup call[c].connections \cup call[c].done
        PROVE  socket'[r] \in Been
    BY <2>1, <2>4 DEF KnownHaveBeen
  <2> QED
    BY <1>0, <2>3, <2>4 DEF KnownHaveBeen
<1>4. CopiesAreComplete'
  <2> SUFFICES ASSUME NEW c \in Calls, NEW r \in call[c].early, socket'[r] = "open"
               PROVE  socket[r] = "open"
    BY <1>0 DEF CopiesAreComplete
  <2>1. r \in Sockets /\ socket[r] \in Been
    BY DEF KnownHaveBeen
  <2> QED
    BY <1>0, <2>1 DEF Been
<1>5. DoneAreReached'
  <2> SUFFICES ASSUME NEW c \in Calls, NEW r \in call[c].done, socket'[r] = "open"
               PROVE  c \in received[r]
    BY <1>0 DEF DoneAreReached
  <2>1. r \in Sockets /\ socket[r] \in Been
    BY DEF KnownHaveBeen
  <2> QED
    BY <1>0, <2>1 DEF Been, DoneAreReached
<1>6. EndedIsThrough' /\ UncalledIsBlank' /\ RowsAreFound'
  BY <1>0 DEF EndedIsThrough, UncalledIsBlank, RowsAreFound
<1> QED
  BY <1>1, <1>2, <1>3, <1>4, <1>5, <1>6

\* The call comes; what it found open is registered, and nothing is copied yet.
LEMMA PostStep ==
  ASSUME InstantAssumption, InstantInv, NEW c \in Calls, Post(c)
  PROVE  InstantInv'
<1> USE DEF InstantInv, InstantTypeOK, CallRecords
<1>b. /\ call[c].at = "none" /\ call'[c].at = "sending"
      /\ \A d \in Calls \ {c} : call'[d] = call[d]
      /\ call'[c].early = {s \in Sockets : socket[s] = "open"}
      /\ call'[c].connections = call[c].connections
      /\ call'[c].done = call[c].done /\ call'[c].found = call[c].found
      /\ UNCHANGED <<content, socket, registry, received, instant>>
  BY DEF Post, SetCall
<1>1. InstantTypeOK'
  <2>1. [call[c] EXCEPT !.at = "sending", !.early = {s \in Sockets : socket[s] = "open"}] \in CallRecords
    <3> HIDE DEF CallRecords
    <3> QED
      BY CallUpdates
  <2> QED
    BY <2>1 DEF Post, SetCall
<1>2. OpenIsRegistered' /\ DoneAreReached'
  BY <1>b DEF OpenIsRegistered, DoneAreReached
<1>3. EndedIsThrough'
  BY <1>b DEF EndedIsThrough
<1>6. UncalledIsBlank'
  BY <1>b DEF UncalledIsBlank
<1>7. RowsAreFound'
  BY <1>b DEF RowsAreFound
<1>4. KnownHaveBeen'
  BY <1>b DEF KnownHaveBeen, Been
<1>5. CopiesAreComplete'
  <2> SUFFICES ASSUME NEW d \in Calls, NEW s \in call'[d].early, socket[s] = "open",
                      content = "text", call'[d].found[Owner[s]] # "unknown"
               PROVE  /\ s \in call'[d].connections
                      /\ call'[d].found[Owner[s]] = "websocket_delivered"
    BY <1>b DEF CopiesAreComplete
  <2>1. d # c
    BY <1>b DEF UncalledIsBlank, InstantAssumption
  <2> QED
    BY <1>b, <2>1 DEF CopiesAreComplete
<1> QED
  BY <1>1, <1>2, <1>3, <1>4, <1>5, <1>6, <1>7

\* The copy is the registry, which holds every open connection of the recipient.
LEMMA DeliverStep ==
  ASSUME InstantAssumption, InstantInv, NEW c \in Calls, NEW u \in Users, Deliver(c, u)
  PROVE  InstantInv'
<1> DEFINE connections == IF content = "text" THEN registry[u] ELSE {}
           status == IF content # "text" THEN "websocket_text_required"
                     ELSE IF connections = {} THEN "websocket_no_connection"
                     ELSE "websocket_delivered"
<1> USE DEF InstantAssumption, InstantInv, InstantTypeOK, CallRecords
<1>0. /\ call[c].at = "sending" /\ call[c].found[u] = "unknown"
      /\ call' = [call EXCEPT ![c] = [call[c] EXCEPT !.found[u] = status,
                                                     !.connections = @ \cup connections]]
      /\ UNCHANGED <<content, socket, registry, received, instant>>
  BY DEF Deliver, SetCall
<1>a. /\ connections \subseteq registry[u] /\ connections \subseteq Sockets
      /\ status \in Found
      /\ content = "text" => connections = registry[u]
      /\ content = "text" /\ connections # {} => status = "websocket_delivered"
  BY DEF Found
<1> HIDE DEF connections, status
<1>b. /\ \A d \in Calls \ {c} : call'[d] = call[d]
      /\ call'[c].at = "sending" /\ call'[c].early = call[c].early
      /\ call'[c].done = call[c].done
      /\ call'[c].connections = call[c].connections \cup connections
      /\ call'[c].found = [call[c].found EXCEPT ![u] = status]
  BY <1>0
<1>1. InstantTypeOK' /\ OpenIsRegistered'
  <2>1. [call[c] EXCEPT !.found[u] = status, !.connections = @ \cup connections] \in CallRecords
    <3> HIDE DEF CallRecords
    <3> QED
      BY <1>a, CallUpdates
  <2> QED
    BY <1>0, <2>1 DEF OpenIsRegistered
<1>2. DoneAreReached'
  BY <1>0, <1>b DEF DoneAreReached
<1>3. EndedIsThrough'
  BY <1>b DEF EndedIsThrough
<1>4. UncalledIsBlank'
  BY SMTT(30), <1>b DEF UncalledIsBlank
<1>5. KnownHaveBeen'
  BY <1>0, <1>a, <1>b DEF KnownHaveBeen
<1>6. CopiesAreComplete'
  <2> SUFFICES ASSUME NEW d \in Calls, NEW s \in call'[d].early, socket[s] = "open",
                      content = "text", call'[d].found[Owner[s]] # "unknown"
               PROVE  /\ s \in call'[d].connections
                      /\ call'[d].found[Owner[s]] = "websocket_delivered"
    BY <1>0 DEF CopiesAreComplete
  <2>1. s \in Sockets /\ s \in call[d].early
    BY <1>b
  <2>2. CASE d # c \/ Owner[s] # u
    BY <1>b, <2>1, <2>2 DEF CopiesAreComplete
  <2>3. CASE d = c /\ Owner[s] = u
    <3>1. s \in connections
      BY <1>a, <2>1, <2>3 DEF OpenIsRegistered
    <3> QED
      BY <1>a, <1>b, <2>3, <3>1
  <2> QED
    BY <2>2, <2>3
<1>7. RowsAreFound'
  <2> SUFFICES ASSUME NEW v \in Users, instant[v] # "absent"
               PROVE  \E d \in Calls : call'[d].found[v] = instant[v]
    BY <1>0 DEF RowsAreFound
  <2>1. PICK d \in Calls : call[d].found[v] = instant[v]
    BY DEF RowsAreFound
  <2>2. instant[v] # "unknown"
    BY DEF Found
  <2> QED
    BY <1>0, <1>b, <2>1, <2>2
<1> QED
  BY <1>1, <1>2, <1>3, <1>4, <1>5, <1>6, <1>7

\* An open connection is reached; one that is not open never will be again.
LEMMA SendJsonStep ==
  ASSUME InstantInv, NEW c \in Calls, NEW s \in Sockets, SendJson(c, s)
  PROVE  InstantInv'
<1> USE DEF InstantInv, InstantTypeOK, CallRecords
<1>b. /\ s \in call[c].connections
      /\ \A d \in Calls \ {c} : call'[d] = call[d]
      /\ call[c].at = "sending" /\ call'[c].at = "sending"
      /\ call'[c].early = call[c].early /\ call'[c].connections = call[c].connections
      /\ call'[c].done = call[c].done \cup {s} /\ call'[c].found = call[c].found
      /\ received' = IF socket[s] = "open" THEN [received EXCEPT ![s] = @ \cup {c}] ELSE received
      /\ UNCHANGED <<content, socket, registry, instant>>
  BY DEF SendJson, SetCall
<1>1. InstantTypeOK' /\ OpenIsRegistered'
  <2>1. received' \in [Sockets -> SUBSET Calls]
    BY <1>b
  <2>2. call' \in [Calls -> CallRecords]
    <3>1. call \in [Calls -> CallRecords] /\ call[c] \in CallRecords
      OBVIOUS
    <3>2. [call[c] EXCEPT !.done = @ \cup {s}] \in CallRecords
      BY <3>1
    <3> HIDE DEF InstantInv, InstantTypeOK, CallRecords
    <3> QED  BY <3>1, <3>2 DEF SendJson, SetCall
  <2> QED  BY <1>b, <2>1, <2>2 DEF OpenIsRegistered
<1>2. DoneAreReached'
  BY <1>b DEF DoneAreReached
<1>3. EndedIsThrough' /\ UncalledIsBlank'
  BY <1>b DEF EndedIsThrough, UncalledIsBlank
<1>4. KnownHaveBeen'
  BY <1>b DEF KnownHaveBeen
<1>6. CopiesAreComplete'
  BY <1>b DEF CopiesAreComplete
<1>5. RowsAreFound'
  BY <1>b DEF RowsAreFound
<1> QED
  BY <1>1, <1>2, <1>3, <1>4, <1>5, <1>6

\* The rows that are written are what this call found.
LEMMA AnswerStep ==
  ASSUME InstantInv, NEW c \in Calls, Answer(c)
  PROVE  InstantInv'
<1> USE DEF InstantInv, InstantTypeOK, CallRecords
<1>b. /\ call[c].done = call[c].connections /\ \A u \in Users : call[c].found[u] # "unknown"
      /\ \A d \in Calls \ {c} : call'[d] = call[d]
      /\ call'[c].at = "ended" /\ call'[c].early = call[c].early
      /\ call'[c].connections = call[c].connections
      /\ call'[c].done = call[c].done /\ call'[c].found = call[c].found
      /\ instant' = call[c].found \/ instant' = instant
      /\ UNCHANGED <<content, socket, registry, received>>
  BY DEF Answer, SetCall
<1>1. InstantTypeOK'
  <2>1. instant' \in [Users -> Found \cup {"absent"}]
    BY <1>b
  <2>2. [call[c] EXCEPT !.at = "ended"] \in CallRecords
    <3> HIDE DEF CallRecords
    <3> QED
      BY CallUpdates
  <2> QED
    BY <2>1, <2>2 DEF Answer, SetCall
<1>2. OpenIsRegistered' /\ KnownHaveBeen'
  BY <1>b DEF OpenIsRegistered, KnownHaveBeen
<1>6. CopiesAreComplete' /\ DoneAreReached'
  BY SMTT(30), <1>b DEF CopiesAreComplete, DoneAreReached
<1>3. EndedIsThrough'
  BY <1>b DEF EndedIsThrough
<1>5. UncalledIsBlank'
  BY <1>b DEF UncalledIsBlank
<1>4. RowsAreFound'
  BY <1>b DEF RowsAreFound
<1> QED
  BY <1>1, <1>2, <1>3, <1>4, <1>5, <1>6

\* After the end of the process no connection is open.
LEMMA ApiDiesStep ==
  ASSUME InstantInv, ApiDies
  PROVE  InstantInv'
<1> USE DEF InstantInv, InstantTypeOK, CallRecords
<1>b. /\ \A s \in Sockets : socket'[s] # "open" /\ (socket[s] \in Been => socket'[s] \in Been)
      /\ \A u \in Users : registry'[u] = {}
      /\ \A c \in Calls :
           /\ call'[c].at = call[c].at \/ call'[c].at = "died"
           /\ call'[c].early = call[c].early /\ call'[c].connections = call[c].connections
           /\ call'[c].done = call[c].done /\ call'[c].found = call[c].found
      /\ UNCHANGED <<content, received, instant>>
  BY DEF ApiDies, Been
<1>1. InstantTypeOK'
  <2>1. \A c \in Calls : [call[c] EXCEPT !.at = "died"] \in CallRecords
    BY SMTT(30)
  <2> QED
    BY <2>1 DEF ApiDies
<1>2. OpenIsRegistered' /\ CopiesAreComplete' /\ DoneAreReached'
  BY <1>1, <1>b DEF OpenIsRegistered, CopiesAreComplete, DoneAreReached
<1>3. KnownHaveBeen'
  BY <1>b DEF KnownHaveBeen
<1>4. EndedIsThrough'
  BY <1>b DEF EndedIsThrough
<1>5. UncalledIsBlank'
  BY <1>b DEF UncalledIsBlank
<1>6. RowsAreFound'
  BY <1>b DEF RowsAreFound
<1> QED
  BY <1>1, <1>2, <1>3, <1>4, <1>5, <1>6

LEMMA InstantStep ==
  ASSUME InstantAssumption, InstantInv, InstantNext
  PROVE  InstantInv'
  BY ConnectionStep, PostStep, DeliverStep, SendJsonStep, AnswerStep, ApiDiesStep DEF InstantNext

\* The copy of a call that was answered holds every such connection, and its loop
\* has been through it; and its own row says so.
LEMMA InstantInvReached ==
  ASSUME InstantAssumption, InstantInv
  PROVE  OpenIsReached
<1> SUFFICES ASSUME NEW c \in Calls, NEW s \in Sockets, call[c].at = "ended",
                    s \in call[c].early, socket[s] = "open", content = "text"
             PROVE  /\ c \in received[s]
                    /\ instant[Owner[s]] = "websocket_no_connection" =>
                         \E d \in Calls \ {c} : call[d].found[Owner[s]] = "websocket_no_connection"
  BY DEF OpenIsReached
<1>1. Owner[s] \in Users
  BY DEF InstantAssumption
<1>2. s \in call[c].connections /\ call[c].found[Owner[s]] = "websocket_delivered"
  BY <1>1 DEF InstantInv, EndedIsThrough, CopiesAreComplete
<1>3. c \in received[s]
  BY <1>2 DEF InstantInv, EndedIsThrough, DoneAreReached
<1>4. ASSUME instant[Owner[s]] = "websocket_no_connection"
      PROVE  \E d \in Calls \ {c} : call[d].found[Owner[s]] = "websocket_no_connection"
  <2>1. PICK d \in Calls : call[d].found[Owner[s]] = "websocket_no_connection"
    BY <1>1, <1>4 DEF InstantInv, RowsAreFound
  <2> QED
    BY <1>2, <2>1
<1> QED
  BY <1>3, <1>4

LEMMA InstantInvariant == ApiSpec => []InstantInv
<1>1. ApiInit => InstantInv
  BY InstantAssumption, InstantInitInv DEF ApiInit
<1>2. InstantInv /\ [ApiNext]_apiVars => InstantInv'
  <2> SUFFICES ASSUME InstantInv, [ApiNext]_apiVars
               PROVE  InstantInv'
    OBVIOUS
  <2>1. CASE InstantNext
    BY <2>1, InstantAssumption, InstantStep
  <2>2. CASE UNCHANGED instantVars
    BY <2>2 DEF instantVars, InstantInv, InstantTypeOK, OpenIsRegistered, KnownHaveBeen,
                CopiesAreComplete, DoneAreReached, EndedIsThrough, UncalledIsBlank, RowsAreFound
  <2> QED
    BY <2>1, <2>2 DEF ApiNext, ViaKafka, ViaSocket, apiVars
<1> QED
  BY <1>1, <1>2, PTL DEF ApiSpec

\* Whoever is connected when a call comes and stays so gets the message, and the log
\* says it unless another call wrote over it (WebSocketManager, _deliver_websocket).
THEOREM ConnectedGetTheMessage == ApiSpec => []OpenIsReached
<1>1. InstantInv => OpenIsReached
  BY InstantAssumption, InstantInvReached
<1> QED
  BY <1>1, InstantInvariant, PTL

\* Type correctness of both ways, the counters of the retries and pauses included.
THEOREM ApiTypeCorrect == ApiSpec => []ApiTypeOK
<1>1. RenderTyped => TypeOK
  BY LoopTypeParts DEF RenderTyped, LoopTyped, StoreTypeOK, DraftTypeOK, TypeOK
<1>2. InstantInv => InstantTypeOK
  BY DEF InstantInv
<1>3. ApiSpec => [](channel \in {"kafka", "websocket"})
  <2>1. ApiInit => channel \in {"kafka", "websocket"}
    BY DEF ApiInit
  <2>2. channel \in {"kafka", "websocket"} /\ [ApiNext]_apiVars => (channel \in {"kafka", "websocket"})'
    BY DEF ApiNext, apiVars
  <2> QED BY <2>1, <2>2, PTL DEF ApiSpec
<1> QED
  BY <1>1, <1>2, <1>3, RenderInvariant, InstantInvariant, PTL DEF ApiTypeOK
=============================================================================
