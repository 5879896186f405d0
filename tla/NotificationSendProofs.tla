----------------------- MODULE NotificationSendProofs -----------------------
(***************************************************************************)
(* What holds of the email stage and of its SMTP pool for every number of  *)
(* processes, tasks and connections, every set of notifications and every  *)
(* length of the partition, by inductive invariants whose parts are named  *)
(* after the reason they hold.                                             *)
(***************************************************************************)
EXTENDS NotificationSend, SmtpPool, ConsumerLoopProofs, FiniteSetTheorems

-----------------------------------------------------------------------------
(* Type correctness. *)

RowTypeOK ==
  /\ status \in [Notifications -> Statuses]
  /\ claimedBy \in [Notifications -> Attempts \cup {NoAttempt}]
  /\ confirmed \in [Notifications -> BOOLEAN]
  /\ logStatus \in [Notifications -> LogStatuses]
  /\ accepted \in [Notifications -> Nat]
  /\ cancelled \subseteq Notifications

Typed == LoopTyped /\ RowTypeOK

LEMMA LoopIsLoopStep ==
  ASSUME NEW w \in Workers, Loop(w)
  PROVE  LoopStep(w) /\ UNCHANGED sendVars
BY DEF Loop, LoopStep, BeginRecord

LEMMA LoopKeepsTypes ==
  ASSUME Typed, NEW w \in Workers, Loop(w)
  PROVE  Typed'
BY LoopIsLoopStep, LoopStepTyped DEF Typed, RowTypeOK, sendVars

LEMMA HandleKeepsTypes ==
  ASSUME Typed, NEW w \in Workers, Handle(w)
  PROVE  Typed'
<1> USE SendAssumption DEF Typed, LoopTyped
<1>1. Busy(w) /\ InHand(w) \in Records /\ log' = log /\ UNCHANGED kafkaVars
  BY InHandIsRecord
  DEF Handle, Busy, kafkaVars, RejectMalformed, PassOtherChannel, Claim, SendEmail, Confirm,
      RecordSent, RecordFailed, RecordResult, RejectRefused, FlagDlq, FlagLog
<1>2. CASE RejectMalformed(w)
  <2>1. TaskTypeOK' /\ InsideBatch'
    BY <1>1, <1>2, AdvanceTyped, FailTyped DEF RejectMalformed, LoopSteps, SharedTypeOK
  <2> QED BY <1>1, <1>2, <2>1 DEF RejectMalformed, SharedTypeOK, RowTypeOK, kafkaVars, sendVars
<1>3. CASE PassOtherChannel(w)
  <2>1. TaskTypeOK' /\ InsideBatch'
    BY <1>1, <1>3, AdvanceTyped DEF PassOtherChannel, LoopSteps
  <2> QED BY <1>1, <1>3, <2>1 DEF PassOtherChannel, SharedTypeOK, RowTypeOK, kafkaVars, sendVars
<1>4. CASE Claim(w)
  <2> DEFINE n == InHand(w)
             v == Verdict(n, attempt[w])
  <2>1. n \in Notifications /\ attempt[w] \in Attempts \cup {NoAttempt}
    BY <1>4 DEF Claim, TaskTypeOK
  <2>2. PICK o \in DbOutcomes :
          /\ IF o = "failed" THEN UNCHANGED <<rowVars, dlq>> ELSE ClaimWrites(n, attempt[w], v)
          /\ IF o = "done" THEN Advance(w, AfterClaim(v)) ELSE Fail(w)
    BY <1>4 DEF Claim
  <2>3. AfterClaim(v) \in LoopSteps \cup HandlerSteps
    BY DEF AfterClaim, LoopSteps
  <2>4. TaskTypeOK' /\ InsideBatch'
    BY <1>1, <2>2, <2>3, AdvanceTyped, FailTyped DEF SharedTypeOK
  <2>5. UNCHANGED <<accepted, cancelled>>
    BY <1>4 DEF Claim
  <2>6. RowTypeOK'
    BY <2>1, <2>2, <2>5 DEF RowTypeOK, ClaimWrites, rowVars, Statuses, LogStatuses, SetLog
  <2>7. SharedTypeOK'
    BY <1>1, <2>1, <2>2 DEF SharedTypeOK, ClaimWrites, kafkaVars
  <2> QED BY <2>4, <2>6, <2>7
<1>5. CASE SendEmail(w)
  <2>1. TaskTypeOK' /\ InsideBatch'
    BY <1>1, <1>5, AdvanceTyped, FailTyped DEF SendEmail, LoopSteps, SharedTypeOK
  <2>2. (accepted \in [Notifications -> Nat])'
    BY <1>5 DEF SendEmail, RowTypeOK
  <2> QED BY <1>1, <1>5, <2>1, <2>2 DEF SendEmail, SharedTypeOK, RowTypeOK, kafkaVars, rowVars
<1>6. CASE Confirm(w)
  <2>1. TaskTypeOK' /\ InsideBatch'
    BY <1>1, <1>6, AdvanceTyped DEF Confirm
  <2>2. (confirmed \in [Notifications -> BOOLEAN])'
    BY <1>6 DEF Confirm, RowTypeOK
  <2> QED BY <1>1, <1>6, <2>1, <2>2 DEF Confirm, SharedTypeOK, RowTypeOK, kafkaVars
<1>7. ASSUME NEW result \in {"sent", "failed"}, NEW next \in LoopSteps \cup HandlerSteps,
             RecordResult(w, result, next)
      PROVE  Typed'
  <2>1. TaskTypeOK' /\ InsideBatch'
    BY <1>1, <1>7, AdvanceTyped, FailTyped DEF RecordResult, SharedTypeOK
  <2>2. (status \in [Notifications -> Statuses])' /\ (logStatus \in [Notifications -> LogStatuses])'
    BY <1>7 DEF RecordResult, RowTypeOK, Statuses, Terminal, LogStatuses, SetLog
  <2> QED BY <1>1, <1>7, <2>1, <2>2 DEF RecordResult, SharedTypeOK, RowTypeOK, kafkaVars
<1>8. CASE RecordSent(w)
  BY <1>7, <1>8 DEF RecordSent, LoopSteps
<1>9. CASE RecordFailed(w)
  BY <1>7, <1>9 DEF RecordFailed
<1>10. CASE RejectRefused(w)
  <2>1. TaskTypeOK' /\ InsideBatch'
    BY <1>1, <1>10, AdvanceTyped, FailTyped DEF RejectRefused, LoopSteps, SharedTypeOK
  <2> QED BY <1>1, <1>10, <2>1 DEF RejectRefused, SharedTypeOK, RowTypeOK, kafkaVars, sendVars
<1>11. CASE FlagDlq(w)
  <2>1. TaskTypeOK' /\ InsideBatch'
    BY <1>1, <1>11, AdvanceTyped, ExitTyped DEF FlagDlq, LoopSteps, SharedTypeOK
  <2> QED BY <1>1, <1>11, <2>1 DEF FlagDlq, SharedTypeOK, RowTypeOK, kafkaVars, sendVars
<1>12. CASE FlagLog(w)
  <2>1. TaskTypeOK' /\ InsideBatch'
    BY <1>1, <1>12, AdvanceTyped, ExitTyped DEF FlagLog, LoopSteps, SharedTypeOK
  <2>2. (logStatus \in [Notifications -> LogStatuses])'
    BY <1>12 DEF FlagLog, RowTypeOK, LogStatuses, SetLog
  <2> QED BY <1>1, <1>12, <2>1, <2>2 DEF FlagLog, SharedTypeOK, RowTypeOK, kafkaVars
<1> QED
  BY <1>2, <1>3, <1>4, <1>5, <1>6, <1>8, <1>9, <1>10, <1>11, <1>12 DEF Handle

LEMMA EnvironmentKeepsTypes ==
  ASSUME Typed, Environment
  PROVE  Typed'
<1> USE SendAssumption DEF Typed
<1>1. ASSUME NEW r \in Records, Publish(r)
      PROVE  Typed'
  <2>1. (status \in [Notifications -> Statuses])'
    BY <1>1 DEF Publish, RowTypeOK, Statuses, Terminal
  <2> QED
    BY <1>1, <2>1, AppendTyped DEF Publish, RowTypeOK
<1>2. ASSUME NEW n \in Notifications, CancelCampaign(n) \/ DeleteRow(n) \/ WriteLog(n)
      PROVE  Typed'
  <2>1. (status \in [Notifications -> Statuses])' /\ (logStatus \in [Notifications -> LogStatuses])'
    BY <1>2 DEF CancelCampaign, DeleteRow, WriteLog, RowTypeOK, Statuses, Terminal, LogStatuses
  <2> QED
    BY <1>2, <2>1, LoopStutterTyped DEF CancelCampaign, DeleteRow, WriteLog, RowTypeOK
<1> QED BY <1>1, <1>2 DEF Environment

LEMMA InitTyped == Init => Typed
BY LoopInitTyped DEF Init, Typed, RowTypeOK, Statuses, LogStatuses

LEMMA StutterTyped == Typed /\ UNCHANGED vars => Typed'
BY LoopStutterTyped DEF Typed, RowTypeOK, vars, sendVars

LEMMA NextTyped == Typed /\ [Next]_vars => Typed'
BY LoopKeepsTypes, HandleKeepsTypes, EnvironmentKeepsTypes, StutterTyped DEF Next

\* Type correctness: every variable keeps its type, and the counters of the
\* retries and of the pauses keep their bounds.
THEOREM TypeCorrect == Spec => []TypeOK
<1>1. Typed => TypeOK
  BY LoopTypeParts DEF Typed, LoopTyped, TypeOK, RowTypeOK
<1> QED BY <1>1, InitTyped, NextTyped, PTL DEF Spec

-----------------------------------------------------------------------------
(* At most one email.                                                      *)
(*                                                                         *)
(* Only the process whose attempt id is on the claim of a row sends its    *)
(* email, and no two processes share an attempt id. A process that may     *)
(* call send_email again (its claim would find 'sending' without a         *)
(* confirmation) has not had an email accepted: once one is accepted, the  *)
(* process either writes the confirmation or never asks for the claim.     *)

Untouched == {"absent", "pending", "skipped"}

\* Steps from which the handler is never called again for the record.
NoWayBack == {"confirm", "flag", "flagLog", "commitSkip"}

\* A process has an attempt id while it has a record, and its own.
OwnAttempt ==
  \A w \in Workers :
    /\ attempt[w] = NoAttempt <=> ~Busy(w)
    /\ \A v \in Workers : (Busy(v) /\ Busy(w) /\ attempt[v] = attempt[w]) => v = w

\* Only a notification gets past the beginning of the handler.
HandlesNotification ==
  \A w \in Workers : pc[w] \in HandlerSteps => InHand(w) \in Notifications

\* Nothing has happened to a row before it is claimed.
FreshRow ==
  \A n \in Notifications :
    status[n] \in Untouched =>
      accepted[n] = 0 /\ ~confirmed[n] /\ claimedBy[n] = NoAttempt

\* The process in the dialogue with the server, or refused by it, holds the
\* claim, and only a manager can have failed the row under it.
Sender(w) ==
  pc[w] \in {"smtp", "recordFailed"} =>
    /\ claimedBy[InHand(w)] = attempt[w]
    /\ status[InHand(w)] \notin Untouched
    /\ accepted[InHand(w)] = 0
    /\ (pc[w] = "smtp" /\ status[InHand(w)] = "failed") => InHand(w) \in cancelled

\* A row that failed by itself has had no email.
FailedUnsent ==
  \A n \in Notifications : (status[n] = "failed" /\ n \notin cancelled) => accepted[n] = 0

Unsent(w) ==
  ( /\ Busy(w) /\ pc[w] \notin NoWayBack
    /\ InHand(w) \in Notifications
    /\ claimedBy[InHand(w)] = attempt[w]
    /\ status[InHand(w)] = "sending"
    /\ ~confirmed[InHand(w)] ) => accepted[InHand(w)] = 0

Delivered(w) ==
  /\ pc[w] = "confirm" => accepted[InHand(w)] >= 1
  /\ pc[w] = "record" => confirmed[InHand(w)]

EmailInv ==
  /\ OwnAttempt
  /\ HandlesNotification
  /\ FreshRow
  /\ \A w \in Workers : Sender(w) /\ Unsent(w) /\ Delivered(w)
  /\ FailedUnsent
  /\ NoDuplicateEmail
  /\ SentWasAccepted

-----------------------------------------------------------------------------
(* What a step of one process does, to its task and to the others'. *)

\* The loop takes a process from a record to nothing, from one step of a record
\* to another from which the handler may be called, or to a new record under a
\* fresh attempt id.
LoopMoves(w) ==
  \/ Ends(w)
  \/ ~Busy(w) /\ pc'[w] = "idle" /\ attempt'[w] = attempt[w]
  \/ Busy(w) /\ StepsTo(w, {pc[w]})
  \/ pc[w] \notin NoWayBack \cup {"idle"} /\ StepsTo(w, Retrying \cup {"commitSkip"})
  \/ ~Busy(w) /\ pc'[w] = "handle" /\ attempt'[w] \in Attempts \ InUse

LEMMA LoopTask ==
  ASSUME Typed, NEW w \in Workers, Loop(w)
  PROVE  OthersStay(w) /\ LoopMoves(w) /\ log' = log /\ UNCHANGED sendVars
<1>1. OthersStay(w) /\ TaskMoves(w) /\ log' = log /\ UNCHANGED sendVars
  BY LoopIsLoopStep, LoopStepMoves DEF Typed
<1>2. CASE BeginRecord(w)
  <2>1. pc'[w] = "handle" /\ attempt'[w] \in Attempts \ InUse /\ ~Busy(w)
    BY <1>2 DEF BeginRecord, Begin, Goto, Typed, LoopTyped, TaskTypeOK, Busy
  <2> QED BY <1>1, <2>1 DEF LoopMoves
<1>3. CASE ~BeginRecord(w)
  <2>1. ~(~Busy(w) /\ pc'[w] = "handle")
    BY <1>3 DEF Loop, Busy, GetMany, Resume, GiveUp, TryAgain, DeadlineExpires, Commit,
                CommitSkip, Crash, Rebalance, taskVars, retryVars, Exit, Goto, Typed, LoopTyped,
                TaskTypeOK
  <2> QED
    BY <1>1, <2>1 DEF TaskMoves, LoopMoves, StepsTo, Busy, NoWayBack, Retrying, Committing
<1> QED BY <1>2, <1>3

LEMMA LoopKeepsEmailInv ==
  ASSUME Typed, EmailInv, NEW w \in Workers, Loop(w)
  PROVE  EmailInv'
<1>1. OthersStay(w) /\ LoopMoves(w) /\ log' = log /\ UNCHANGED sendVars
  BY LoopTask
<1>2. OwnAttempt'
  <2>1. NoAttempt \notin Attempts
    BY LoopAssumption
  <2>2. ASSUME NEW v \in Workers
        PROVE  (attempt[v] = NoAttempt <=> ~Busy(v))'
    BY <1>1, <2>1
    DEF EmailInv, OwnAttempt, OthersStay, LoopMoves, Ends, StepsTo, Busy, Retrying, NoWayBack
  <2>3. ASSUME NEW u \in Workers, NEW v \in Workers,
               Busy(u)', Busy(v)', attempt'[u] = attempt'[v]
        PROVE  u = v
    <3>1. ASSUME NEW x \in Workers
          PROVE  attempt[x] \in InUse
      BY DEF InUse
    <3> QED
      BY <1>1, <2>3, <3>1
      DEF EmailInv, OwnAttempt, OthersStay, LoopMoves, Ends, StepsTo, Busy, Retrying, NoWayBack
  <2> QED BY <2>2, <2>3 DEF OwnAttempt
<1>3. HandlesNotification'
  BY <1>1, SendAssumption
  DEF EmailInv, HandlesNotification, OthersStay, LoopMoves, Ends, StepsTo, Retrying, InHand, Busy
<1>4. FreshRow' /\ FailedUnsent' /\ NoDuplicateEmail' /\ SentWasAccepted'
  BY <1>1 DEF EmailInv, FreshRow, FailedUnsent, NoDuplicateEmail, SentWasAccepted, sendVars
<1>5. ASSUME NEW v \in Workers
      PROVE  Sender(v)' /\ Unsent(v)' /\ Delivered(v)'
  <2>1. CASE v # w
    BY <1>1, <2>1
    DEF EmailInv, Sender, Unsent, Delivered, OthersStay, sendVars, InHand, Busy
  <2>2. CASE v = w
    BY <1>1, <2>2
    DEF EmailInv, Sender, Unsent, Delivered, LoopMoves, Ends, StepsTo, Retrying, NoWayBack, sendVars,
        InHand, Busy, InUse
  <2> QED BY <2>1, <2>2
<1> QED BY <1>2, <1>3, <1>4, <1>5 DEF EmailInv

\* What a step of the handler of w does to the rows.
RowsMove(w) ==
  \A n \in Notifications :
    /\ accepted'[n] # accepted[n] =>
         pc[w] = "smtp" /\ n = InHand(w) /\ accepted'[n] = accepted[n] + 1
    /\ claimedBy'[n] # claimedBy[n] =>
         status[n] = "pending" /\ n = InHand(w) /\ claimedBy'[n] = attempt[w]
    /\ confirmed[n] => confirmed'[n]
    /\ confirmed'[n] => confirmed[n] \/ (pc[w] = "confirm" /\ n = InHand(w))
    /\ status'[n] \in Untouched => status[n] \in Untouched /\ claimedBy'[n] = claimedBy[n]
    /\ status'[n] = "sending" => \/ status[n] = "sending"
                                 \/ n = InHand(w) /\ claimedBy'[n] = attempt[w]
    /\ status'[n] = "failed" => status[n] = "failed" \/ (pc[w] = "recordFailed" /\ n = InHand(w))
    /\ status'[n] = "sent" => status[n] = "sent" \/ (pc[w] = "record" /\ n = InHand(w))
    /\ logStatus'[n] = "sent" => logStatus[n] = "sent" \/ (pc[w] = "record" /\ n = InHand(w))

LEMMA HandleRows ==
  ASSUME Typed, HandlesNotification, NEW w \in Workers, Handle(w)
  PROVE  RowsMove(w)
<1>1. RowTypeOK
  BY DEF Typed, LoopTyped
<1> USE <1>1, SendAssumption DEF RowTypeOK
<1>2. CASE RejectMalformed(w) \/ PassOtherChannel(w) \/ RejectRefused(w) \/ FlagDlq(w)
  BY <1>2
  DEF RejectMalformed, PassOtherChannel, RejectRefused, FlagDlq, sendVars, RowsMove, Untouched
<1>3. CASE Claim(w)
  <2> DEFINE m == InHand(w)
             v == Verdict(m, attempt[w])
  <2>1. m \in Notifications /\ UNCHANGED accepted
    BY <1>3 DEF Claim
  <2>2. UNCHANGED rowVars \/ ClaimWrites(m, attempt[w], v)
    BY <1>3 DEF Claim
  <2>3. CASE UNCHANGED rowVars
    BY <2>1, <2>3 DEF RowsMove, Untouched, rowVars
  <2>4. CASE ClaimWrites(m, attempt[w], v)
    <3>1. v = "unclaimed" => status[m] = "pending"
      BY DEF Verdict
    <3> QED BY <2>1, <2>4, <3>1 DEF ClaimWrites, RowsMove, Untouched, SetLog
  <2> QED BY <2>2, <2>3, <2>4
<1>4. CASE SendEmail(w)
  BY <1>4 DEF SendEmail, RowsMove, Untouched, rowVars
<1>5. CASE Confirm(w)
  BY <1>5 DEF Confirm, RowsMove, Untouched
<1>6. CASE RecordSent(w)
  BY <1>6 DEF RecordSent, RecordResult, RowsMove, Untouched, SetLog
<1>7. CASE RecordFailed(w)
  BY <1>7 DEF RecordFailed, RecordResult, RowsMove, Untouched, SetLog
<1>8. CASE FlagLog(w)
  BY <1>8 DEF FlagLog, RowsMove, Untouched, SetLog
<1> QED BY <1>2, <1>3, <1>4, <1>5, <1>6, <1>7, <1>8 DEF Handle

\* The step of the handler of w, as far as w itself is concerned.
HandlerMoves(w) ==
  \/ Ends(w)
  \/ StepsTo(w, Retrying) /\ pc[w] \notin NoWayBack
  \/ StepsTo(w, HandlerSteps \cup {"commit", "commitSkip"})

LEMMA HandleTask ==
  ASSUME Typed, NEW w \in Workers, Handle(w)
  PROVE  OthersStay(w) /\ HandlerMoves(w) /\ log' = log /\ Busy(w)
<1>0. TaskTypeOK
  BY DEF Typed, LoopTyped
<1> USE <1>0, SendAssumption DEF NoWayBack, HandlerMoves, Busy, kafkaVars
<1>1. CASE RejectMalformed(w)
  <2>1. OthersStay(w) /\ (StepsTo(w, {"commitSkip"}) \/ StepsTo(w, Retrying) \/ Ends(w))
    BY <1>1, AdvanceMoves, FailMoves DEF RejectMalformed
  <2> QED BY <1>1, <2>1 DEF RejectMalformed, StepsTo
<1>2. CASE PassOtherChannel(w)
  <2>1. OthersStay(w) /\ StepsTo(w, {"commit"})
    BY <1>2, AdvanceMoves DEF PassOtherChannel
  <2> QED BY <1>2, <2>1 DEF PassOtherChannel, StepsTo
<1>3. CASE Claim(w)
  <2> DEFINE step == AfterClaim(Verdict(InHand(w), attempt[w]))
  <2>1. OthersStay(w) /\ (StepsTo(w, {step}) \/ StepsTo(w, Retrying) \/ Ends(w))
    BY <1>3, AdvanceMoves, FailMoves DEF Claim
  <2>2. step \in {"smtp", "record", "commit"}
    BY DEF AfterClaim
  <2> QED BY <1>3, <2>1, <2>2 DEF Claim, StepsTo
<1>4. CASE SendEmail(w)
  <2>1. OthersStay(w) /\ (StepsTo(w, {"confirm", "recordFailed", "flag"}) \/ StepsTo(w, Retrying) \/ Ends(w))
    BY <1>4, AdvanceMoves, FailMoves DEF SendEmail, StepsTo
  <2> QED BY <1>4, <2>1 DEF SendEmail, StepsTo
<1>5. CASE Confirm(w)
  <2>1. OthersStay(w) /\ StepsTo(w, {"record", "flag"})
    BY <1>5, AdvanceMoves DEF Confirm, StepsTo
  <2> QED BY <1>5, <2>1 DEF Confirm, StepsTo
<1>6. CASE RecordSent(w)
  <2>1. OthersStay(w) /\ (StepsTo(w, {"commit"}) \/ StepsTo(w, Retrying) \/ Ends(w))
    BY <1>6, AdvanceMoves, FailMoves DEF RecordSent, RecordResult
  <2> QED BY <1>6, <2>1 DEF RecordSent, RecordResult, StepsTo
<1>7. CASE RecordFailed(w)
  <2>1. OthersStay(w) /\ (StepsTo(w, {"reject"}) \/ StepsTo(w, Retrying) \/ Ends(w))
    BY <1>7, AdvanceMoves, FailMoves DEF RecordFailed, RecordResult
  <2> QED BY <1>7, <2>1 DEF RecordFailed, RecordResult, StepsTo
<1>8. CASE RejectRefused(w)
  <2>1. OthersStay(w) /\ (StepsTo(w, {"commitSkip"}) \/ StepsTo(w, Retrying) \/ Ends(w))
    BY <1>8, AdvanceMoves, FailMoves DEF RejectRefused
  <2> QED BY <1>8, <2>1 DEF RejectRefused, StepsTo
<1>9. CASE FlagDlq(w)
  <2>1. OthersStay(w) /\ (StepsTo(w, {"flagLog"}) \/ Ends(w))
    BY <1>9, AdvanceMoves, ExitMoves DEF FlagDlq
  <2> QED BY <1>9, <2>1 DEF FlagDlq, StepsTo
<1>10. CASE FlagLog(w)
  <2>1. OthersStay(w) /\ (StepsTo(w, {"commitSkip"}) \/ Ends(w))
    BY <1>10, AdvanceMoves, ExitMoves DEF FlagLog
  <2> QED BY <1>10, <2>1 DEF FlagLog, StepsTo
<1> QED
  BY <1>1, <1>2, <1>3, <1>4, <1>5, <1>6, <1>7, <1>8, <1>9, <1>10 DEF Handle

LEMMA HandlerLeavesCancelled ==
  ASSUME NEW w \in Workers, Handle(w)
  PROVE  cancelled' = cancelled
BY DEF Handle, RejectMalformed, PassOtherChannel, Claim, SendEmail, Confirm, RecordSent,
   RecordFailed, RecordResult, RejectRefused, FlagDlq, FlagLog, sendVars

\* A process that did not step keeps its part of the invariant: nobody else
\* sends the email of the row it has claimed, and nobody claims it again.
LEMMA OthersKeepEmailInv ==
  ASSUME Typed, EmailInv, NEW w \in Workers, Busy(w), RowsMove(w), OthersStay(w), log' = log,
         cancelled' = cancelled,
         NEW v \in Workers, v # w
  PROVE  Sender(v)' /\ Unsent(v)' /\ Delivered(v)'
<1> DEFINE n == InHand(v)
<1>1. pc'[v] = pc[v] /\ attempt'[v] = attempt[v] /\ InHand(v)' = n
  BY DEF OthersStay, InHand
<1>2. Busy(v) => attempt[v] # attempt[w]
  BY DEF EmailInv, OwnAttempt
<1>3. RowTypeOK
  BY DEF Typed, LoopTyped
<1>4. Sender(v)'
  <2>1. CASE pc[v] \in {"smtp", "recordFailed"}
    <3>1. n \in Notifications
      BY <2>1, SendAssumption DEF EmailInv, HandlesNotification
    <3>2. claimedBy[n] = attempt[v] /\ status[n] \notin Untouched /\ accepted[n] = 0
      BY <2>1 DEF EmailInv, Sender
    <3>3. accepted'[n] = accepted[n]
      BY <1>2, <2>1, <3>1, <3>2 DEF RowsMove, EmailInv, Sender, Busy
    <3>4. status'[n] = "failed" => status[n] = "failed"
      BY <1>2, <2>1, <3>1, <3>2 DEF RowsMove, EmailInv, Sender, Busy
    <3>5. (pc[v] = "smtp" /\ status[n] = "failed") => n \in cancelled
      BY DEF EmailInv, Sender
    <3> QED BY <1>1, <3>1, <3>2, <3>3, <3>4, <3>5 DEF RowsMove, Sender, Untouched
  <2> QED BY <1>1, <2>1 DEF Sender
<1>5. Unsent(v)'
  <2> SUFFICES ASSUME Busy(v)', pc'[v] \notin NoWayBack, n \in Notifications,
                      claimedBy'[n] = attempt[v], status'[n] = "sending", ~confirmed'[n]
               PROVE  accepted'[n] = 0
    BY <1>1 DEF Unsent
  <2>1. Busy(v) /\ pc[v] \notin NoWayBack
    BY <1>1 DEF Busy
  <2>2. claimedBy[n] = attempt[v]
    BY <1>2, <2>1 DEF RowsMove
  <2>3. status[n] = "sending" /\ ~confirmed[n]
    BY <1>2, <2>1, <2>2 DEF RowsMove
  <2>4. accepted[n] = 0
    BY <2>1, <2>2, <2>3 DEF EmailInv, Unsent
  <2>5. accepted'[n] = accepted[n]
    BY <1>2, <2>1, <2>2 DEF RowsMove, EmailInv, Sender
  <2> QED BY <2>4, <2>5
<1>6. Delivered(v)'
  <2>1. CASE pc[v] \in {"confirm", "record"}
    <3>1. n \in Notifications
      BY <2>1, SendAssumption DEF EmailInv, HandlesNotification
    <3>2. accepted'[n] = accepted[n] \/ accepted'[n] = accepted[n] + 1
      BY <3>1 DEF RowsMove
    <3> QED BY <1>1, <1>3, <3>1, <3>2 DEF RowsMove, EmailInv, Delivered, RowTypeOK
  <2> QED BY <1>1, <2>1 DEF Delivered
<1> QED BY <1>4, <1>5, <1>6

\* The process that stepped keeps its part of the invariant.
LEMMA SelfKeepsEmailInv ==
  ASSUME Typed, EmailInv, NEW w \in Workers, Handle(w)
  PROVE  Sender(w)' /\ Unsent(w)' /\ Delivered(w)'
<1> DEFINE n == InHand(w)
<1>0. TaskTypeOK /\ RowTypeOK
  BY DEF Typed, LoopTyped
<1>1. log' = log /\ cancelled' = cancelled /\ RowsMove(w) /\ HandlerMoves(w) /\ Busy(w)
  BY HandleTask, HandleRows, HandlerLeavesCancelled DEF EmailInv
<1>2. CASE Ends(w)
  BY <1>2 DEF Ends, Sender, Unsent, Delivered, Busy
<1> HIDE DEF n
<1>3. ASSUME pos'[w] = pos[w], attempt'[w] = attempt[w]
      PROVE  Sender(w)' /\ Unsent(w)' /\ Delivered(w)'
  <2>1. InHand(w)' = n
    BY <1>1, <1>3 DEF InHand, n
  <2> USE <1>0, <1>1, <1>3, <2>1, SendAssumption
  <2>2. CASE RejectMalformed(w) \/ PassOtherChannel(w)
    <3>1. n \notin Notifications /\ pc[w] = "handle"
      BY <2>2 DEF RejectMalformed, PassOtherChannel, n
    <3>2. pc'[w] \in Retrying \cup {"commit", "commitSkip", "idle"}
      BY <2>2, AdvanceMoves, FailMoves DEF RejectMalformed, PassOtherChannel, StepsTo, Ends
    <3> QED BY <3>1, <3>2 DEF Sender, Unsent, Delivered, Retrying
  <2>3. CASE Claim(w)
    <3> DEFINE v == Verdict(n, attempt[w])
    <3>1. n \in Notifications /\ pc[w] = "handle" /\ accepted' = accepted
      BY <2>3 DEF Claim, n
    <3>2. PICK o \in DbOutcomes :
            /\ IF o = "failed" THEN UNCHANGED <<rowVars, dlq>> ELSE ClaimWrites(n, attempt[w], v)
            /\ IF o = "done" THEN Advance(w, AfterClaim(v)) ELSE Fail(w)
      BY <2>3 DEF Claim, n
    <3>3. confirmed' = confirmed
      BY <3>2 DEF ClaimWrites, rowVars
    <3>4. Unsent(w) /\ (status[n] \in Untouched => accepted[n] = 0)
      BY <3>1 DEF EmailInv, FreshRow
    <3>5. CASE o = "done"
      <4>1. ClaimWrites(n, attempt[w], v) /\ pc'[w] = AfterClaim(v)
        BY <3>2, <3>5, AdvanceMoves DEF StepsTo
      <4>2. CASE v = "unclaimed"
        <5>1. status[n] = "pending" /\ status'[n] = "sending" /\ claimedBy'[n] = attempt[w]
          BY <3>1, <4>1, <4>2 DEF ClaimWrites, Verdict, RowTypeOK
        <5> QED BY <3>1, <3>4, <4>1, <4>2, <5>1 DEF AfterClaim, Sender, Unsent, Delivered, Untouched
      <4>3. CASE v # "unclaimed"
        <5>1. status' = status /\ claimedBy' = claimedBy
          BY <4>1, <4>3 DEF ClaimWrites
        <5>2. CASE v = "mine"
          <6>1. /\ claimedBy[n] = attempt[w] /\ ~confirmed[n]
                /\ status[n] \in Statuses \ (Terminal \cup {"absent", "deleted", "pending"})
            BY <3>1, <5>2 DEF Verdict, HasRow, RowTypeOK
          <6>2. status[n] = "sending"
            BY <6>1 DEF Statuses
          <6>3. accepted[n] = 0
            BY <3>1, <3>4, <6>1, <6>2 DEF Unsent, NoWayBack, Busy, n
          <6> QED
            BY <3>1, <3>3, <4>1, <5>1, <5>2, <6>1, <6>2, <6>3
            DEF AfterClaim, Sender, Unsent, Delivered, Untouched
        <5>3. CASE v # "mine"
          <6>1. pc'[w] \in {"record", "commit"} /\ (pc'[w] = "record" => confirmed[n])
            BY <4>1, <4>3, <5>3 DEF AfterClaim, Verdict
          <6>2. Unsent(w)'
            BY <3>1, <3>3, <3>4, <5>1, <6>1 DEF Unsent, NoWayBack, Busy, n
          <6> QED BY <3>3, <6>1, <6>2 DEF Sender, Delivered
        <5> QED BY <5>2, <5>3
      <4> QED BY <4>2, <4>3
    <3>6. CASE o # "done"
      <4>1. pc'[w] \in Retrying \cup {"idle"}
        BY <3>2, <3>6, FailMoves DEF StepsTo, Ends
      <4>2. Unsent(w)'
        <5>1. CASE status[n] \in Untouched
          BY <3>1, <3>4, <5>1 DEF Unsent
        <5>2. CASE status[n] \notin Untouched
          <6>1. status'[n] = status[n] /\ claimedBy'[n] = claimedBy[n]
            BY <3>1, <3>2, <5>2 DEF ClaimWrites, rowVars, Verdict, Untouched, RowTypeOK
          <6> QED BY <3>1, <3>3, <3>4, <4>1, <6>1 DEF Unsent, NoWayBack, Busy, n
        <5> QED BY <5>1, <5>2
      <4> QED BY <4>1, <4>2 DEF Sender, Delivered, Retrying
    <3> QED BY <3>5, <3>6
  <2>4. CASE SendEmail(w)
    <3>1. pc[w] = "smtp" /\ UNCHANGED rowVars /\ n \in Notifications
      BY <2>4 DEF SendEmail, EmailInv, HandlesNotification, n
    <3>2. accepted[n] = 0 /\ claimedBy[n] = attempt[w] /\ status[n] \notin Untouched
      BY <3>1 DEF EmailInv, Sender, n
    <3>3. \/ pc'[w] = "confirm" /\ accepted'[n] = accepted[n] + 1
          \/ pc'[w] \in Retrying \cup {"idle", "recordFailed"} /\ accepted' = accepted
          \/ pc'[w] = "flag"
      BY <2>4, <3>1, AdvanceMoves, FailMoves DEF SendEmail, StepsTo, Ends, RowTypeOK, n
    <3> QED BY <3>1, <3>2, <3>3 DEF Sender, Unsent, Delivered, Retrying, NoWayBack, rowVars
  <2>5. CASE Confirm(w)
    <3>1. n \in Notifications
      BY <2>5 DEF Confirm, EmailInv, HandlesNotification, n
    <3>2. pc'[w] = "flag" \/ (pc'[w] = "record" /\ confirmed'[n])
      BY <2>5, <3>1, AdvanceMoves DEF Confirm, StepsTo, RowTypeOK, DbOutcomes, n
    <3> QED BY <3>1, <3>2 DEF Sender, Unsent, Delivered, NoWayBack
  <2>6. ASSUME NEW result \in {"sent", "failed"}, NEW next \in {"commit", "reject"},
               pc[w] \in {"record", "recordFailed"}, RecordResult(w, result, next)
        PROVE  Sender(w)' /\ Unsent(w)' /\ Delivered(w)'
    <3>1. n \in Notifications /\ UNCHANGED <<claimedBy, confirmed, accepted>>
      BY <2>6 DEF RecordResult, EmailInv, HandlesNotification, n
    <3>2. pc'[w] \in Retrying \cup {"idle", next}
      BY <2>6, AdvanceMoves, FailMoves DEF RecordResult, StepsTo, Ends
    <3>3. Unsent(w)'
      <4>1. status'[n] = result \/ status'[n] = status[n]
        BY <2>6, <3>1 DEF RecordResult, RowTypeOK, n
      <4> QED BY <2>6, <3>1, <4>1 DEF EmailInv, Unsent, NoWayBack, Busy, n
    <3> QED BY <2>6, <3>2, <3>3 DEF Sender, Delivered, Retrying
  <2>7. CASE RecordSent(w) \/ RecordFailed(w)
    BY <2>6, <2>7 DEF RecordSent, RecordFailed
  <2>8. CASE RejectRefused(w)
    <3>1. pc[w] = "reject" /\ UNCHANGED sendVars /\ n \in Notifications
      BY <2>8 DEF RejectRefused, EmailInv, HandlesNotification, n
    <3>2. pc'[w] \in Retrying \cup {"idle", "commitSkip"}
      BY <2>8, AdvanceMoves, FailMoves DEF RejectRefused, StepsTo, Ends
    <3> QED
      BY <3>1, <3>2 DEF EmailInv, Unsent, Sender, Delivered, Retrying, NoWayBack, Busy, sendVars, n
  <2>9. CASE FlagDlq(w) \/ FlagLog(w)
    <3>1. pc'[w] \in {"idle", "flagLog", "commitSkip"}
      BY <2>9, AdvanceMoves, ExitMoves DEF FlagDlq, FlagLog, StepsTo, Ends
    <3> QED BY <3>1 DEF Sender, Unsent, Delivered, NoWayBack, Busy
  <2> QED BY <2>2, <2>3, <2>4, <2>5, <2>7, <2>8, <2>9 DEF Handle
<1> QED BY <1>1, <1>2, <1>3 DEF HandlerMoves, StepsTo

LEMMA HandleKeepsEmailInv ==
  ASSUME Typed, EmailInv, NEW w \in Workers, Handle(w)
  PROVE  EmailInv'
<1>0. TaskTypeOK /\ RowTypeOK
  BY DEF Typed, LoopTyped
<1>1. /\ OthersStay(w) /\ HandlerMoves(w) /\ log' = log /\ Busy(w) /\ RowsMove(w)
      /\ cancelled' = cancelled
  BY HandleTask, HandleRows, HandlerLeavesCancelled DEF EmailInv
<1>2. OwnAttempt'
  BY <1>1, SendAssumption
  DEF EmailInv, OwnAttempt, OthersStay, HandlerMoves, Ends, StepsTo, Busy, Retrying
<1>3. HandlesNotification'
  <2>1. ASSUME NEW v \in Workers \ {w}
        PROVE  (pc[v] \in HandlerSteps => InHand(v) \in Notifications)'
    BY <1>1 DEF EmailInv, HandlesNotification, OthersStay, InHand
  <2>2. (pc[w] \in HandlerSteps => InHand(w) \in Notifications)'
    <3>1. CASE InHand(w) \in Notifications
      BY <1>1, <3>1, SendAssumption DEF HandlerMoves, Ends, StepsTo, InHand
    <3>2. CASE InHand(w) \notin Notifications
      <4>1. RejectMalformed(w) \/ PassOtherChannel(w)
        BY <3>2, SendAssumption
        DEF EmailInv, HandlesNotification, Handle, Claim, SendEmail, Confirm, RecordSent,
            RecordFailed, RejectRefused, FlagDlq, FlagLog
      <4>2. pc'[w] \in Retrying \cup {"commit", "commitSkip", "idle"}
        BY <1>0, <4>1, AdvanceMoves, FailMoves DEF RejectMalformed, PassOtherChannel, StepsTo, Ends
      <4> QED BY <4>2, SendAssumption DEF Retrying
    <3> QED BY <3>1, <3>2
  <2> QED BY <2>1, <2>2 DEF HandlesNotification
<1>4. FreshRow'
  BY <1>0, <1>1 DEF EmailInv, FreshRow, RowsMove, Sender, Delivered
<1>5. NoDuplicateEmail'
  BY <1>0, <1>1 DEF EmailInv, NoDuplicateEmail, RowsMove, Sender, RowTypeOK
<1>6. SentWasAccepted'
  <2>1. \A m \in Notifications : accepted'[m] >= accepted[m]
    BY <1>0, <1>1 DEF RowsMove, RowTypeOK
  <2> QED BY <1>0, <1>1, <2>1 DEF EmailInv, SentWasAccepted, RowsMove, RowTypeOK, Delivered
<1>7. ASSUME NEW v \in Workers
      PROVE  Sender(v)' /\ Unsent(v)' /\ Delivered(v)'
  BY <1>1, OthersKeepEmailInv, SelfKeepsEmailInv
<1>8. FailedUnsent'
  <2> SUFFICES ASSUME NEW m \in Notifications, status'[m] = "failed", m \notin cancelled
               PROVE  accepted'[m] = 0
    BY <1>1 DEF FailedUnsent
  <2>1. CASE pc[w] = "recordFailed" /\ m = InHand(w)
    BY <1>1, <2>1 DEF EmailInv, Sender, RowsMove
  <2>2. CASE status[m] = "failed"
    BY <1>1, <2>2 DEF EmailInv, FailedUnsent, Sender, RowsMove
  <2> QED BY <1>1, <2>1, <2>2 DEF RowsMove
<1> QED BY <1>2, <1>3, <1>4, <1>5, <1>6, <1>7, <1>8 DEF EmailInv

LEMMA EnvironmentKeepsEmailInv ==
  ASSUME Typed, EmailInv, Environment
  PROVE  EmailInv'
<1>0. TaskTypeOK /\ RowTypeOK /\ SharedTypeOK
  BY DEF Typed, LoopTyped
<1>1. UNCHANGED <<pc, pos, attempt, claimedBy, confirmed, accepted>>
  BY DEF Environment, Publish, Append1, CancelCampaign, DeleteRow, WriteLog, loopVars, taskVars
<1>2. ASSUME NEW v \in Workers, Busy(v)
      PROVE  InHand(v)' = InHand(v)
  <2>1. pos[v] \in 1..Len(log)
    BY <1>2, InHandIsRecord DEF Typed
  <2> QED BY <1>0, <1>1, <2>1
          DEF Environment, Publish, Append1, CancelCampaign, DeleteRow, WriteLog, loopVars, InHand, SharedTypeOK
<1>3. ASSUME NEW m \in Notifications
      PROVE  /\ status'[m] \in Untouched => status[m] \in Untouched
             /\ status'[m] \in {"sending", "sent"} => status'[m] = status[m]
             /\ status'[m] = "failed" => status[m] = "failed" \/ m \in cancelled'
             /\ m \in cancelled => m \in cancelled'
             /\ logStatus'[m] = "sent" => logStatus[m] = "sent"
  BY <1>0 DEF Environment, Publish, CancelCampaign, DeleteRow, WriteLog, HasRow, Untouched, RowTypeOK
<1>4. ASSUME NEW v \in Workers
      PROVE  /\ Sender(v)' /\ Unsent(v)' /\ Delivered(v)'
             /\ (pc[v] \in HandlerSteps => InHand(v) \in Notifications)'
  <2>1. CASE ~Busy(v)
    BY <1>1, <2>1, SendAssumption DEF Sender, Unsent, Delivered, Busy
  <2>2. CASE Busy(v)
    BY <1>1, <1>2, <1>3, <2>2, SendAssumption
    DEF EmailInv, Sender, Unsent, Delivered, HandlesNotification, Busy
  <2> QED BY <2>1, <2>2
<1>5. OwnAttempt' /\ FreshRow' /\ FailedUnsent' /\ NoDuplicateEmail' /\ SentWasAccepted'
  BY <1>1, <1>3
  DEF EmailInv, OwnAttempt, FreshRow, FailedUnsent, NoDuplicateEmail, SentWasAccepted, Busy
<1> QED BY <1>4, <1>5 DEF EmailInv, HandlesNotification

LEMMA InitEmailInv == Init => EmailInv
BY SendAssumption
DEF Init, LoopInit, EmailInv, OwnAttempt, HandlesNotification, FreshRow, FailedUnsent, Sender,
    Unsent, Delivered, NoDuplicateEmail, SentWasAccepted, Busy, Untouched

LEMMA NextEmailInv == Typed /\ EmailInv /\ [Next]_vars => EmailInv'
<1>1. CASE UNCHANGED vars
  BY <1>1
  DEF vars, loopVars, sendVars, EmailInv, OwnAttempt, HandlesNotification, FreshRow,
      FailedUnsent, Sender, Unsent, Delivered, NoDuplicateEmail, SentWasAccepted, Busy, InHand
<1> QED
  BY <1>1, LoopKeepsEmailInv, HandleKeepsEmailInv, EnvironmentKeepsEmailInv DEF Next

\* Whatever is retried, redelivered, republished, handed over to another process
\* or cut off by a crash, the SMTP server accepts a notification at most once.
THEOREM AtMostOneEmail == Spec => []NoDuplicateEmail
<1>1. Spec => [](Typed /\ EmailInv)
  BY InitTyped, NextTyped, InitEmailInv, NextEmailInv, PTL DEF Spec
<1> QED BY <1>1, PTL DEF EmailInv

\* No result 'sent' without an email that the server accepted.
THEOREM SentMeansAccepted == Spec => []SentWasAccepted
<1>1. Spec => [](Typed /\ EmailInv)
  BY InitTyped, NextTyped, InitEmailInv, NextEmailInv, PTL DEF Spec
<1> QED BY <1>1, PTL DEF EmailInv

\* Two processes are never in the dialogue with the SMTP server for the same
\* notification: both would hold the claim of its row.
THEOREM OneSenderAtATime == Spec => []OneSender
<1>1. Spec => [](Typed /\ EmailInv)
  BY InitTyped, NextTyped, InitEmailInv, NextEmailInv, PTL DEF Spec
<1>2. EmailInv => OneSender
  BY DEF EmailInv, OwnAttempt, Sender, OneSender, Busy
<1> QED BY <1>1, <1>2, PTL

-----------------------------------------------------------------------------
(* No record is let go before its outcome is saved.                        *)
(*                                                                         *)
(* An outcome stays saved, a process reaches its commit only with a saved  *)
(* outcome, and it goes on to the next record of its batch only after a    *)
(* commit, so that everything before the record in hand is saved, too.     *)

Saved(w) ==
  /\ pc[w] \in {"commit", "commitSkip"} => Recorded(InHand(w))
  /\ pc[w] = "flagLog" => InHand(w) \in dlq
  /\ \A i \in 1..pos[w] : Recorded(log[i]) \/ (Busy(w) /\ i = pos[w])

OutcomeInv == CommittedIsRecorded /\ LogAgrees /\ \A w \in Workers : Saved(w)

\* The steps of a record before its outcome is saved.
Undecided == (LoopSteps \cup HandlerSteps) \ {"idle", "commit", "commitSkip", "flagLog"}

OutcomeMoves(w) ==
  /\ \/ pc'[w] = "idle" /\ pos'[w] \in {0, committed} /\ committed' = committed
     \/ Busy(w) /\ StepsTo(w, Undecided)
     \/ Busy(w) /\ StepsTo(w, {"commit", "commitSkip"}) /\ Recorded(InHand(w))'
     \/ Busy(w) /\ StepsTo(w, {"flagLog"}) /\ InHand(w) \in dlq'
     \/ Busy(w) /\ Recorded(InHand(w)) /\ pc'[w] = "idle" /\ pos'[w] \in {0, pos[w]}
     \/ ~Busy(w) /\ pc'[w] = "handle" /\ pos'[w] = pos[w] + 1
     \/ pc'[w] = pc[w] /\ pos'[w] = pos[w]
  /\ \/ committed' = committed
     \/ committed' = pos[w] /\ Busy(w) /\ Recorded(InHand(w))

LEMMA RecordedStays ==
  ASSUME Typed, [Next]_vars, NEW r \in Records, Recorded(r)
  PROVE  Recorded(r)'
<1>0. RowTypeOK
  BY DEF Typed, LoopTyped
<1>1. dlq \subseteq dlq'
  BY DEF Next, Loop, Handle, Environment, GetMany, BeginRecord, Begin, Resume, GiveUp, TryAgain,
     DeadlineExpires, Commit, CommitSkip, Crash, Rebalance, RejectMalformed, PassOtherChannel,
     Claim, ClaimWrites, SendEmail, Confirm, RecordSent, RecordFailed, RecordResult, RejectRefused,
     FlagDlq, FlagLog, Publish, Append1, CancelCampaign, DeleteRow, WriteLog, loopVars, vars
<1>2. CASE r \in dlq \cup OtherChannel
  BY <1>1, <1>2 DEF Recorded
<1>3. CASE r \in Notifications /\ status[r] \in Terminal \cup {"deleted"}
  <2>1. ASSUME NEW w \in Workers, Loop(w)
        PROVE  status' = status
    BY <2>1, LoopTask DEF sendVars
  <2>2. ASSUME NEW w \in Workers, Handle(w)
        PROVE  status'[r] \in Terminal \cup {"deleted"}
    <3>1. CASE Claim(w)
      <4> DEFINE v == Verdict(InHand(w), attempt[w])
      <4>1. UNCHANGED status \/ ClaimWrites(InHand(w), attempt[w], v)
        BY <3>1 DEF Claim, rowVars
      <4>2. v = "unclaimed" => status[InHand(w)] = "pending"
        BY DEF Verdict
      <4> QED BY <1>0, <1>3, <4>1, <4>2 DEF ClaimWrites, RowTypeOK, Terminal
    <3>2. CASE RecordSent(w) \/ RecordFailed(w)
      BY <1>0, <1>3, <3>2 DEF RecordSent, RecordFailed, RecordResult, RowTypeOK, Terminal
    <3> QED
      BY <1>3, <2>2, <3>1, <3>2
      DEF Handle, RejectMalformed, PassOtherChannel, SendEmail, Confirm, RejectRefused, FlagDlq,
          FlagLog, sendVars, rowVars
  <2>3. ASSUME Environment
        PROVE  status'[r] \in Terminal \cup {"deleted"}
    BY <1>0, <1>3, <2>3
    DEF Environment, Publish, CancelCampaign, DeleteRow, WriteLog, RowTypeOK, Terminal
  <2>4. CASE UNCHANGED vars
    BY <1>3, <2>4 DEF vars, sendVars, Recorded
  <2> QED BY <1>3, <2>1, <2>2, <2>3, <2>4 DEF Next, Recorded
<1> QED BY <1>2, <1>3 DEF Recorded

LEMMA LoopOutcome ==
  ASSUME Typed, OutcomeInv, NEW w \in Workers, Loop(w)
  PROVE  OutcomeMoves(w)
<1>1. TaskMoves(w) /\ OffsetMoves(w) /\ log' = log
  BY LoopIsLoopStep, LoopStepMoves DEF Typed
<1>2. pc[w] \in Committing => Busy(w) /\ Recorded(InHand(w))
  BY DEF OutcomeInv, Saved, Committing, Busy
<1>3. StepsTo(w, {"commitSkip"}) /\ InHand(w) \in dlq' => Recorded(InHand(w))'
  BY <1>1 DEF StepsTo, InHand, Recorded
<1> QED
  BY <1>1, <1>2, <1>3
  DEF TaskMoves, OffsetMoves, OutcomeMoves, Ends, StepsTo, Busy, Retrying, Committing, Undecided,
      LoopSteps

LEMMA HandleOutcome ==
  ASSUME Typed, EmailInv, OutcomeInv, NEW w \in Workers, Handle(w)
  PROVE  OutcomeMoves(w)
<1> DEFINE n == InHand(w)
<1>0. TaskTypeOK /\ RowTypeOK
  BY DEF Typed, LoopTyped
<1>1. log' = log /\ Busy(w) /\ OthersStay(w) /\ committed' = committed
  BY HandleTask
  DEF Handle, kafkaVars, RejectMalformed, PassOtherChannel, Claim, SendEmail, Confirm,
      RecordSent, RecordFailed, RecordResult, RejectRefused, FlagDlq, FlagLog
<1>2. StepsTo(w, Retrying) => OutcomeMoves(w)
  BY <1>1 DEF OutcomeMoves, StepsTo, Retrying, Undecided, LoopSteps
<1>3. Exit(w) => OutcomeMoves(w)
  BY <1>0, <1>1 DEF OutcomeMoves, Exit, Goto, TaskTypeOK
<1>4. Fail(w) => OutcomeMoves(w)
  BY <1>0, <1>2, <1>3 DEF Fail, NextTry, Goto, TaskTypeOK, inHandVars, StepsTo, Retrying
<1>5. ASSUME NEW step \in Undecided, Advance(w, step)
      PROVE  OutcomeMoves(w)
  BY <1>0, <1>1, <1>5, AdvanceMoves DEF OutcomeMoves, StepsTo
<1>6. ASSUME NEW step \in {"commit", "commitSkip"}, Advance(w, step), Recorded(n)'
      PROVE  OutcomeMoves(w)
  <2>1. StepsTo(w, {step}) /\ InHand(w)' = n
    BY <1>0, <1>1, <1>6, AdvanceMoves DEF InHand, StepsTo
  <2> QED BY <1>1, <1>6, <2>1 DEF OutcomeMoves, StepsTo
<1>7. pc[w] \in HandlerSteps => n \in Notifications
  BY DEF EmailInv, HandlesNotification
<1>8. InHand(w)' = n \/ pos'[w] # pos[w]
  BY <1>1 DEF InHand
<1> USE SendAssumption
<1> HIDE DEF n
<1>9. CASE RejectMalformed(w)
  <2>1. PICK o \in DbOutcomes :
          /\ dlq' = IF o = "failed" THEN dlq ELSE dlq \cup {n}
          /\ IF o = "done" THEN Advance(w, "commitSkip") ELSE Fail(w)
    BY <1>9 DEF RejectMalformed, n
  <2> QED BY <1>0, <1>1, <1>4, <1>6, <2>1, AdvanceMoves DEF n, Recorded, InHand, StepsTo
<1>10. CASE PassOtherChannel(w)
  BY <1>0, <1>1, <1>6, <1>10, AdvanceMoves DEF PassOtherChannel, n, Recorded, InHand, StepsTo
<1>11. CASE Claim(w)
  <2> DEFINE v == Verdict(n, attempt[w])
  <2>1. PICK o \in DbOutcomes :
          /\ IF o = "failed" THEN UNCHANGED <<rowVars, dlq>> ELSE ClaimWrites(n, attempt[w], v)
          /\ IF o = "done" THEN Advance(w, AfterClaim(v)) ELSE Fail(w)
    BY <1>11 DEF Claim, n
  <2>2. n \in Notifications
    BY <1>11 DEF Claim, n
  <2>3. CASE o = "done" /\ v \in {"unclaimed", "mine", "confirmed"}
    BY <1>5, <2>1, <2>3 DEF AfterClaim, Undecided, LoopSteps
  <2>4. CASE o = "done" /\ v \in {"rowMissing", "settled", "foreign"}
    <3>1. ClaimWrites(n, attempt[w], v) /\ Advance(w, "commit")
      BY <2>1, <2>4 DEF AfterClaim
    <3>2. InHand(w)' = n
      BY <1>0, <1>8, <3>1, AdvanceMoves DEF StepsTo
    <3>3. n \in dlq' \/ status'[n] \in Terminal
      BY <2>4, <3>1 DEF ClaimWrites, Verdict
    <3> QED BY <1>1, <1>6, <2>2, <3>1, <3>2, <3>3 DEF Recorded, n, InHand
  <2>5. v \in {"unclaimed", "mine", "confirmed", "rowMissing", "settled", "foreign"}
    BY DEF Verdict
  <2> QED BY <1>4, <2>1, <2>3, <2>4, <2>5
<1>12. CASE SendEmail(w)
  BY <1>4, <1>5, <1>12 DEF SendEmail, Undecided, LoopSteps
<1>13. CASE Confirm(w)
  BY <1>5, <1>13 DEF Confirm, Undecided, LoopSteps
<1>14. CASE RecordSent(w)
  <2>1. PICK o \in DbOutcomes :
          /\ IF o = "failed" THEN UNCHANGED <<status, logStatus>>
             ELSE status' = [status EXCEPT ![n] = "sent"]
          /\ IF o = "done" THEN Advance(w, "commit") ELSE Fail(w)
    BY <1>14 DEF RecordSent, RecordResult, n, DbOutcomes
  <2>2. n \in Notifications
    BY <1>7, <1>14 DEF RecordSent
  <2>3. CASE o = "done"
    <3>1. InHand(w)' = n /\ status'[n] = "sent"
      BY <1>0, <1>8, <2>1, <2>2, <2>3, AdvanceMoves DEF StepsTo, RowTypeOK
    <3> QED BY <1>1, <1>6, <2>1, <2>2, <2>3, <3>1 DEF Recorded, Terminal, n, InHand
  <2> QED BY <1>4, <2>1, <2>3
<1>15. CASE RecordFailed(w)
  BY <1>4, <1>5, <1>15 DEF RecordFailed, RecordResult, Undecided, LoopSteps
<1>16. CASE RejectRefused(w)
  <2>1. PICK o \in DbOutcomes :
          /\ dlq' = IF o = "failed" THEN dlq ELSE dlq \cup {n}
          /\ IF o = "done" THEN Advance(w, "commitSkip") ELSE Fail(w)
    BY <1>16 DEF RejectRefused, n
  <2> QED BY <1>0, <1>1, <1>4, <1>6, <2>1, AdvanceMoves DEF n, Recorded, InHand, StepsTo
<1>17. CASE FlagDlq(w)
  <2>1. PICK o \in DbOutcomes :
          /\ dlq' = IF o = "failed" THEN dlq ELSE dlq \cup {n}
          /\ IF o = "done" THEN Advance(w, "flagLog") ELSE Exit(w)
    BY <1>17 DEF FlagDlq, n
  <2> QED BY <1>0, <1>1, <1>3, <2>1, AdvanceMoves DEF OutcomeMoves, StepsTo, n
<1>18. CASE FlagLog(w)
  <2>1. n \in dlq' /\ (Advance(w, "commitSkip") \/ Exit(w))
    BY <1>18 DEF FlagLog, OutcomeInv, Saved, n
  <2> QED BY <1>0, <1>1, <1>3, <1>6, <2>1, AdvanceMoves DEF n, Recorded, InHand, StepsTo
<1> QED
  BY <1>9, <1>10, <1>11, <1>12, <1>13, <1>14, <1>15, <1>16, <1>17, <1>18 DEF Handle

\* The log gets a result together with the row.
LEMMA LogAgreesStep ==
  ASSUME Typed, EmailInv, LogAgrees, [Next]_vars
  PROVE  LogAgrees'
<1>0. RowTypeOK
  BY DEF Typed, LoopTyped
<1>1. ASSUME NEW w \in Workers, Loop(w)
      PROVE  LogAgrees'
  BY <1>1, LoopTask DEF LogAgrees, sendVars
<1>2. ASSUME NEW w \in Workers, Handle(w)
      PROVE  LogAgrees'
  <2>1. CASE Claim(w)
    <3> DEFINE v == Verdict(InHand(w), attempt[w])
    <3>1. UNCHANGED rowVars \/ ClaimWrites(InHand(w), attempt[w], v)
      BY <2>1 DEF Claim
    <3>2. /\ v = "unclaimed" => status[InHand(w)] = "pending"
          /\ v = "foreign" => status[InHand(w)] \notin Terminal
      BY DEF Verdict
    <3> QED BY <1>0, <3>1, <3>2 DEF ClaimWrites, RowTypeOK, Terminal, LogAgrees, rowVars, SetLog
  <2>2. CASE RecordSent(w) \/ RecordFailed(w)
    BY <1>0, <2>2 DEF RecordSent, RecordFailed, RecordResult, RowTypeOK, LogAgrees, SetLog
  <2>3. CASE FlagLog(w)
    BY <1>0, <2>3 DEF FlagLog, RowTypeOK, LogAgrees, SetLog
  <2> QED
    BY <1>2, <2>1, <2>2, <2>3
    DEF Handle, RejectMalformed, PassOtherChannel, SendEmail, Confirm, RejectRefused, FlagDlq,
        sendVars, rowVars, LogAgrees
<1>3. ASSUME Environment
      PROVE  LogAgrees'
  BY <1>0, <1>3 DEF Environment, Publish, CancelCampaign, DeleteRow, WriteLog, RowTypeOK, LogAgrees
<1>4. CASE UNCHANGED vars
  BY <1>4 DEF vars, sendVars, LogAgrees
<1> QED BY <1>1, <1>2, <1>3, <1>4 DEF Next

LEMMA StepKeepsOutcomeInv ==
  ASSUME Typed, EmailInv, OutcomeInv, NEW w \in Workers, Loop(w) \/ Handle(w)
  PROVE  OutcomeInv'
<1>0. TaskTypeOK /\ SharedTypeOK /\ InsideBatch
  BY DEF Typed, LoopTyped
<1>1. OutcomeMoves(w)
  BY LoopOutcome, HandleOutcome
<1>2. OthersStay(w) /\ log' = log
  BY LoopTask, HandleTask
<1>3. ASSUME NEW i \in 1..Len(log), Recorded(log[i])
      PROVE  Recorded(log[i])'
  BY <1>0, <1>2, <1>3, RecordedStays DEF SharedTypeOK, Next, Recorded
<1>4. \A v \in Workers : pos[v] \in 0..Len(log) /\ (Busy(v) => pos[v] \in 1..Len(log))
  BY <1>0 DEF TaskTypeOK, SharedTypeOK, InsideBatch
<1>5. \A i \in 1..committed : Recorded(log[i])'
  BY <1>0, <1>3 DEF OutcomeInv, CommittedIsRecorded, SharedTypeOK
<1>6. dlq \subseteq dlq'
  BY DEF Loop, Handle, GetMany, BeginRecord, Begin, Resume, GiveUp, TryAgain, DeadlineExpires,
     Commit, CommitSkip, Crash, Rebalance, RejectMalformed, PassOtherChannel, Claim, ClaimWrites,
     SendEmail, Confirm, RecordSent, RecordFailed, RecordResult, RejectRefused, FlagDlq, FlagLog
<1>7. ASSUME NEW v \in Workers \ {w}
      PROVE  Saved(v)'
  <2>1. pc'[v] = pc[v] /\ pos'[v] = pos[v]
    BY <1>2 DEF OthersStay
  <2>2. (pc[v] \in {"commit", "commitSkip"} => Recorded(InHand(v)))'
    BY <1>2, <1>3, <1>4, <2>1 DEF OutcomeInv, Saved, Busy, InHand, Recorded
  <2>3. (pc[v] = "flagLog" => InHand(v) \in dlq)'
    BY <1>2, <1>6, <2>1 DEF OutcomeInv, Saved, InHand
  <2>4. ASSUME NEW i \in 1..pos[v]
        PROVE  (Recorded(log[i]) \/ (Busy(v) /\ i = pos[v]))'
    <3>1. i \in 1..Len(log)
      BY <1>4, <2>4
    <3>2. Recorded(log[i]) \/ (Busy(v) /\ i = pos[v])
      BY <2>4 DEF OutcomeInv, Saved
    <3> QED BY <1>3, <2>1, <3>1, <3>2 DEF Busy
  <2> QED BY <2>1, <2>2, <2>3, <2>4 DEF Saved
<1>8. Saved(w)'
  <2>1. ASSUME NEW i \in 1..pos[w], Busy(w) => i # pos[w] \/ Recorded(InHand(w))
        PROVE  Recorded(log[i])'
    BY <1>0, <1>3, <1>4, <2>1 DEF OutcomeInv, Saved, TaskTypeOK, InHand
  <2>2. CASE pc'[w] = "idle" /\ pos'[w] \in {0, committed} /\ committed' = committed
    BY <1>5, <2>2 DEF Saved
  <2>3. CASE Busy(w) /\ StepsTo(w, Undecided)
    BY <1>0, <2>1, <2>3 DEF Saved, StepsTo, Undecided, Busy, TaskTypeOK
  <2>4. CASE Busy(w) /\ StepsTo(w, {"commit", "commitSkip"}) /\ Recorded(InHand(w))'
    BY <1>0, <2>1, <2>4 DEF Saved, StepsTo, Busy, TaskTypeOK
  <2>5. CASE Busy(w) /\ StepsTo(w, {"flagLog"}) /\ InHand(w) \in dlq'
    BY <1>0, <1>2, <2>1, <2>5 DEF Saved, StepsTo, Busy, TaskTypeOK, InHand
  <2>6. CASE Busy(w) /\ Recorded(InHand(w)) /\ pc'[w] = "idle" /\ pos'[w] \in {0, pos[w]}
    BY <1>0, <2>1, <2>6 DEF Saved, TaskTypeOK
  <2>7. CASE ~Busy(w) /\ pc'[w] = "handle" /\ pos'[w] = pos[w] + 1
    BY <1>0, <2>1, <2>7 DEF Saved, Busy, TaskTypeOK
  <2>8. CASE pc'[w] = pc[w] /\ pos'[w] = pos[w]
    <3>1. (pc[w] \in {"commit", "commitSkip"} => Recorded(InHand(w)))'
      BY <1>2, <1>3, <1>4, <2>8 DEF OutcomeInv, Saved, Busy, InHand, Recorded
    <3>2. (pc[w] = "flagLog" => InHand(w) \in dlq)'
      BY <1>2, <1>6, <2>8 DEF OutcomeInv, Saved, InHand
    <3> QED BY <1>0, <2>1, <2>8, <3>1, <3>2 DEF Saved, Busy, TaskTypeOK
  <2> QED BY <1>1, <2>2, <2>3, <2>4, <2>5, <2>6, <2>7, <2>8 DEF OutcomeMoves
<1>9. CommittedIsRecorded'
  <2>1. CASE committed' = committed
    BY <1>5, <2>1 DEF CommittedIsRecorded
  <2>2. CASE committed' = pos[w] /\ Busy(w) /\ Recorded(InHand(w))
    <3>1. ASSUME NEW i \in 1..pos[w]
          PROVE  Recorded(log[i])
      BY <1>0, <2>2, <3>1 DEF OutcomeInv, Saved, TaskTypeOK, InHand
    <3> QED BY <1>0, <1>3, <1>4, <2>2, <3>1 DEF CommittedIsRecorded, TaskTypeOK
  <2> QED BY <1>1, <2>1, <2>2 DEF OutcomeMoves
<1>10. LogAgrees'
  BY LogAgreesStep DEF OutcomeInv, Next
<1> QED BY <1>7, <1>8, <1>9, <1>10 DEF OutcomeInv

LEMMA EnvironmentKeepsOutcomeInv ==
  ASSUME Typed, EmailInv, OutcomeInv, Environment
  PROVE  OutcomeInv'
<1>0. TaskTypeOK /\ SharedTypeOK /\ InsideBatch
  BY DEF Typed, LoopTyped
<1>1. UNCHANGED <<pc, pos, committed, dlq>>
  BY DEF Environment, Publish, Append1, CancelCampaign, DeleteRow, WriteLog, loopVars, taskVars
<1>2. ASSUME NEW i \in 1..Len(log)
      PROVE  log'[i] = log[i]
  BY <1>0 DEF Environment, Publish, Append1, CancelCampaign, DeleteRow, WriteLog, loopVars, SharedTypeOK
<1>3. ASSUME NEW i \in 1..Len(log), Recorded(log[i])
      PROVE  Recorded(log[i])'
  BY <1>0, <1>2, <1>3, RecordedStays DEF SharedTypeOK, Next, Recorded
<1>4. CommittedIsRecorded'
  BY <1>0, <1>1, <1>3 DEF OutcomeInv, CommittedIsRecorded, SharedTypeOK
<1>5. ASSUME NEW v \in Workers
      PROVE  Saved(v)'
  <2>1. pos[v] \in 0..Len(log) /\ (Busy(v) => pos[v] \in 1..Len(log))
    BY <1>0 DEF TaskTypeOK, SharedTypeOK, InsideBatch
  <2>2. (pc[v] \in {"commit", "commitSkip"} => Recorded(InHand(v)))'
    BY <1>1, <1>3, <2>1 DEF OutcomeInv, Saved, Busy, InHand
  <2>3. (pc[v] = "flagLog" => InHand(v) \in dlq)'
    BY <1>1, <1>2, <2>1 DEF OutcomeInv, Saved, InHand, Busy
  <2>4. ASSUME NEW i \in 1..pos[v]
        PROVE  (Recorded(log[i]) \/ (Busy(v) /\ i = pos[v]))'
    BY <1>0, <1>1, <1>3, <2>1 DEF OutcomeInv, Saved, Busy, TaskTypeOK
  <2> QED BY <1>1, <2>2, <2>3, <2>4 DEF Saved
<1>6. LogAgrees'
  BY LogAgreesStep DEF OutcomeInv, Next
<1> QED BY <1>4, <1>5, <1>6 DEF OutcomeInv

LEMMA InitOutcomeInv == Init => OutcomeInv
BY DEF Init, LoopInit, OutcomeInv, CommittedIsRecorded, LogAgrees, Saved, Busy

IInv == Typed /\ EmailInv /\ OutcomeInv

LEMMA NextIInv == IInv /\ [Next]_vars => IInv'
<1>1. CASE UNCHANGED vars
  <2>1. OutcomeInv => OutcomeInv'
    BY <1>1
    DEF vars, loopVars, sendVars, OutcomeInv, CommittedIsRecorded, LogAgrees, Saved, Recorded, Busy,
        InHand
  <2> QED BY <1>1, <2>1, NextTyped, NextEmailInv DEF IInv
<1>2. CASE Next
  <2>1. ASSUME IInv PROVE OutcomeInv'
    BY <1>2, <2>1, StepKeepsOutcomeInv, EnvironmentKeepsOutcomeInv DEF Next, IInv
  <2> QED BY <1>2, <2>1, NextTyped, NextEmailInv DEF IInv
<1> QED BY <1>1, <1>2

\* The whole inductive invariant holds of every behaviour.
THEOREM Invariant == Spec => []IInv
<1>1. Init => IInv
  BY InitTyped, InitEmailInv, InitOutcomeInv DEF IInv
<1> QED BY <1>1, NextIInv, PTL DEF Spec

\* A record behind the committed offset has its outcome or the cause of its
\* failure saved, whatever fails on the way (consumer.py's own invariant).
THEOREM NoRecordIsLost == Spec => []CommittedIsRecorded
<1>1. IInv => CommittedIsRecorded
  BY DEF IInv, OutcomeInv
<1> QED BY <1>1, Invariant, PTL

\* A result this stage left in the log is the result in the row (_record_result).
THEOREM LogAlwaysAgrees == Spec => []LogAgrees
<1>1. IInv => LogAgrees
  BY DEF IInv, OutcomeInv
<1> QED BY <1>1, Invariant, PTL

-----------------------------------------------------------------------------
(* The stage implements MailQueue.                                         *)

Closed == {r \in Records : Recorded(r)}
Emails == [r \in Records |-> IF r \in Notifications THEN accepted[r] ELSE 0]

\* A step closes at most the record it is about.
LEMMA CloseOne ==
  ASSUME Typed, [Next]_vars, NEW n,
         \A r \in Records : Recorded(r)' => Recorded(r) \/ r = n
  PROVE  Closed' = Closed \/ (n \in Records /\ Closed' = Closed \cup {n})
<1>1. \A r \in Records : Recorded(r) => Recorded(r)'
  BY RecordedStays
<1>2. Closed \subseteq Closed'
  BY <1>1 DEF Closed
<1>3. Closed' \subseteq Closed \cup {n}
  BY DEF Closed
<1>4. Closed' \subseteq Records
  BY DEF Closed
<1> QED BY <1>2, <1>3, <1>4

LEMMA HandlerClosesInHand ==
  ASSUME IInv, NEW w \in Workers, Handle(w), NEW r \in Records, Recorded(r)'
  PROVE  Recorded(r) \/ r = InHand(w)
<1>0. RowTypeOK
  BY DEF IInv, Typed, LoopTyped
<1>1. r \in dlq' => r \in dlq \/ r = InHand(w)
  BY DEF Handle, RejectMalformed, PassOtherChannel, Claim, ClaimWrites, SendEmail, Confirm,
     RecordSent, RecordFailed, RecordResult, RejectRefused, FlagDlq, FlagLog
<1>2. ASSUME r \in Notifications
      PROVE  status'[r] \in Terminal \cup {"deleted"} => status'[r] = status[r] \/ r = InHand(w)
  BY <1>0, <1>2
  DEF Handle, RejectMalformed, PassOtherChannel, Claim, ClaimWrites, SendEmail, Confirm,
      RecordSent, RecordFailed, RecordResult, RejectRefused, FlagDlq, FlagLog, sendVars, rowVars,
      RowTypeOK, Terminal
<1> QED BY <1>1, <1>2 DEF Recorded

LEMMA HandlerImplementsQueue ==
  ASSUME IInv, NEW w \in Workers, Handle(w)
  PROVE  [Queue!Next]_(Queue!vars)
<1> DEFINE n == InHand(w)
<1>0. RowTypeOK /\ Busy(w) /\ n \in Records
  BY HandleTask, InHandIsRecord DEF IInv, Typed, LoopTyped
<1>1. log' = log /\ committed' = committed
  BY DEF Handle, kafkaVars, RejectMalformed, PassOtherChannel, Claim, SendEmail, Confirm,
      RecordSent, RecordFailed, RecordResult, RejectRefused, FlagDlq, FlagLog
<1>2. CASE accepted' = accepted
  <2>1. Closed' = Closed \/ Closed' = Closed \cup {n}
    BY CloseOne, HandlerClosesInHand DEF Next, IInv
  <2>2. Emails' = Emails
    BY <1>2 DEF Emails
  <2> QED
    BY <1>0, <1>1, <2>1, <2>2 DEF Queue!Next, Queue!Close, Queue!vars, Closed, Emails
<1>3. CASE accepted' # accepted
  <2>1. /\ pc[w] = "smtp" /\ UNCHANGED <<rowVars, dlq>>
        /\ accepted' = [accepted EXCEPT ![n] = @ + 1]
    BY <1>3
    DEF Handle, RejectMalformed, PassOtherChannel, Claim, SendEmail, Confirm, RecordSent,
        RecordFailed, RecordResult, RejectRefused, FlagDlq, FlagLog, sendVars
  <2>2. n \in Notifications /\ accepted[n] = 0
    BY <2>1, SendAssumption DEF IInv, EmailInv, HandlesNotification, Sender
  <2>3. Closed' = Closed
    BY <2>1 DEF Closed, Recorded, rowVars
  <2>4. Emails[n] = 0 /\ Emails' = [Emails EXCEPT ![n] = 1]
    <3> HIDE DEF n
    <3>1. \A r \in Notifications : accepted'[r] = IF r = n THEN 1 ELSE accepted[r]
      BY <1>0, <2>1, <2>2 DEF RowTypeOK
    <3>2. Emails' = [r \in Records |-> IF r = n THEN 1 ELSE Emails[r]]
      BY <2>2, <3>1 DEF Emails
    <3>3. Emails[n] = 0
      BY <1>0, <2>2 DEF Emails
    <3>4. DOMAIN Emails = Records /\ Emails = [r \in Records |-> Emails[r]]
      BY DEF Emails
    <3> QED BY <3>2, <3>3, <3>4
  <2> QED
    BY <1>0, <1>1, <2>3, <2>4 DEF Queue!Next, Queue!Deliver, Queue!vars, Closed, Emails
<1> QED BY <1>2, <1>3

LEMMA LoopImplementsQueue ==
  ASSUME IInv, NEW w \in Workers, Loop(w)
  PROVE  [Queue!Next]_(Queue!vars)
<1>0. SharedTypeOK /\ RowTypeOK /\ TaskTypeOK
  BY DEF IInv, Typed, LoopTyped
<1>1. log' = log /\ UNCHANGED sendVars /\ OutcomeMoves(w)
  BY LoopTask, LoopOutcome DEF IInv
<1>2. Emails' = Emails
  BY <1>1 DEF Emails, sendVars
<1>3. CASE dlq' = dlq
  <2>1. Closed' = Closed
    BY <1>1, <1>3 DEF Closed, Recorded, sendVars
  <2>2. CASE committed' = committed
    BY <1>1, <1>2, <2>1, <2>2 DEF Queue!vars, Closed, Emails
  <2>3. CASE committed' = pos[w] /\ Busy(w) /\ Recorded(InHand(w))
    <3>1. pos[w] \in 1..Len(log)
      BY <2>3, InHandIsRecord DEF IInv, Typed
    <3>2. \A i \in 1..pos[w] : log[i] \in Closed
      BY <1>0, <2>3, <3>1
      DEF IInv, OutcomeInv, Saved, Closed, SharedTypeOK, InHand
    <3> QED
      BY <1>1, <1>2, <2>1, <2>3, <3>1, <3>2
      DEF Queue!Next, Queue!Settle, Queue!vars, Closed, Emails
  <2> QED BY <1>1, <2>2, <2>3 DEF OutcomeMoves
<1>4. CASE dlq' # dlq
  <2>1. /\ committed' = committed /\ Busy(w)
        /\ \A r \in dlq' : r \in dlq \/ r = InHand(w)
    BY <1>4
    DEF Loop, GetMany, BeginRecord, Begin, Resume, GiveUp, TryAgain, DeadlineExpires, Commit,
        CommitSkip, Crash, Rebalance, kafkaVars, Busy
  <2>2. \A r \in Records : Recorded(r)' => Recorded(r) \/ r = InHand(w)
    BY <1>1, <2>1 DEF Recorded, sendVars
  <2>3. Closed' = Closed \/ (InHand(w) \in Records /\ Closed' = Closed \cup {InHand(w)})
    BY <2>2, CloseOne DEF Next, IInv
  <2> QED
    BY <1>1, <1>2, <2>1, <2>3 DEF Queue!Next, Queue!Close, Queue!vars, Closed, Emails
<1> QED BY <1>3, <1>4

LEMMA EnvironmentImplementsQueue ==
  ASSUME IInv, Environment
  PROVE  [Queue!Next]_(Queue!vars)
<1>0. RowTypeOK
  BY DEF IInv, Typed, LoopTyped
<1>1. dlq' = dlq /\ committed' = committed /\ Emails' = Emails
  BY DEF Environment, Publish, Append1, CancelCampaign, DeleteRow, WriteLog, loopVars, Emails
<1>2. ASSUME NEW r \in Records, Publish(r)
      PROVE  [Queue!Next]_(Queue!vars)
  <2>1. \A x \in Records : Recorded(x)' => Recorded(x) \/ x = r
    BY <1>0, <1>1, <1>2 DEF Recorded, Publish, RowTypeOK
  <2>2. Closed' = Closed \/ Closed' = Closed \cup {r}
    BY <1>2, <2>1, CloseOne DEF Next, Environment, IInv
  <2>3. log' = Append(log, r)
    BY <1>2 DEF Publish, Append1
  <2> QED
    BY <1>1, <1>2, <2>2, <2>3 DEF Queue!Next, Queue!Submit, Closed, Emails
<1>3. ASSUME NEW n \in Notifications, CancelCampaign(n) \/ DeleteRow(n) \/ WriteLog(n)
      PROVE  [Queue!Next]_(Queue!vars)
  <2>1. \A x \in Records : Recorded(x)' => Recorded(x) \/ x = n
    BY <1>0, <1>1, <1>3 DEF Recorded, CancelCampaign, DeleteRow, WriteLog, RowTypeOK
  <2>2. Closed' = Closed \/ (n \in Records /\ Closed' = Closed \cup {n})
    BY <1>3, <2>1, CloseOne DEF Next, Environment, IInv
  <2>3. log' = log
    BY <1>3 DEF CancelCampaign, DeleteRow, WriteLog, loopVars
  <2> QED
    BY <1>1, <2>2, <2>3 DEF Queue!Next, Queue!Close, Queue!vars, Closed, Emails
<1> QED BY <1>2, <1>3 DEF Environment

\* Seen from outside, the stage with all its retries and crashes is a queue
\* that delivers at most one email per record and settles only closed records.
THEOREM StageIsMailQueue == Spec => ImplementsMailQueue
<1>1. Init => Queue!Init
  BY SendAssumption DEF Init, LoopInit, Queue!Init, Recorded, Terminal
<1>2. IInv /\ [Next]_vars => [Queue!Next]_(Queue!vars)
  <2>1. CASE UNCHANGED vars
    BY <2>1 DEF vars, loopVars, sendVars, Queue!vars, Recorded
  <2> QED
    BY <2>1, LoopImplementsQueue, HandlerImplementsQueue, EnvironmentImplementsQueue DEF Next
<1> QED BY <1>1, <1>2, Invariant, PTL DEF Spec, ImplementsMailQueue, Queue!Spec

-----------------------------------------------------------------------------
(* The rows, and what a delivery leaves behind. *)

\* An accepted email leaves a trace behind the committed offset: the row says
\* 'sent', or the DLQ has the record, or a manager cancelled the campaign.
THEOREM DeliveryLeavesTrace == Spec => []DeliveredIsTraced
<1>1. IInv => DeliveredIsTraced
  <2> SUFFICES ASSUME IInv, NEW i \in 1..committed, log[i] \in Notifications,
                      accepted[log[i]] >= 1
               PROVE  \/ status[log[i]] \in {"sent", "deleted"}
                      \/ log[i] \in dlq \cup cancelled
    BY DEF DeliveredIsTraced
  <2>1. Recorded(log[i])
    BY DEF IInv, OutcomeInv, CommittedIsRecorded
  <2>2. accepted[log[i]] # 0
    BY DEF IInv, Typed, LoopTyped, RowTypeOK
  <2> QED
    BY <2>1, <2>2, SendAssumption
    DEF IInv, EmailInv, FreshRow, FailedUnsent, Recorded, Terminal, Untouched
<1> QED BY <1>1, Invariant, PTL

\* A row never goes back: 'sent' and 'skipped' are final, and 'failed' becomes
\* 'sent' only for an email that the server did accept.
THEOREM RowsOnlyMoveForward == Spec => RowsMoveForward
<1> DEFINE Forward(n) ==
       CASE status[n] = "absent" -> status'[n] \in {"pending", "skipped"}
         [] status[n] = "pending" -> status'[n] \in {"sending", "failed", "deleted"}
         [] status[n] = "sending" -> status'[n] \in Terminal \cup {"deleted"}
         [] status[n] = "failed" -> \/ status'[n] = "deleted"
                                    \/ status'[n] = "sent" /\ accepted[n] >= 1
         [] OTHER -> status'[n] = "deleted"
<1>1. ASSUME IInv, Next, NEW n \in Notifications, status'[n] # status[n]
      PROVE  Forward(n)
  <2>0. RowTypeOK
    BY <1>1 DEF IInv, Typed, LoopTyped
  <2>1. ASSUME NEW w \in Workers, Loop(w)
        PROVE  FALSE
    BY <1>1, <2>1, LoopTask DEF IInv, sendVars
  <2>2. ASSUME NEW w \in Workers, Handle(w)
        PROVE  Forward(n)
    <3>1. Claim(w) \/ RecordSent(w) \/ RecordFailed(w)
      BY <1>1, <2>2
      DEF Handle, RejectMalformed, PassOtherChannel, SendEmail, Confirm, RejectRefused, FlagDlq,
          FlagLog, sendVars, rowVars
    <3>2. CASE Claim(w)
      <4>1. Verdict(InHand(w), attempt[w]) = "unclaimed" /\ n = InHand(w) /\ status'[n] = "sending"
        BY <1>1, <2>0, <3>2 DEF Claim, ClaimWrites, rowVars, RowTypeOK
      <4>2. status[n] = "pending"
        BY <4>1 DEF Verdict
      <4> QED BY <4>1, <4>2
    <3>3. CASE RecordSent(w)
      <4>1. pc[w] = "record" /\ n = InHand(w) /\ status'[n] = "sent" /\ HasRow(n)
        BY <1>1, <2>0, <3>3 DEF RecordSent, RecordResult, RowTypeOK
      <4>2. confirmed[n] /\ accepted[n] >= 1
        BY <1>1, <4>1 DEF IInv, EmailInv, Delivered, SentWasAccepted
      <4>3. status[n] \in {"sending", "failed", "sent"}
        BY <1>1, <2>0, <4>1, <4>2
        DEF IInv, EmailInv, FreshRow, Untouched, HasRow, RowTypeOK, Statuses, Terminal
      <4> QED BY <1>1, <4>1, <4>2, <4>3 DEF Terminal
    <3>4. CASE RecordFailed(w)
      <4>1. pc[w] = "recordFailed" /\ n = InHand(w) /\ status'[n] = "failed" /\ HasRow(n)
        BY <1>1, <2>0, <3>4 DEF RecordFailed, RecordResult, RowTypeOK
      <4>2. accepted[n] = 0 /\ status[n] \notin Untouched
        BY <1>1, <4>1 DEF IInv, EmailInv, Sender
      <4>3. status[n] \in {"sending", "failed"}
        BY <1>1, <2>0, <4>1, <4>2
        DEF IInv, EmailInv, SentWasAccepted, Untouched, HasRow, RowTypeOK, Statuses, Terminal
      <4> QED BY <1>1, <4>1, <4>3 DEF Terminal
    <3> QED BY <3>1, <3>2, <3>3, <3>4
  <2>3. ASSUME Environment
        PROVE  Forward(n)
    <3>1. \/ status[n] = "absent" /\ status'[n] \in {"pending", "skipped"}
          \/ status[n] \in {"pending", "sending"} /\ status'[n] = "failed"
          \/ HasRow(n) /\ status'[n] = "deleted"
      BY <1>1, <2>0, <2>3 DEF Environment, Publish, CancelCampaign, DeleteRow, WriteLog, RowTypeOK
    <3> QED BY <2>0, <3>1 DEF HasRow, Terminal
  <2> QED BY <1>1, <2>1, <2>2, <2>3 DEF Next
<1>2. IInv /\ [Next]_vars =>
        [\A n \in Notifications : status'[n] # status[n] => Forward(n)]_vars
  BY <1>1
<1> QED BY <1>2, Invariant, PTL DEF Spec, RowsMoveForward


-----------------------------------------------------------------------------
(* The pool of SMTP connections.                                           *)
(*                                                                         *)
(* A connection is in one place, for any number of tasks, identities and   *)
(* slots: Exclusive. A task holds a client only between acquire and        *)
(* release, so what it takes from the queue, or connects, it takes into an *)
(* empty hand; and a client is either moved or given an identity that is   *)
(* in no place.                                                            *)

PoolTyped ==
  /\ at \in [Tasks -> Steps]
  /\ holds \in [Tasks -> Conns \cup {None}]
  /\ pool \in Seq(Conns)

\* Only a task that checks, uses or discards a client refers to one.
EmptyHanded ==
  \A t \in Tasks : at[t] \notin {"check", "using"} \cup Discards => holds[t] = None

HeldByOne == \A t, u \in Tasks : holds[t] = holds[u] /\ holds[t] # None => t = u

PooledIsFree == \A t \in Tasks, i \in 1..Len(pool) : holds[t] # pool[i]

PooledOnce == \A i, j \in 1..Len(pool) : pool[i] = pool[j] => i = j

PoolInv == PoolTyped /\ EmptyHanded /\ HeldByOne /\ PooledIsFree /\ PooledOnce

\* A task takes the first client of the queue.
LEMMA Taken ==
  ASSUME PoolAssumption, PoolInv, NEW t \in Tasks, holds[t] = None, TakeFromPool(t)
  PROVE  PoolInv'
<1> USE DEF PoolInv, PoolTyped
<1>1. /\ pool # <<>> /\ holds' = [holds EXCEPT ![t] = pool[1]] /\ pool' = Tail(pool)
      /\ at' = [at EXCEPT ![t] = "check"]
  BY DEF TakeFromPool, TakeHold, GoOn
<1>2. /\ Len(pool) >= 1 /\ pool[1] \in Conns /\ pool' \in Seq(Conns)
      /\ Len(pool') = Len(pool) - 1
      /\ \A i \in 1..Len(pool') : pool'[i] = pool[i + 1] /\ i + 1 \in 1..Len(pool) /\ i + 1 # 1
  BY <1>1
<1>3. PoolTyped' /\ EmptyHanded'
  BY <1>1, <1>2 DEF EmptyHanded, Steps, Discards
<1>4. HeldByOne'
  BY <1>1, <1>2 DEF HeldByOne, PooledIsFree
<1>5. PooledIsFree'
  BY <1>1, <1>2 DEF PooledIsFree, PooledOnce
<1>6. PooledOnce'
  BY <1>1, <1>2 DEF PooledOnce
<1> QED  BY <1>3, <1>4, <1>5, <1>6

\* A task that connects holds a client of a fresh identity.
LEMMA Connected ==
  ASSUME PoolAssumption, PoolInv, NEW t \in Tasks, NEW c \in Fresh,
         TakeHold(t, c), GoOn(t, "check") \/ GoOn(t, "using"), pool' = pool
  PROVE  PoolInv'
<1> USE DEF PoolInv, PoolTyped
<1>1. c \in Conns /\ (\A u \in Tasks : holds[u] # c) /\ \A i \in 1..Len(pool) : pool[i] # c
  BY DEF Fresh, Pooled, Held, PoolAssumption
<1> QED  BY <1>1 DEF EmptyHanded, HeldByOne, PooledIsFree, PooledOnce, TakeHold, GoOn, Steps, Discards

LEMMA NoneIsNoClient ==
  ASSUME PoolAssumption, PoolTyped
  PROVE  \A i \in 1..Len(pool) : pool[i] # None
  BY DEF PoolAssumption, PoolTyped

\* A task whose hand is empty afterwards, or as it was.
LEMMA Dropped ==
  ASSUME PoolAssumption, PoolInv, NEW t \in Tasks, pool' = pool, NEW step \in Steps, GoOn(t, step),
         \/ TakeHold(t, None)
         \/ holds' = holds /\ (holds[t] = None \/ step \in {"check", "using"} \cup Discards)
  PROVE  PoolInv'
<1> USE DEF PoolInv, PoolTyped, TakeHold, GoOn
<1>1. \A u \in Tasks : holds'[u] \in {holds[u], None}
  OBVIOUS
<1>2. PoolTyped' /\ EmptyHanded'
  BY DEF EmptyHanded
<1>3. HeldByOne'
  BY <1>1 DEF HeldByOne
<1>4. PooledIsFree' /\ PooledOnce'
  BY <1>1, NoneIsNoClient DEF PooledIsFree, PooledOnce
<1> QED  BY <1>2, <1>3, <1>4

\* A client is put in the queue that no task holds any more and that is not there.
LEMMA Queued ==
  ASSUME PoolInv, NEW t \in Tasks, NEW c \in Conns, pool' = Append(pool, c), GoOn(t, "idle"),
         holds' = [holds EXCEPT ![t] = None],
         \A u \in Tasks \ {t} : holds[u] # c, \A i \in 1..Len(pool) : pool[i] # c,
         PoolAssumption
  PROVE  PoolInv'
<1> USE DEF PoolInv, PoolTyped
<1>1. /\ pool' \in Seq(Conns) /\ Len(pool') = Len(pool) + 1 /\ pool'[Len(pool) + 1] = c
      /\ \A i \in 1..Len(pool) : pool'[i] = pool[i]
  OBVIOUS
<1>2. PoolTyped' /\ EmptyHanded' /\ HeldByOne'
  BY <1>1 DEF EmptyHanded, HeldByOne, GoOn, Steps
<1>3. PooledIsFree'
  BY <1>1 DEF PooledIsFree, PoolAssumption
<1>4. PooledOnce'
  BY <1>1 DEF PooledOnce
<1> QED  BY <1>2, <1>3, <1>4

\* Members are clients.
LEMMA MembersStep ==
  ASSUME NEW t \in Tasks, Step(t), members \subseteq Conns
  PROVE  members' \subseteq Conns
  BY DEF Step, Acquire, EnterLock, PoolGet, TakeFromPool, ConnectMember, Timeout, ConnectExtra, Check,
         DiscardLocked, Discard, ReplaceStale, Release, ReplaceBroken, Fresh

LEMMA InvStep ==
  ASSUME PoolAssumption, PoolInv, members \subseteq Conns, NEW t \in Tasks, Step(t)
  PROVE  PoolInv'
<1> USE DEF Steps, Waiting, Discards
<1>1. CASE Acquire(t)
  <2>1. holds[t] = None
    BY <1>1 DEF Acquire, PoolInv, EmptyHanded
  <2> QED  BY <1>1, <2>1, Taken, Dropped DEF Acquire
<1>2. CASE EnterLock(t)
  <2>1. holds[t] = None
    BY <1>2 DEF EnterLock, PoolInv, EmptyHanded
  <2> QED  BY <1>2, <2>1, Taken, Dropped DEF EnterLock
<1>3. CASE PoolGet(t)
  <2>1. holds[t] = None
    BY <1>3 DEF PoolGet, PoolInv, EmptyHanded
  <2> QED  BY <1>3, <2>1, Taken DEF PoolGet
<1>4. CASE ConnectMember(t)
  <2>1. holds[t] = None
    BY <1>4 DEF ConnectMember, PoolInv, EmptyHanded
  <2> QED  BY <1>4, <2>1, Connected, Dropped DEF ConnectMember
<1>5. CASE Timeout(t)
  <2>1. holds[t] = None
    BY <1>5 DEF Timeout, PoolInv, EmptyHanded
  <2> QED  BY <1>5, <2>1, Dropped DEF Timeout
<1>6. CASE ConnectExtra(t)
  <2>1. holds[t] = None
    BY <1>6 DEF ConnectExtra, PoolInv, EmptyHanded
  <2> QED  BY <1>6, <2>1, Connected, Dropped DEF ConnectExtra
<1>7. CASE Check(t)
  BY <1>7, Dropped DEF Check, Discard
<1>8. CASE DiscardLocked(t)
  BY <1>8, Dropped DEF DiscardLocked
<1>9. CASE ReplaceStale(t)
  <2>1. holds[t] = None
    BY <1>9 DEF ReplaceStale, PoolInv, EmptyHanded
  <2> QED  BY <1>9, <2>1, Connected, Dropped DEF ReplaceStale
<1>10. CASE Release(t)
  <2>1. CASE holds[t] \notin open /\ holds[t] \in members
    BY <1>10, <2>1, Dropped DEF Release, Discard
  <2>2. CASE ~ (holds[t] \notin open /\ holds[t] \in members) /\ holds[t] \in members
    <3>0. holds[t] # None
      BY <2>2 DEF PoolAssumption
    <3>1. /\ holds[t] \in Conns
          /\ \A u \in Tasks \ {t} : holds[u] # holds[t]
          /\ \A i \in 1..Len(pool) : pool[i] # holds[t]
      BY <2>2, <3>0 DEF PoolInv, PoolTyped, HeldByOne, PooledIsFree
    <3> QED  BY <1>10, <2>2, <3>1, Queued DEF Release, TakeHold
  <2>3. CASE holds[t] \notin members
    BY <1>10, <2>3, Dropped DEF Release
  <2> QED  BY <2>1, <2>2, <2>3
<1>11. CASE ReplaceBroken(t)
  <2>1. holds[t] = None
    BY <1>11 DEF ReplaceBroken, PoolInv, EmptyHanded
  <2>2. CASE pool' = pool
    BY <1>11, <2>1, <2>2, Dropped DEF ReplaceBroken
  <2>3. ASSUME NEW c \in Fresh, pool' = Append(pool, c) PROVE PoolInv'
    <3>1. /\ c \in Conns /\ (\A u \in Tasks : holds[u] # c) /\ \A i \in 1..Len(pool) : pool[i] # c
      BY DEF Fresh, Pooled, Held, PoolAssumption
    <3>2. holds' = [holds EXCEPT ![t] = None]
      BY <1>11, <2>1 DEF ReplaceBroken, PoolInv, PoolTyped
    <3> QED  BY <1>11, <2>3, <3>1, <3>2, Queued DEF ReplaceBroken
  <2> QED  BY <1>11, <2>2, <2>3 DEF ReplaceBroken
<1> QED  BY <1>1, <1>2, <1>3, <1>4, <1>5, <1>6, <1>7, <1>8, <1>9, <1>10, <1>11 DEF Step

\* A queue without repetitions is as long as the set of its clients is large.
LEMMA NoRepetition ==
  ASSUME PoolTyped, PooledOnce
  PROVE  Cardinality(Pooled) = Len(pool)
<1> DEFINE place == [i \in 1..Len(pool) |-> pool[i]]
<1>1. place \in Bijection(1..Len(pool), Pooled)
  BY DEF Bijection, Injection, IsInjective, Surjection, Pooled, PooledOnce, PoolTyped
<1>2. Len(pool) \in Nat
  BY DEF PoolTyped
<1>3. IsFiniteSet(1..Len(pool)) /\ Cardinality(1..Len(pool)) = Len(pool)
  <2> DEFINE n == Len(pool)
  <2>1. n \in Nat
    BY <1>2
  <2> HIDE DEF n
  <2>2. 1 \in Int /\ n \in Int
    BY <2>1
  <2>3. IsFiniteSet(1..n) /\ Cardinality(1..n) = IF 1 > n THEN 0 ELSE n - 1 + 1
    BY <2>2, FS_Interval
  <2>4. (IF 1 > n THEN 0 ELSE n - 1 + 1) = n
    BY <2>1
  <2>5. IsFiniteSet(1..n) /\ Cardinality(1..n) = n
    BY <2>3, <2>4
  <2> QED  BY <2>5 DEF n
<1>4. ExistsBijection(1..Len(pool), Pooled)
  BY <1>1 DEF ExistsBijection
<1> QED  BY <1>3, <1>4, FS_Bijection

\* No connection is in two places, whatever times out, breaks or is replaced.
THEOREM ConnectionsAreExclusive == PoolSpec => []Exclusive
<1> DEFINE Inv == PoolInv /\ members \subseteq Conns
<1>1. PoolInit => Inv
  BY PoolAssumption DEF PoolInit, PoolInv, PoolTyped, EmptyHanded, HeldByOne, PooledIsFree, PooledOnce, Steps
<1>2. Inv /\ [PoolNext]_poolVars => Inv'
  <2>1. ASSUME Inv, NEW c \in Conns, Drop(c) PROVE Inv'
    BY <2>1 DEF Drop, PoolInv, PoolTyped, EmptyHanded, HeldByOne, PooledIsFree, PooledOnce
  <2>2. Inv /\ UNCHANGED poolVars => Inv'
    BY DEF poolVars, PoolInv, PoolTyped, EmptyHanded, HeldByOne, PooledIsFree, PooledOnce
  <2> QED  BY <2>1, <2>2, InvStep, MembersStep, PoolAssumption DEF PoolNext
<1>3. Inv => Exclusive
  BY NoRepetition DEF PoolInv, HeldByOne, PooledIsFree, Pooled, Held, Exclusive
<1> QED  BY <1>1, <1>2, <1>3, PTL DEF PoolSpec
=============================================================================
