-------------------------- MODULE ConsumerLoopProofs --------------------------
(***************************************************************************)
(* Lemmas about the consumer loop that the proofs of both stages stand on: *)
(* what a step of the loop does to the task of a process, and that the     *)
(* offset moves only over the record in hand, from one of the two steps    *)
(* that commit.                                                            *)
(***************************************************************************)
EXTENDS ConsumerLoop, TLAPS

\* The record in hand is a record of the batch, and the batch is in the log.
InsideBatch ==
  \A w \in Workers :
    /\ pos[w] <= fetched[w] /\ fetched[w] <= Len(log)
    /\ Busy(w) => pos[w] >= 1

TaskTypeOK ==
  /\ pc \in [Workers -> LoopSteps \cup HandlerSteps]
  /\ pos \in [Workers -> Nat]
  /\ fetched \in [Workers -> Nat]
  /\ attempt \in [Workers -> Attempts \cup {NoAttempt}]
  /\ tries \in [Workers -> 0..(RetryMax + 1)]
  /\ pauses \in [Workers -> 0..(MaxPause + 1)]
  /\ hold \in [Workers -> BOOLEAN]
  /\ paused \in [Workers -> BOOLEAN]

\* The variables that are not the task of a process.
SharedTypeOK ==
  /\ log \in Seq(Records)
  /\ committed \in 0..Len(log)
  /\ owner \in Workers
  /\ dlq \subseteq Records

LoopTyped == TaskTypeOK /\ SharedTypeOK /\ InsideBatch

LEMMA LoopTypeParts == LoopTypeOK <=> TaskTypeOK /\ SharedTypeOK
BY DEF LoopTypeOK, TaskTypeOK, SharedTypeOK

LEMMA LoopTypePartsNext == LoopTypeOK' <=> TaskTypeOK' /\ SharedTypeOK'
BY DEF LoopTypeOK, TaskTypeOK, SharedTypeOK

LEMMA InHandIsRecord ==
  ASSUME LoopTyped, NEW w \in Workers, Busy(w)
  PROVE  InHand(w) \in Records /\ pos[w] \in 1..Len(log)
BY DEF LoopTyped, TaskTypeOK, SharedTypeOK, InsideBatch, InHand

LEMMA LoopInitTyped == LoopInit => LoopTyped
BY LoopAssumption
DEF LoopInit, LoopSteps, LoopTyped, TaskTypeOK, SharedTypeOK, InsideBatch, Busy

-----------------------------------------------------------------------------
(* What the pieces of a step do to the types of the task. *)

LEMMA ExitTyped ==
  ASSUME TaskTypeOK, InsideBatch, NEW w \in Workers, Exit(w), log' = log, log \in Seq(Records)
  PROVE  TaskTypeOK' /\ InsideBatch'
BY LoopAssumption DEF Exit, Goto, TaskTypeOK, InsideBatch, Busy, LoopSteps

LEMMA NextTryTyped ==
  ASSUME TaskTypeOK, InsideBatch, NEW w \in Workers, Busy(w), NextTry(w), log' = log
  PROVE  TaskTypeOK' /\ InsideBatch'
<1>1. (pc \in [Workers -> LoopSteps \cup HandlerSteps])'
  BY DEF NextTry, TaskTypeOK, Goto, LoopSteps
<1>2. (tries \in [Workers -> 0..(RetryMax + 1)])'
  BY LoopAssumption DEF NextTry, TaskTypeOK, Exhausted
<1>3. (pauses \in [Workers -> 0..(MaxPause + 1)])'
  BY LoopAssumption DEF NextTry, TaskTypeOK, Exhausted
<1>4. (paused \in [Workers -> BOOLEAN])'
  BY DEF NextTry, TaskTypeOK
<1>5. UNCHANGED <<pos, fetched, attempt, hold>>
  BY DEF NextTry, inHandVars
<1>6. InsideBatch'
  BY <1>5 DEF NextTry, TaskTypeOK, Goto, InsideBatch, Busy
<1> QED BY <1>1, <1>2, <1>3, <1>4, <1>5, <1>6 DEF TaskTypeOK

LEMMA FailTyped ==
  ASSUME TaskTypeOK, InsideBatch, NEW w \in Workers, Busy(w), Fail(w), log' = log,
         log \in Seq(Records)
  PROVE  TaskTypeOK' /\ InsideBatch'
BY NextTryTyped, ExitTyped DEF Fail

LEMMA AdvanceTyped ==
  ASSUME TaskTypeOK, InsideBatch, NEW w \in Workers, Busy(w),
         NEW step \in LoopSteps \cup HandlerSteps, Advance(w, step), log' = log
  PROVE  TaskTypeOK' /\ InsideBatch'
BY DEF TaskTypeOK, Goto, Advance, InsideBatch, Busy, inHandVars, retryVars

LEMMA HoldTyped ==
  ASSUME TaskTypeOK, InsideBatch, NEW w \in Workers, Busy(w), Hold(w), log' = log,
         log \in Seq(Records)
  PROVE  TaskTypeOK' /\ InsideBatch'
<1>1. CASE Keep(w)
  BY <1>1 DEF Keep, TaskTypeOK, Goto, LoopSteps, InsideBatch, Busy, inHandVars
<1> QED BY <1>1, ExitTyped DEF Hold

LEMMA FinishTyped ==
  ASSUME TaskTypeOK, InsideBatch, NEW w \in Workers, Finish(w), log' = log
  PROVE  TaskTypeOK' /\ InsideBatch'
BY SMTT(30), LoopAssumption DEF TaskTypeOK, Goto, Finish, LoopSteps, InsideBatch, Busy

-----------------------------------------------------------------------------
(* What the pieces do to where a process is. *)

Ends(w) == pc'[w] = "idle" /\ attempt'[w] = NoAttempt
StepsTo(w, steps) == pc'[w] \in steps /\ pos'[w] = pos[w] /\ attempt'[w] = attempt[w]
Retrying == {"handle", "pausing", "giveUp", "holding"}

OthersStay(w) ==
  \A v \in Workers \ {w} : pc'[v] = pc[v] /\ pos'[v] = pos[v] /\ attempt'[v] = attempt[v]

LEMMA ExitMoves ==
  ASSUME TaskTypeOK, NEW w \in Workers, Exit(w)
  PROVE  OthersStay(w) /\ Ends(w) /\ pos'[w] = 0
BY DEF TaskTypeOK, Exit, Goto, OthersStay, Ends

LEMMA FailMoves ==
  ASSUME TaskTypeOK, NEW w \in Workers, Fail(w)
  PROVE  OthersStay(w) /\ (StepsTo(w, Retrying) \/ (Ends(w) /\ pos'[w] = 0))
<1>1. CASE NextTry(w)
  BY <1>1 DEF TaskTypeOK, NextTry, Goto, inHandVars, OthersStay, StepsTo, Retrying
<1> QED BY <1>1, ExitMoves DEF Fail

LEMMA AdvanceMoves ==
  ASSUME TaskTypeOK, NEW w \in Workers, NEW step, Advance(w, step)
  PROVE  OthersStay(w) /\ StepsTo(w, {step})
BY DEF TaskTypeOK, Advance, Goto, inHandVars, OthersStay, StepsTo

LEMMA HoldMoves ==
  ASSUME TaskTypeOK, NEW w \in Workers, Hold(w)
  PROVE  OthersStay(w) /\ (StepsTo(w, Retrying) \/ (Ends(w) /\ pos'[w] = 0))
<1>1. CASE Keep(w)
  BY <1>1 DEF TaskTypeOK, Keep, Goto, inHandVars, OthersStay, StepsTo, Retrying
<1> QED BY <1>1, ExitMoves DEF Hold

LEMMA FinishMoves ==
  ASSUME TaskTypeOK, NEW w \in Workers, Finish(w)
  PROVE  OthersStay(w) /\ Ends(w) /\ pos' = pos
BY DEF TaskTypeOK, Finish, Goto, OthersStay, Ends

-----------------------------------------------------------------------------
(* The steps of the loop. *)

LoopStep(w) ==
  \/ GetMany(w) \/ (\E a \in Attempts : Begin(w, a)) \/ Resume(w) \/ GiveUp(w) \/ TryAgain(w)
  \/ DeadlineExpires(w) \/ Commit(w) \/ CommitSkip(w) \/ Crash(w) \/ Rebalance(w)

LEMMA LoopStepTyped ==
  ASSUME LoopTyped, NEW w \in Workers, LoopStep(w)
  PROVE  LoopTyped'
<1> USE DEF LoopTyped
<1>1. CASE GetMany(w)
  <2>1. TaskTypeOK' /\ InsideBatch'
    BY SMTT(30), <1>1 DEF GetMany, TaskTypeOK, SharedTypeOK, InsideBatch, Busy, kafkaVars, retryVars
  <2> QED BY <1>1, <2>1 DEF GetMany, SharedTypeOK, kafkaVars
<1>2. ASSUME NEW a \in Attempts, Begin(w, a)
      PROVE  LoopTyped'
  <2>1. TaskTypeOK'
    BY <1>2, LoopAssumption DEF Begin, Goto, TaskTypeOK, LoopSteps
  <2>2. InsideBatch'
    BY <1>2 DEF Begin, Goto, TaskTypeOK, InsideBatch, Busy, kafkaVars
  <2> QED BY <1>2, <2>1, <2>2 DEF Begin, SharedTypeOK, kafkaVars
<1>3. CASE Resume(w)
  <2>1. TaskTypeOK' /\ InsideBatch'
    BY SMTT(30), <1>3, LoopAssumption
    DEF Resume, Goto, LoopSteps, TaskTypeOK, InsideBatch, Busy, kafkaVars, inHandVars
  <2> QED BY <1>3, <2>1 DEF Resume, SharedTypeOK, kafkaVars
<1>4. CASE GiveUp(w)
  <2>1. Busy(w) /\ log' = log /\ InHand(w) \in Records
    BY <1>4, InHandIsRecord DEF GiveUp, Busy, kafkaVars
  <2>2. TaskTypeOK' /\ InsideBatch'
    BY <1>4, <2>1, AdvanceTyped, HoldTyped DEF GiveUp, LoopSteps, SharedTypeOK
  <2> QED BY <1>4, <2>1, <2>2 DEF GiveUp, SharedTypeOK, kafkaVars
<1>5. CASE TryAgain(w)
  <2>1. TaskTypeOK' /\ InsideBatch'
    BY SMTT(30), <1>5, LoopAssumption
    DEF TryAgain, Goto, LoopSteps, TaskTypeOK, InsideBatch, Busy, kafkaVars, inHandVars
  <2> QED BY <1>5, <2>1 DEF TryAgain, SharedTypeOK, kafkaVars
<1>6. CASE DeadlineExpires(w) \/ Crash(w)
  <2>1. TaskTypeOK' /\ InsideBatch'
    BY <1>6, ExitTyped DEF DeadlineExpires, Crash, SharedTypeOK, kafkaVars
  <2> QED BY <1>6, <2>1 DEF DeadlineExpires, Crash, SharedTypeOK, kafkaVars
<1>7. CASE Commit(w) \/ CommitSkip(w)
  <2>1. Busy(w) /\ log' = log /\ pos[w] \in 1..Len(log)
    BY <1>7, InHandIsRecord DEF Commit, CommitSkip, Busy, CommitAccepted, kafkaVars
  <2>2. TaskTypeOK' /\ InsideBatch'
    BY <1>7, <2>1, FinishTyped, FailTyped, ExitTyped DEF Commit, CommitSkip, SharedTypeOK
  <2> QED
    BY <1>7, <2>1, <2>2 DEF Commit, CommitSkip, CommitAccepted, SharedTypeOK, kafkaVars
<1>8. CASE Rebalance(w)
  BY <1>8 DEF Rebalance, taskVars, TaskTypeOK, SharedTypeOK, InsideBatch, Busy
<1> QED
  BY <1>1, <1>2, <1>3, <1>4, <1>5, <1>6, <1>7, <1>8 DEF LoopStep

\* A producer's record leaves every record in hand where it is.
LEMMA AppendTyped ==
  ASSUME LoopTyped, NEW r \in Records, Append1(r)
  PROVE  /\ LoopTyped' /\ Len(log') = Len(log) + 1
         /\ \A i \in 1..Len(log) : log'[i] = log[i]
<1>1. log' \in Seq(Records) /\ Len(log') = Len(log) + 1 /\ \A i \in 1..Len(log) : log'[i] = log[i]
  BY DEF LoopTyped, Append1, SharedTypeOK
<1>2. InsideBatch'
  BY <1>1 DEF LoopTyped, Append1, taskVars, InsideBatch, TaskTypeOK, SharedTypeOK, Busy
<1> QED
  BY <1>1, <1>2 DEF LoopTyped, Append1, taskVars, TaskTypeOK, SharedTypeOK

LEMMA LoopStutterTyped == LoopTyped /\ UNCHANGED loopVars => LoopTyped'
BY DEF LoopTyped, TaskTypeOK, SharedTypeOK, InsideBatch, Busy, loopVars

Committing == {"commit", "commitSkip"}

\* Where a step of the loop takes the process: to the end of a record or of the
\* process, to a new batch, to another call of the handler, to the commit of a
\* record it has given up, or to the next record.
TaskMoves(w) ==
  \/ Ends(w) /\ (pos'[w] = 0 \/ (pc[w] \in Committing /\ pos'[w] = pos[w]))
  \/ ~Busy(w) /\ pc'[w] = "idle" /\ attempt'[w] = attempt[w] /\ pos'[w] \in {pos[w], committed}
  \/ StepsTo(w, {pc[w]})
  \/ pc[w] \in Retrying \cup {"commit"} /\ StepsTo(w, Retrying)
  \/ pc[w] = "giveUp" /\ StepsTo(w, {"commitSkip"}) /\ InHand(w) \in dlq'
  \/ ~Busy(w) /\ pc'[w] = "handle" /\ pos'[w] = pos[w] + 1 /\ attempt'[w] \in Attempts

\* The offset moves to the record in hand, and from a step that commits.
OffsetMoves(w) == committed' = committed \/ (pc[w] \in Committing /\ committed' = pos[w])

LEMMA LoopStepMoves ==
  ASSUME LoopTyped, NEW w \in Workers, LoopStep(w)
  PROVE  OthersStay(w) /\ TaskMoves(w) /\ OffsetMoves(w) /\ log' = log /\ dlq \subseteq dlq'
<1>0. TaskTypeOK
  BY DEF LoopTyped
<1> USE <1>0 DEF Committing
<1>1. CASE GetMany(w)
  BY <1>1 DEF GetMany, TaskTypeOK, OthersStay, TaskMoves, OffsetMoves, Busy, kafkaVars
<1>2. ASSUME NEW a \in Attempts, Begin(w, a)
      PROVE  OthersStay(w) /\ TaskMoves(w) /\ OffsetMoves(w) /\ log' = log /\ dlq \subseteq dlq'
  BY <1>2 DEF Begin, Goto, TaskTypeOK, OthersStay, TaskMoves, OffsetMoves, Busy, kafkaVars
<1>3. CASE Resume(w) \/ TryAgain(w)
  BY <1>3 DEF Resume, TryAgain, Goto, TaskTypeOK, OthersStay, TaskMoves, OffsetMoves, StepsTo,
              Retrying, inHandVars, kafkaVars
<1>4. CASE GiveUp(w)
  <2>1. pc[w] = "giveUp" /\ UNCHANGED kafkaVars
    BY <1>4 DEF GiveUp
  <2>2. PICK o \in DbOutcomes :
          /\ dlq' = IF o = "failed" THEN dlq ELSE dlq \cup {InHand(w)}
          /\ IF o = "done" THEN Advance(w, "commitSkip") ELSE Hold(w)
    BY <1>4 DEF GiveUp
  <2>3. CASE o = "done"
    <3>1. OthersStay(w) /\ StepsTo(w, {"commitSkip"}) /\ InHand(w) \in dlq'
      BY <2>2, <2>3, AdvanceMoves
    <3> QED BY <2>1, <2>2, <3>1 DEF TaskMoves, OffsetMoves, kafkaVars
  <2>4. CASE o # "done"
    <3>1. OthersStay(w) /\ (StepsTo(w, Retrying) \/ (Ends(w) /\ pos'[w] = 0))
      BY <2>2, <2>4, HoldMoves
    <3> QED BY <2>1, <2>2, <3>1 DEF TaskMoves, OffsetMoves, Retrying, kafkaVars
  <2> QED BY <2>3, <2>4
<1>5. CASE DeadlineExpires(w) \/ Crash(w)
  BY <1>5, ExitMoves DEF DeadlineExpires, Crash, TaskMoves, OffsetMoves, kafkaVars
<1>6. CASE Commit(w) \/ CommitSkip(w)
  <2>1. OthersStay(w) /\ TaskMoves(w)
    <3>1. CASE Finish(w)
      BY <1>6, <3>1, FinishMoves DEF Commit, CommitSkip, TaskMoves
    <3>2. CASE Exit(w)
      BY <3>2, ExitMoves DEF TaskMoves
    <3>3. CASE pc[w] = "commit" /\ Fail(w)
      BY <3>3, FailMoves DEF TaskMoves
    <3> QED BY <1>6, <3>1, <3>2, <3>3 DEF Commit, CommitSkip
  <2> QED
    BY <1>6, <2>1 DEF Commit, CommitSkip, CommitAccepted, OffsetMoves, kafkaVars
<1>7. CASE Rebalance(w)
  BY <1>7 DEF Rebalance, taskVars, OthersStay, TaskMoves, OffsetMoves, StepsTo
<1> QED
  BY <1>1, <1>2, <1>3, <1>4, <1>5, <1>6, <1>7 DEF LoopStep
=============================================================================
