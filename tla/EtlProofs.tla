-------------------------------- MODULE EtlProofs -------------------------------
(***************************************************************************)
(* Proofs about the two ETL processes, by an inductive invariant each.     *)
(*                                                                         *)
(* AnalyticsEtl: no committed event is lost, for every set of records,     *)
(* batch size and length of the partition.                                 *)
(*                                                                         *)
(* SearchEtl: no cursor passes a row that its index lacks, and a rename    *)
(* reaches the films, for every set of rows, jobs and batch size.          *)
(***************************************************************************)
EXTENDS AnalyticsEtl, SearchEtl, FiniteSetTheorems, TLAPS

-----------------------------------------------------------------------------
(* The parts of the inductive invariant. *)

\* The buffer will save r, or a later event with its id.
Buffered(r) ==
  r.kind \in Valid /\ \E e \in buffer : e.id = r.id /\ e.time >= r.time

Passed(i) == i \in skipped \cup unwritten

Kept(i) == Passed(i) \/ Saved(log[i]) \/ Buffered(log[i])

BufferIsValid == \A e \in buffer : e.kind \in Valid

\* A record is in hand while the DLQ is being written.
Typed == TypeOK /\ (pc = "reject" => position >= 1)

\* That record is invalid, and the loop runs only while the process is not
\* stopping.
InHand ==
  /\ pc = "reject" => log[position].kind = "invalid"
  /\ pc \in {"start", "poll", "reject", "check"} => ~stopping

\* What a commit would cover.
PendingIsKept == \A i \in 1..pending : Kept(i)

\* What was read, but for a record in hand or one that ends the process.
ReadIsKept ==
  \A i \in 1..position :
    Kept(i) \/ (i = position /\ (pc \in {"reject", "down"} \/ stopping))

\* How far a flush has come.
FlushIsPartial ==
  /\ pc \in {"events", "movies", "watch"} =>
       \A e \in buffer : e.kind = "odd" => <<e, "transform">> \in dlq
  /\ pc \in {"movies", "watch"} /\ ~failed => Rows \subseteq events
  /\ pc = "watch" /\ ~failed => Views \subseteq movies
  /\ pc = "commit" => buffer = {}

IInv ==
  /\ Typed
  /\ BufferIsValid
  /\ InHand
  /\ CommittedIsSaved
  /\ PendingIsKept
  /\ ReadIsKept
  /\ FlushIsPartial

-----------------------------------------------------------------------------
(* Types. *)

\* Typed in two parts: the offsets, and everything else.
Offsets ==
  /\ log \in Seq(Records) /\ Len(log) <= MaxLog
  /\ committed \in 0..Len(log)
  /\ position \in 0..Len(log)
  /\ pending \in 0..Len(log)
  /\ skipped \subseteq 1..Len(log) /\ unwritten \subseteq 1..Len(log)
  /\ pc = "reject" => position >= 1

Others ==
  /\ pc \in Steps
  /\ buffer \subseteq Records
  /\ failed \in BOOLEAN /\ stopping \in BOOLEAN /\ calm \in BOOLEAN
  /\ events \subseteq Records /\ movies \subseteq Records /\ watch \subseteq Records
  /\ dlq \subseteq Records \X Causes

LEMMA TypedParts == Typed <=> Offsets /\ Others
BY DEF Typed, TypeOK, Offsets, Others

LEMMA InitTyped == Init => Typed
<1> SUFFICES ASSUME Init PROVE Offsets /\ Others
  BY TypedParts
<1>1. log \in Seq(Records) /\ Len(log) = 0
  BY DEF Init
<1>2. Offsets
  BY <1>1, EtlAssumption DEF Init, Offsets
<1>3. Others
  BY DEF Init, Others, Steps
<1> QED BY <1>2, <1>3

\* What is appended to the partition leaves the rest in place.
LEMMA PublishKeepsLog ==
  ASSUME Typed, NEW r \in Records, Publish(r)
  PROVE  /\ log' \in Seq(Records)
         /\ Len(log') = Len(log) + 1
         /\ \A i \in 1..Len(log) : log'[i] = log[i]
BY DEF Typed, TypeOK, Publish

LEMMA NextOffsets == ASSUME Typed, [Next]_vars PROVE Offsets'
<1> USE TypedParts DEF Offsets, kafka, flushing, tables, passed
<1>0. Len(log) \in Nat
  BY DEF Typed, TypeOK
<1>1. CASE Restart
  BY <1>0, <1>1 DEF Restart, ReadAgain
<1>2. CASE InitialPoll
  BY <1>0, <1>2 DEF InitialPoll
<1>3. CASE Poll
  BY <1>0, <1>3 DEF Poll
<1>4. CASE Reject
  BY <1>0, <1>4 DEF Reject
<1>5. CASE GoOn BY <1>5 DEF GoOn
<1>6. CASE FlushNow BY <1>6 DEF FlushNow
<1>7. CASE Transform BY <1>7 DEF Transform, Return
<1>8. CASE InsertEvents BY <1>8 DEF InsertEvents
<1>9. CASE InsertMovies BY <1>9 DEF InsertMovies
<1>10. CASE InsertWatch BY <1>10 DEF InsertWatch, AfterFlush, Return
<1>11. CASE Commit BY <1>0, <1>11 DEF Commit, Return
<1>12. CASE FlushIdle BY <1>12 DEF FlushIdle
<1>13. CASE Stop BY <1>13 DEF Stop
<1>14. CASE Crash BY <1>14 DEF Crash
<1>15. CASE Reassign BY <1>0, <1>15 DEF Reassign, ReadAgain
<1>16. CASE CalmDown BY <1>16 DEF CalmDown
<1>17. ASSUME NEW r \in Records, Publish(r) PROVE Offsets'
  <2>1. log' \in Seq(Records) /\ Len(log') = Len(log) + 1
    BY <1>17, PublishKeepsLog
  <2>2. Len(log') <= MaxLog
    BY <1>0, <1>17, <2>1, EtlAssumption DEF Publish
  <2> QED BY <1>0, <1>17, <2>1, <2>2 DEF Publish
<1>18. CASE UNCHANGED vars BY <1>18 DEF vars
<1> QED
  BY <1>1, <1>2, <1>3, <1>4, <1>5, <1>6, <1>7, <1>8, <1>9, <1>10, <1>11, <1>12,
     <1>13, <1>14, <1>15, <1>16, <1>17, <1>18 DEF Next, RunEtl, Flush

LEMMA NextOthers == ASSUME Typed, [Next]_vars PROVE Others'
<1> USE TypedParts DEF Others, Steps, Causes, kafka, flushing, tables, passed
<1>1. CASE Restart BY <1>1 DEF Restart
<1>2. CASE InitialPoll BY <1>2 DEF InitialPoll
<1>3. CASE Poll
  <2>1. log[position + 1] \in Records
    BY <1>3 DEF Poll, Offsets
  <2> QED BY <1>3, <2>1 DEF Poll, Add
<1>4. CASE Reject
  <2>1. log[position] \in Records
    BY <1>4 DEF Reject, Offsets
  <2> QED BY <1>4, <2>1 DEF Reject
<1>5. CASE GoOn BY <1>5 DEF GoOn
<1>6. CASE FlushNow BY <1>6 DEF FlushNow
<1>7. CASE Transform BY <1>7 DEF Transform, Return
<1>8. CASE InsertEvents BY <1>8 DEF InsertEvents, Rows
<1>9. CASE InsertMovies BY <1>9 DEF InsertMovies, Views
<1>10. CASE InsertWatch BY <1>10 DEF InsertWatch, Views, AfterFlush, Return
<1>11. CASE Commit BY <1>11 DEF Commit, Return
<1>12. CASE FlushIdle BY <1>12 DEF FlushIdle
<1>13. CASE Stop BY <1>13 DEF Stop
<1>14. CASE Crash BY <1>14 DEF Crash
<1>15. CASE Reassign BY <1>15 DEF Reassign
<1>16. CASE CalmDown BY <1>16 DEF CalmDown
<1>17. ASSUME NEW r \in Records, Publish(r) PROVE Others'
  BY <1>17 DEF Publish
<1>18. CASE UNCHANGED vars BY <1>18 DEF vars
<1> QED
  BY <1>1, <1>2, <1>3, <1>4, <1>5, <1>6, <1>7, <1>8, <1>9, <1>10, <1>11, <1>12,
     <1>13, <1>14, <1>15, <1>16, <1>17, <1>18 DEF Next, RunEtl, Flush

LEMMA NextTyped == ASSUME Typed, [Next]_vars PROVE Typed'
<1>1. Offsets' /\ Others' BY NextOffsets, NextOthers
<1> QED BY <1>1 DEF Typed, TypeOK, Offsets, Others

\* TypeOK holds in every reachable state, for every value of the constants.
THEOREM TypeCorrect == Spec => []TypeOK
<1>1. Spec => []Typed
  BY InitTyped, NextTyped, PTL DEF Spec
<1> QED BY <1>1, PTL DEF Typed

-----------------------------------------------------------------------------
(* What no step undoes. *)

Grow ==
  /\ events \subseteq events' /\ movies \subseteq movies' /\ watch \subseteq watch'
  /\ dlq \subseteq dlq'

\* Rows stay, and so do the records of the partition.
LEMMA TablesGrow == ASSUME Typed, [Next]_vars PROVE Grow
BY DEF Grow, Next, RunEtl, Flush, Restart, InitialPoll, Poll, Reject, GoOn, FlushNow,
   FlushIdle, Transform, InsertEvents, InsertMovies, InsertWatch, Commit, Publish,
   Stop, Crash, Reassign, CalmDown, ReadAgain, vars, kafka, flushing, tables, passed

LEMMA LogStays ==
  ASSUME Typed, [Next]_vars, NEW i \in 1..Len(log) PROVE log'[i] = log[i]
<1>1. ASSUME NEW r \in Records, Publish(r) PROVE log'[i] = log[i]
  BY <1>1, PublishKeepsLog
<1>2. ASSUME \A r \in Records : ~Publish(r) PROVE log' = log
  BY <1>2 DEF Next, RunEtl, Flush, Restart, InitialPoll, Poll, Reject, GoOn, FlushNow,
     FlushIdle, Transform, InsertEvents, InsertMovies, InsertWatch, Commit, Stop,
     Crash, Reassign, CalmDown, ReadAgain, vars, kafka, flushing, tables, passed
<1> QED BY <1>1, <1>2

LEMMA SavedStays ==
  ASSUME Typed, [Next]_vars, NEW i \in 1..Len(log), Saved(log[i])
  PROVE  Saved(log[i])'
BY TablesGrow, LogStays DEF Grow, Saved

\* A record that was passed over is so until it is read again.
LEMMA PassedStays ==
  ASSUME Typed, [Next]_vars, NEW i \in 1..Len(log), Passed(i),
         Restart => i <= committed,
         Reassign => i <= pending \/ i <= committed
  PROVE  Passed(i)'
<1>0. Len(log) \in Nat /\ committed \in Nat /\ pending \in Nat
  BY DEF Typed, TypeOK
<1>1. CASE Restart
  BY <1>0, <1>1 DEF Passed, Restart, ReadAgain
<1>2. CASE Reassign
  BY <1>0, <1>2 DEF Passed, Reassign, ReadAgain
<1>3. CASE ~Restart /\ ~Reassign
  BY <1>3 DEF Passed, Next, RunEtl, Flush, InitialPoll, Poll, Reject, GoOn, FlushNow,
     FlushIdle, Transform, InsertEvents, InsertMovies, InsertWatch, Commit, Publish,
     Stop, Crash, CalmDown, vars, kafka, flushing, tables, passed
<1> QED BY <1>1, <1>2, <1>3

\* An event leaves the buffer when a later one replaces it, when the flush has
\* saved it, and with the process.
LEMMA BufferedStays ==
  ASSUME IInv, [Next]_vars, ~Restart, NEW i \in 1..Len(log), Buffered(log[i])
  PROVE  Buffered(log[i])' \/ Saved(log[i])'
<1>0. /\ log'[i] = log[i] /\ log[i] \in Records /\ log[i].time \in Nat
      /\ \A r \in Records : r.time \in Nat
  BY LogStays, EtlAssumption DEF IInv, Typed, TypeOK
<1>1. PICK e \in buffer : e.id = log[i].id /\ e.time >= log[i].time
  BY DEF Buffered
<1>2. log[i].kind \in Valid /\ e \in Records /\ e.time \in Nat
  BY <1>0, <1>1 DEF Buffered, IInv, Typed, TypeOK
<1>3. CASE Poll
  <2>1. CASE buffer' = buffer
    BY <1>0, <2>1 DEF Buffered
  <2>2. CASE buffer' = Add(log[position + 1])
    <3> DEFINE r == log[position + 1]
    <3>1. r \in Records /\ r.time \in Nat
      BY <1>0, <1>3 DEF Poll, IInv, Typed, TypeOK
    <3>2. e \in buffer' \/ (r \in buffer' /\ e.id = r.id /\ r.time >= e.time)
      BY <1>0, <1>1, <1>2, <2>2, <3>1 DEF Add
    <3>3. r \in buffer' /\ e.id = r.id /\ r.time >= e.time
             => r.id = log[i].id /\ r.time >= log[i].time
      <4>1. log[i].time \in Nat /\ e.time \in Nat
        BY <1>0, <1>2
      <4> HIDE DEF r
      <4> QED BY <1>1, <3>1, <4>1
    <3> QED BY <1>0, <1>1, <1>2, <3>2, <3>3 DEF Buffered
  <2> QED BY <1>3, <2>1, <2>2 DEF Poll
<1>4. CASE InsertWatch /\ buffer' # buffer
  <2>1. /\ pc = "watch" /\ ~failed /\ watch' = watch \cup Views
        /\ events' = events /\ movies' = movies /\ dlq' = dlq
    BY <1>4 DEF InsertWatch, tables
  <2>2. /\ e.kind = "odd" => <<e, "transform">> \in dlq'
        /\ e.kind # "odd" => e \in events'
        /\ e.kind = "view" => e \in movies' /\ e \in watch'
    BY <1>1, <2>1 DEF IInv, FlushIsPartial, Rows, Views
  <2>3. \/ e \in events' /\ (e.kind = "view" => e \in movies' \cap watch')
        \/ <<e, "transform">> \in dlq'
    BY <2>2
  <2> QED BY <1>0, <1>1, <1>2, <2>3 DEF Saved
<1>5. CASE ~Poll /\ buffer' = buffer
  BY <1>0, <1>5 DEF Buffered
<1>6. buffer' = buffer \/ Poll \/ InsertWatch
  BY DEF Next, RunEtl, Flush, InitialPoll, Reject, GoOn, FlushNow,
     FlushIdle, Transform, InsertEvents, InsertMovies, Commit, Publish,
     Stop, Crash, Reassign, CalmDown, vars, kafka, flushing, tables, passed
<1> QED BY <1>3, <1>4, <1>5, <1>6

LEMMA KeptStays ==
  ASSUME IInv, [Next]_vars, ~Restart, NEW i \in 1..Len(log), Kept(i),
         Reassign => i <= pending \/ i <= committed
  PROVE  Kept(i)'
BY PassedStays, SavedStays, BufferedStays DEF Kept, IInv

-----------------------------------------------------------------------------
(* The invariant is inductive: one lemma per part. *)

LEMMA NextBufferIsValid == ASSUME IInv, [Next]_vars PROVE BufferIsValid'
<1>1. CASE Poll
  BY <1>1 DEF Poll, Add, IInv, BufferIsValid
<1>2. CASE ~Poll
  <2>1. buffer' = buffer \/ buffer' = {}
    BY <1>2 DEF Next, RunEtl, Flush, Restart, InitialPoll, Reject, GoOn, FlushNow,
       FlushIdle, Transform, InsertEvents, InsertMovies, InsertWatch, Commit, Publish,
       Stop, Crash, Reassign, CalmDown, vars, kafka, flushing, tables, passed
  <2> QED BY <2>1 DEF IInv, BufferIsValid
<1> QED BY <1>1, <1>2

LEMMA NextInHand == ASSUME IInv, [Next]_vars PROVE InHand'
<1>1. CASE pc = "reject" /\ pc' = "reject"
  <2>1. position' = position /\ stopping' = stopping
    BY <1>1 DEF Next, RunEtl, Flush, Restart, InitialPoll, Poll, Reject, GoOn, FlushNow,
       FlushIdle, Transform, InsertEvents, InsertMovies, InsertWatch, Commit, Publish,
       Stop, Crash, Reassign, CalmDown, vars, kafka, flushing, tables, passed
  <2>2. position \in 1..Len(log)
    BY <1>1 DEF IInv, Typed, TypeOK
  <2>3. log'[position] = log[position]
    BY <2>2, LogStays DEF IInv
  <2> QED BY <1>1, <2>1, <2>3 DEF IInv, InHand
<1>2. CASE ~(pc = "reject" /\ pc' = "reject")
  BY <1>2 DEF IInv, InHand, Next, RunEtl, Flush, Restart, InitialPoll, Poll, Reject,
     GoOn, FlushNow, FlushIdle, Transform, InsertEvents, InsertMovies, InsertWatch,
     Commit, Publish, Stop, Crash, Reassign, CalmDown, ReadAgain, AfterFlush, Return,
     vars, kafka, flushing, tables, passed
<1> QED BY <1>1, <1>2

\* A commit follows a flush that emptied the buffer, so all that was kept up to
\* the pending offset is saved or passed over.
LEMMA NextCommittedIsSaved == ASSUME IInv, [Next]_vars PROVE CommittedIsSaved'
<1> SUFFICES ASSUME NEW i \in 1..committed' PROVE Passed(i)' \/ Saved(log[i])'
  BY DEF CommittedIsSaved, Passed
<1>0. /\ Len(log) \in Nat /\ committed \in 0..Len(log) /\ pending \in 0..Len(log)
      /\ Typed
  BY DEF IInv, Typed, TypeOK
<1>1. CASE i <= committed
  <2>1. i \in 1..committed /\ i \in 1..Len(log)
    BY <1>0, <1>1
  <2>2. Passed(i) \/ Saved(log[i])
    BY <2>1 DEF IInv, CommittedIsSaved, Passed
  <2> QED BY <1>0, <1>1, <2>1, <2>2, PassedStays, SavedStays
<1>2. CASE ~(i <= committed)
  <2>1. Commit /\ committed' = pending
    BY <1>0, <1>2 DEF Next, RunEtl, Flush, Restart, InitialPoll, Poll, Reject, GoOn,
       FlushNow, FlushIdle, Transform, InsertEvents, InsertMovies, InsertWatch, Commit,
       Publish, Stop, Crash, Reassign, CalmDown, ReadAgain, vars, kafka, flushing,
       tables, passed
  <2>2. i \in 1..pending /\ i \in 1..Len(log)
    BY <1>0, <2>1
  <2>3. Kept(i) /\ ~Buffered(log[i])
    BY <2>1, <2>2 DEF IInv, PendingIsKept, FlushIsPartial, Commit, Buffered
  <2>4. ~Restart /\ ~Reassign
    BY <2>1 DEF Commit, Restart, Reassign
  <2> QED BY <1>0, <2>2, <2>3, <2>4, PassedStays, SavedStays DEF Kept
<1> QED BY <1>1, <1>2

\* What is read comes under the pending offset when it is in the buffer or the
\* DLQ, or the DLQ did not take it.
LEMMA RejectKeeps == ASSUME IInv, Reject PROVE Kept(position)'
<1>1. position \in 1..Len(log) /\ log[position].kind = "invalid" /\ log' = log
      /\ position' = position
  BY DEF Reject, IInv, Typed, TypeOK, InHand, kafka
<1>2. <<log[position], "invalid">> \in dlq' \/ position \in unwritten'
  BY DEF Reject
<1> QED BY <1>1, <1>2 DEF Kept, Passed, Saved, Valid

LEMMA PollKeeps ==
  ASSUME IInv, Poll
  PROVE  \/ Kept(position)' /\ pending' = position'
         \/ pending' = pending /\ (pc' = "reject" \/ stopping')
<1> DEFINE r == log[position + 1]
<1>0. r \in Records /\ r.time \in Nat
  BY EtlAssumption DEF Poll, IInv, Typed, TypeOK
<1>1. CASE r.kind \in Valid /\ buffer' = Add(r) /\ pending' = position + 1
  <2>1. \/ r \in buffer'
        \/ \E e \in buffer : e \in buffer' /\ e.id = r.id /\ e.time > r.time
    BY <1>1 DEF Add
  <2>2. \E e \in buffer' : e.id = r.id /\ e.time >= r.time
    <3>1. CASE r \in buffer'
      BY <1>0, <3>1
    <3>2. ASSUME NEW e \in buffer, e \in buffer', e.id = r.id, e.time > r.time
          PROVE  \E d \in buffer' : d.id = r.id /\ d.time >= r.time
      <4>1. e.time \in Nat
        BY EtlAssumption DEF IInv, Typed, TypeOK
      <4> QED BY <1>0, <3>2, <4>1
    <3> QED BY <2>1, <3>1, <3>2
  <2>3. log' = log /\ position' = position + 1
    BY DEF Poll, kafka
  <2>4. Buffered(log[position])'
    BY <1>1, <2>2, <2>3 DEF Buffered
  <2> QED BY <1>1, <2>3, <2>4 DEF Kept
<1> QED BY <1>1 DEF Poll

LEMMA NextPendingIsKept == ASSUME IInv, [Next]_vars PROVE PendingIsKept'
<1> SUFFICES ASSUME NEW i \in 1..pending' PROVE Kept(i)'
  BY DEF PendingIsKept
<1>0. /\ Len(log) \in Nat /\ committed \in 0..Len(log) /\ pending \in 0..Len(log)
      /\ position \in 0..Len(log) /\ Typed
  BY DEF IInv, Typed, TypeOK
<1>1. CASE i <= pending /\ ~Restart
  <2>1. i \in 1..Len(log) /\ Kept(i)
    BY <1>0, <1>1 DEF IInv, PendingIsKept
  <2> QED BY <1>1, <2>1, KeptStays
<1>2. CASE Restart
  BY <1>2 DEF Restart
<1>3. CASE ~Restart /\ ~(i <= pending)
  <2>1. Poll \/ Reject
    BY <1>0, <1>3 DEF Next, RunEtl, Flush, InitialPoll, GoOn, FlushNow, FlushIdle,
       Transform, InsertEvents, InsertMovies, InsertWatch, Commit, Publish, Stop, Crash,
       Reassign, CalmDown, vars, kafka, flushing, tables, passed
  <2>2. /\ pending' = position' /\ position' \in {position, position + 1}
        /\ Kept(position)' /\ ~Reassign
    <3>1. CASE Poll
      <4>1. pending' # pending
        BY <1>0, <1>3
      <4>2. Kept(position)' /\ pending' = position'
        BY <3>1, <4>1, PollKeeps
      <4>3. position' = position + 1 /\ ~Reassign
        BY <3>1, <4>1 DEF Poll, Reassign
      <4> QED BY <4>2, <4>3
    <3>2. CASE Reject
      BY <3>2, RejectKeeps DEF Reject, Reassign
    <3> QED BY <2>1, <3>1, <3>2
  <2>3. CASE i = position'
    BY <2>2, <2>3
  <2>4. CASE i # position'
    <3>1. i \in 1..position /\ i \in 1..Len(log)
      BY <1>0, <2>2, <2>4
    <3>2. Reject => i # position
      BY <2>4 DEF Reject
    <3>3. Kept(i)
      BY <2>1, <3>1, <3>2 DEF IInv, ReadIsKept, InHand, Poll, Reject
    <3> QED BY <1>3, <2>2, <3>1, <3>3, KeptStays
  <2> QED BY <2>3, <2>4
<1> QED BY <1>1, <1>2, <1>3

LEMMA NextReadIsKept == ASSUME IInv, [Next]_vars PROVE ReadIsKept'
<1> DEFINE Open == pc \in {"reject", "down"} \/ stopping
<1> SUFFICES ASSUME NEW i \in 1..position'
             PROVE  Kept(i)' \/ (i = position' /\ Open')
  BY DEF ReadIsKept
<1>0. /\ Len(log) \in Nat /\ committed \in 0..Len(log) /\ pending \in 0..Len(log)
      /\ position \in 0..Len(log) /\ Typed
  BY DEF IInv, Typed, TypeOK
\* From the committed offset all is read again.
<1>1. CASE Restart
  <2>1. i \in 1..committed /\ i \in 1..Len(log)
    BY <1>0, <1>1 DEF Restart, ReadAgain
  <2>2. Passed(i) \/ Saved(log[i])
    BY <2>1 DEF IInv, CommittedIsSaved, Passed
  <2>3. ~Reassign
    BY <1>1 DEF Restart, Reassign
  <2> QED BY <1>0, <2>1, <2>2, <2>3, PassedStays, SavedStays DEF Kept
<1>2. CASE Reassign
  <2>1. i \in 1..committed /\ i \in 1..Len(log)
    BY <1>0, <1>2 DEF Reassign, ReadAgain
  <2>2. Kept(i)
    BY <2>1 DEF IInv, CommittedIsSaved, Kept, Passed
  <2>3. ~Restart
    BY <1>2 DEF Restart, Reassign
  <2> QED BY <2>1, <2>2, <2>3, KeptStays
\* One more record.
<1>3. CASE Poll
  <2>1. position' = position + 1 /\ ~Restart /\ ~Reassign /\ pending' \in Nat
    BY <1>0, <1>3 DEF Poll, Restart, Reassign
  <2>2. CASE i <= position
    <3>1. i \in 1..Len(log) /\ Kept(i)
      BY <1>0, <1>3, <2>2 DEF IInv, ReadIsKept, InHand, Poll
    <3> QED BY <2>1, <3>1, KeptStays
  <2>3. CASE i = position'
    BY <1>3, <2>3, PollKeeps
  <2> QED BY <1>0, <2>1, <2>2, <2>3
<1>4. CASE InitialPoll /\ position' # position
  <2>1. position' = position + 1 /\ ~Restart /\ ~Reassign
    BY <1>4 DEF InitialPoll, Restart, Reassign
  <2>2. CASE i <= position
    <3>1. i \in 1..Len(log) /\ Kept(i)
      BY <1>0, <1>4, <2>2 DEF IInv, ReadIsKept, InHand, InitialPoll
    <3> QED BY <2>1, <3>1, KeptStays
  <2>3. CASE i = position + 1
    BY <1>4, <2>3 DEF InitialPoll, Kept, Passed
  <2> QED BY <1>0, <2>1, <2>2, <2>3
<1>5. CASE Reject
  <2>1. position' = position /\ ~Restart /\ ~Reassign
    BY <1>5 DEF Reject, Restart, Reassign
  <2>2. CASE i = position'
    BY <1>5, <2>2, RejectKeeps
  <2>3. CASE i # position'
    <3>1. i \in 1..Len(log) /\ Kept(i)
      BY <1>0, <2>1, <2>3 DEF IInv, ReadIsKept
    <3> QED BY <2>1, <3>1, KeptStays
  <2> QED BY <2>2, <2>3
\* No other step reads, and none of them ends the process' last flush.
<1>6. CASE ~Restart /\ ~Reassign /\ ~Poll /\ ~Reject
           /\ ~(InitialPoll /\ position' # position)
  <2>1. position' = position
    BY <1>6 DEF Next, RunEtl, Flush, InitialPoll, GoOn, FlushNow, FlushIdle,
       Transform, InsertEvents, InsertMovies, InsertWatch, Commit, Publish, Stop, Crash,
       CalmDown, vars, kafka, flushing, tables, passed
  <2>2. Open => Open'
    BY <1>6 DEF Next, RunEtl, Flush, InitialPoll, GoOn, FlushNow, FlushIdle,
       Transform, InsertEvents, InsertMovies, InsertWatch, Commit, Publish, Stop, Crash,
       CalmDown, AfterFlush, Return, vars, kafka, flushing, tables, passed
  <2>3. CASE Kept(i)
    <3>1. i \in 1..Len(log)
      BY <1>0, <2>1
    <3> QED BY <1>6, <2>3, <3>1, KeptStays
  <2>4. CASE i = position /\ Open
    BY <2>1, <2>2, <2>4
  <2>5. Kept(i) \/ (i = position /\ Open)
    BY <2>1 DEF IInv, ReadIsKept
  <2> QED BY <2>3, <2>4, <2>5
<1> QED BY <1>1, <1>2, <1>3, <1>4, <1>5, <1>6

LEMMA NextFlushIsPartial == ASSUME IInv, [Next]_vars PROVE FlushIsPartial'
<1> USE DEF FlushIsPartial, Rows, Views, AfterFlush, Return, kafka, flushing, tables, passed
<1>1. CASE Restart BY <1>1 DEF Restart
<1>2. CASE InitialPoll BY <1>2 DEF InitialPoll
<1>3. CASE Poll BY <1>3 DEF Poll
<1>4. CASE Reject BY <1>4 DEF Reject
<1>5. CASE GoOn BY <1>5 DEF GoOn
<1>6. CASE FlushNow BY <1>6 DEF FlushNow
<1>7. CASE Transform BY <1>7 DEF Transform, IInv
<1>8. CASE InsertEvents BY <1>8 DEF InsertEvents, IInv
<1>9. CASE InsertMovies BY <1>9 DEF InsertMovies, IInv
<1>10. CASE InsertWatch BY <1>10 DEF InsertWatch, IInv
<1>11. CASE Commit BY <1>11 DEF Commit
<1>12. CASE FlushIdle BY <1>12 DEF FlushIdle
<1>13. CASE Stop BY <1>13 DEF Stop
<1>14. CASE Crash BY <1>14 DEF Crash
<1>15. CASE Reassign BY <1>15 DEF Reassign
<1>16. CASE CalmDown BY <1>16 DEF CalmDown, IInv
<1>17. ASSUME NEW r \in Records, Publish(r) PROVE FlushIsPartial'
  BY <1>17 DEF Publish, IInv
<1>18. CASE UNCHANGED vars BY <1>18 DEF vars, IInv
<1> QED
  BY <1>1, <1>2, <1>3, <1>4, <1>5, <1>6, <1>7, <1>8, <1>9, <1>10, <1>11, <1>12,
     <1>13, <1>14, <1>15, <1>16, <1>17, <1>18 DEF Next, RunEtl, Flush

-----------------------------------------------------------------------------
(* The theorems. *)

\* The parts hold together in every reachable state: what was read is passed
\* over, saved, or in the buffer that the next commit waits for.
THEOREM Invariant == Spec => []IInv
<1>1. Init => IInv
  <2>1. ASSUME Init PROVE Typed
    BY <2>1, InitTyped
  <2>2. ASSUME Init
        PROVE  /\ BufferIsValid /\ InHand /\ CommittedIsSaved /\ PendingIsKept
               /\ ReadIsKept /\ FlushIsPartial
    BY <2>2 DEF Init, BufferIsValid, InHand, CommittedIsSaved, PendingIsKept,
       ReadIsKept, FlushIsPartial
  <2> QED BY <2>1, <2>2 DEF IInv
<1>2. ASSUME IInv, [Next]_vars PROVE IInv'
  <2>1. Typed'
    BY <1>2, NextTyped DEF IInv
  <2> QED
    BY <1>2, <2>1, NextBufferIsValid, NextInHand, NextCommittedIsSaved,
       NextPendingIsKept, NextReadIsKept, NextFlushIsPartial DEF IInv
<1> QED BY <1>1, <1>2, PTL DEF Spec

\* A record before the committed offset is in the tables or the DLQ, but for what
\* the initial poll dropped and the DLQ did not take, whatever fails and whenever
\* the process dies (_commit_offsets, EventProcessor.flush).
THEOREM NoCommittedEventIsLost == Spec => []CommittedIsSaved
BY Invariant, PTL DEF IInv

\* What this process has read and will not read again is never just forgotten:
\* outside a stop or a crash it is passed over, saved or still in the buffer
\* (run_etl, EventProcessor.add_event).
ReadIsHeld ==
  pc \in {"start", "poll", "check"} => \A i \in 1..position : Kept(i)

THEOREM NoReadEventIsForgotten == Spec => []ReadIsHeld
<1>1. IInv => ReadIsHeld
  BY DEF IInv, ReadIsHeld, ReadIsKept, InHand
<1> QED BY <1>1, Invariant, PTL

-----------------------------------------------------------------------------
(* SearchEtl: a cursor passes no row that its index has not, unless the row  *)
(* was committed behind it, the pair of the cursor was torn or the           *)
(* transformer dropped the row.                                              *)

Working(j) == job[j].rows # {}

\* r is not behind `end` in the order of (modified, id).
UpTo(r, end) == ~After(r, end)

\* An open transaction has the only stamp its row may get, and a later one.
FormsAreSound ==
  \A t \in tx : /\ t.at <= clock /\ (t.row \notin gone => modified[t.row] < t.at)
                /\ \A u \in tx : u.row = t.row => u = t

\* Stamps are not ahead of the clock, and what was read is behind it.
ClockIsAhead ==
  /\ \A r \in AllRows : modified[r] <= clock
  /\ \A c \in Cursors : cursor[c].m < clock
  /\ \A j \in Jobs : Working(j) => job[j].end.m < clock

\* What a read by cursor c up to the stamp m did not fall into is stamped later.
Unseen(c, m) == \A t \in tx : t.row \in RowsOf(c) /\ c \notin t.seen => m < t.at

UnseenIsAhead ==
  /\ \A c \in Cursors : Unseen(c, cursor[c].m)
  /\ \A j \in Jobs : Working(j) => Unseen(CursorOf(j), job[j].end.m)

\* The batch of j has the row r if the cursor has yet to pass it, and has it as it
\* is, unless r was committed behind the read.
IsTaken(j, r) ==
  \/ <<CursorOf(j), r>> \in late
  \/ /\ After(r, cursor[CursorOf(j)]) => r \in job[j].rows
     /\ (j # "movies" /\ r \in job[j].rows) => job[j].says[r] = modified[r]

BatchIsTyped(j) ==
  Working(j) => /\ job[j].rows \subseteq RowsOf(CursorOf(j))
                /\ j # "movies" => job[j].says \in [job[j].rows -> Stamps]

\* The cursor is not past the end of the batch.
EndIsAhead(j) ==
  LET c == cursor[CursorOf(j)]
      e == job[j].end
  IN  Working(j) => c.m < e.m \/ (c.m = e.m /\ c.id <= e.id)

\* A batch lacks none of the rows up to its end.
BatchIsSound(j) ==
  Working(j) => \A r \in RowsOf(CursorOf(j)) :
                  modified[r] > 0 /\ UpTo(r, job[j].end) => IsTaken(j, r)

\* A document is not ahead of its row, what is gone has no stamp, and a film without
\* a title has no document.
DocumentsAreOld ==
  /\ \A f \in Films : f \notin gone => movieIndex[f].at <= modified[f]
  /\ \A r \in gone : modified[r] = 0
  /\ \A f \in untitled : movieIndex[f].at = 0

SearchInv ==
  /\ SearchTypeOK
  /\ \A j \in Jobs : BatchIsTyped(j) /\ EndIsAhead(j) /\ BatchIsSound(j)
  /\ FormsAreSound /\ ClockIsAhead /\ UnseenIsAhead
  /\ DocumentsAreOld /\ PassedIsIndexed /\ NamesFollow
\* A non-empty set of naturals has a smallest member.
LEMMA SmallestExists ==
  ASSUME NEW S \in SUBSET Nat, S # {}
  PROVE  \E m \in S : \A n \in S : m <= n
<1> DEFINE less == OpToRel(<, Nat)
<1>1. IsWellFoundedOn(less, Nat)
  BY NatLessThanWellFounded
<1>2. PICK m \in S : \A n \in S : <<n, m>> \notin less
  <2> HIDE DEF less
  <2> QED BY <1>1, WFMin
<1>3. \A n \in S : ~(n < m)
  BY <1>2 DEF OpToRel
<1> HIDE DEF less
<1>4. ASSUME NEW n \in S PROVE m <= n
  BY <1>3
<1> QED BY <1>4

\* A cardinality below a bound for each member of a non-empty set: one is the largest.
LEMMA LargestExists ==
  ASSUME NEW S, S # {}, NEW f, NEW n \in Nat, \A x \in S : f[x] \in Nat /\ f[x] < n
  PROVE  \E x \in S : \A y \in S : f[y] <= f[x]
<1> DEFINE T == {n - f[x] : x \in S}
<1>1. T \in SUBSET Nat /\ T # {}
  OBVIOUS
<1>2. PICK m \in T : \A k \in T : m <= k
  <2> HIDE DEF T
  <2> QED BY <1>1, SmallestExists
<1>3. PICK x \in S : m = n - f[x]
  BY <1>2
<1>4. \A y \in S : n - f[x] <= n - f[y]
  BY <1>2, <1>3
<1> QED BY <1>3, <1>4

-----------------------------------------------------------------------------
(* Jobs, cursors and rows. *)

LEMMA RowsAreNumbers ==
  /\ AllRows \subseteq Nat /\ Films \subseteq AllRows /\ Parts \subseteq AllRows
  /\ Films \cap Parts = {} /\ Persons \cap Genres = {}
BY SearchEtlAssumption DEF AllRows, Parts

LEMMA RowsOfCursor ==
  /\ \A c \in Cursors : RowsOf(c) \subseteq AllRows /\ IsFiniteSet(RowsOf(c))
  /\ RowsOf("film_work") = Films /\ RowsOf("person") = Persons /\ RowsOf("genre") = Genres
  /\ RowsOf("persons_index") = Persons /\ RowsOf("genres_index") = Genres
BY SearchEtlAssumption DEF RowsOf, Cursors, AllRows, Parts

\* No two jobs share a cursor.
LEMMA CursorsOfJobs ==
  ASSUME SearchTypeOK
  PROVE  /\ Jobs \in Fleets /\ Jobs \subseteq {"movies", "persons", "genres"}
         /\ job \in [Jobs -> JobStates]
         /\ \A j \in Jobs : CursorOf(j) \in Cursors
         /\ "movies" \in Jobs => CursorOf("movies") \in {"film_work", "person", "genre"}
         /\ "persons" \in Jobs => CursorOf("persons") = "persons_index"
         /\ "genres" \in Jobs => CursorOf("genres") = "genres_index"
         /\ \A i, j \in Jobs : CursorOf(i) = CursorOf(j) => i = j
<1>1. Jobs \in Fleets /\ job \in [Jobs -> JobStates]
  BY DEF SearchTypeOK, Jobs
<1>2. Jobs \subseteq {"movies", "persons", "genres"}
  BY <1>1, SearchEtlAssumption
<1>3. \A j \in Jobs : job[j].at \in 1..3
  BY <1>1 DEF JobStates
<1>4. \A i \in 1..3 : Watched[i] \in {"film_work", "person", "genre"}
  BY DEF Watched
<1>5. "movies" \in Jobs => CursorOf("movies") \in {"film_work", "person", "genre"}
  BY <1>3, <1>4 DEF CursorOf
<1>6. CursorOf("persons") = "persons_index" /\ CursorOf("genres") = "genres_index"
  BY DEF CursorOf
<1>7. \A j \in Jobs : CursorOf(j) \in Cursors
  BY <1>2, <1>5, <1>6 DEF Cursors
<1>8. \A i, j \in Jobs : CursorOf(i) = CursorOf(j) => i = j
  BY <1>2, <1>5, <1>6
<1> QED BY <1>1, <1>2, <1>5, <1>6, <1>7, <1>8

\* What states hold are numbers to compare.
LEMMA SearchNumbers ==
  ASSUME SearchTypeOK
  PROVE  /\ clock \in Nat /\ clock >= 2 /\ clock <= MaxClock + 1
         /\ \A r \in AllRows : r \in Nat /\ modified[r] \in Nat
         /\ \A c \in Cursors : cursor[c].m \in Stamps /\ cursor[c].m \in Nat
                               /\ cursor[c].id \in AllRows \cup {0} /\ cursor[c].id \in Nat
         /\ \A j \in Jobs : job[j].end.m \in Stamps /\ job[j].end.m \in Nat
                            /\ job[j].end.id \in AllRows \cup {0} /\ job[j].end.id \in Nat
         /\ \A t \in tx : t.row \in AllRows /\ t.at \in Nat /\ t.at \in Stamps
<1> USE SearchEtlAssumption DEF Stamps
<1>1. clock \in Nat /\ clock >= 2 /\ clock <= MaxClock + 1
  BY DEF SearchTypeOK
<1>2. \A r \in AllRows : r \in Nat /\ modified[r] \in Nat
  BY RowsAreNumbers DEF SearchTypeOK
<1>3. ASSUME NEW c \in Cursors
      PROVE  cursor[c].m \in Stamps /\ cursor[c].id \in AllRows \cup {0}
  BY DEF SearchTypeOK
<1>4. ASSUME NEW j \in Jobs
      PROVE  job[j].end.m \in Stamps /\ job[j].end.id \in AllRows \cup {0}
  BY CursorsOfJobs DEF JobStates
<1>5. \A t \in tx : t.row \in AllRows /\ t.at \in Stamps
  BY DEF SearchTypeOK
<1>6. Stamps \subseteq Nat /\ AllRows \cup {0} \subseteq Nat
  BY RowsAreNumbers
<1> QED BY <1>1, <1>2, <1>3, <1>4, <1>5, <1>6

-----------------------------------------------------------------------------
(* Types. *)

LEMMA SearchInitTyped == SearchInit => SearchTypeOK
<1> SUFFICES ASSUME SearchInit PROVE SearchTypeOK
  OBVIOUS
<1> USE SearchEtlAssumption DEF Stamps
<1>1. clock \in 2..(MaxClock + 1) /\ modified \in [AllRows -> Stamps] /\ gone \subseteq AllRows
  BY DEF SearchInit
<1>2. links \in [Films -> SUBSET Parts] /\ tx = {} /\ late = {} /\ torn = {} /\ quiet \in BOOLEAN
  BY DEF SearchInit
<1>3. cursor \in [Cursors -> [m : Stamps, id : AllRows \cup {0}]]
  BY DEF SearchInit, Origin
<1>4. NoJob \in JobStates
  BY DEF NoJob, JobStates, Sayings, Origin
<1>5. \E fleet \in Fleets : job \in [fleet -> JobStates]
  BY <1>4 DEF SearchInit
<1>6. movieIndex \in [Films -> [at : Stamps, names : [Parts -> Stamps]]]
  BY DEF SearchInit, NoFilm
<1>7. /\ parts \in [Parts -> Stamps] /\ credits \in [Persons -> SUBSET Films]
      /\ untitled \subseteq Films /\ recast \subseteq Persons
  BY DEF SearchInit
<1> QED BY <1>1, <1>2, <1>3, <1>5, <1>6, <1>7 DEF SearchTypeOK

\* What a job is set to.
LEMMA NoJobIsTyped ==
  /\ NoJob \in JobStates /\ NoJob.rows = {}
  /\ \A n \in 1..3 : [NoJob EXCEPT !.at = n] \in JobStates /\ [NoJob EXCEPT !.at = n].rows = {}
BY SearchEtlAssumption DEF NoJob, JobStates, Sayings, Origin, Stamps

LEMMA NextTableIsTyped ==
  ASSUME SearchTypeOK, NEW j \in Jobs
  PROVE  NextTable(j) \in JobStates /\ NextTable(j).rows = {}
<1>1. job[j].at \in 1..3 /\ Len(Watched) = 3
  BY CursorsOfJobs DEF JobStates, Watched
<1>2. (job[j].at % 3) + 1 \in 1..3
  BY <1>1
<1> QED BY <1>1, <1>2, NoJobIsTyped DEF NextTable

LEMMA JobsAreTyped ==
  ASSUME SearchTypeOK, DOMAIN job' = Jobs, \A j \in Jobs : job'[j] \in JobStates,
         job' = [j \in Jobs |-> job'[j]]
  PROVE  /\ \E fleet \in Fleets : job' \in [fleet -> JobStates]
         /\ Jobs' = Jobs
BY CursorsOfJobs DEF Jobs

LEMMA SetJobIsTyped ==
  ASSUME SearchTypeOK, NEW j \in Jobs, NEW v \in JobStates, SetJob(j, v)
  PROVE  /\ \E fleet \in Fleets : job' \in [fleet -> JobStates]
         /\ Jobs' = Jobs /\ job'[j] = v /\ \A i \in Jobs \ {j} : job'[i] = job[i]
<1>1. job \in [Jobs -> JobStates]
  BY CursorsOfJobs
<1>2. job' \in [Jobs -> JobStates] /\ job'[j] = v /\ \A i \in Jobs \ {j} : job'[i] = job[i]
  BY <1>1 DEF SetJob
<1>3. DOMAIN job' = Jobs /\ job' = [i \in Jobs |-> job'[i]] /\ \A i \in Jobs : job'[i] \in JobStates
  BY <1>2
<1> QED BY <1>2, <1>3, JobsAreTyped

LEMMA RestartedIsTyped ==
  ASSUME SearchTypeOK, Restarted
  PROVE  /\ \E fleet \in Fleets : job' \in [fleet -> JobStates]
         /\ Jobs' = Jobs /\ \A j \in Jobs : job'[j] = NoJob
<1>1. DOMAIN job' = Jobs /\ job' = [i \in Jobs |-> job'[i]] /\ \A j \in Jobs : job'[j] = NoJob
  BY DEF Restarted
<1> QED BY <1>1, NoJobIsTyped, JobsAreTyped

\* The indices hold stamps.
LEMMA BulkIsTyped ==
  ASSUME SearchTypeOK, NEW j \in Jobs, BatchIsTyped(j), NEW taken, BulkUpsert(j, taken)
  PROVE  /\ movieIndex' \in [Films -> [at : Stamps, names : [Parts -> Stamps]]]
         /\ parts' \in [Parts -> Stamps] /\ credits' \in [Persons -> SUBSET Films]
<1>1. \A f \in Films : Document(f) \in [at : Stamps, names : [Parts -> Stamps]]
  <2>1. 0 \in Stamps /\ modified \in [AllRows -> Stamps]
    BY SearchEtlAssumption DEF Stamps, SearchTypeOK
  <2> QED BY <2>1, RowsAreNumbers DEF Document
<1>2. movieIndex' \in [Films -> [at : Stamps, names : [Parts -> Stamps]]]
  BY <1>1 DEF BulkUpsert, SearchTypeOK
<1>3. ASSUME j # "movies", NEW p \in taken PROVE job[j].says[p] \in Stamps
  BY <1>3 DEF BulkUpsert, Transformed, DocIds, BatchIsTyped, Working
<1>4. parts' \in [Parts -> Stamps]
  BY <1>3 DEF BulkUpsert, SearchTypeOK
<1>5. credits' \in [Persons -> SUBSET Films]
  BY DEF BulkUpsert, SearchTypeOK, CreditsOf
<1> QED BY <1>2, <1>4, <1>5

\* The effect of the steps of admin_panel and of fulltext_search on the types.
LEMMA FormsAreTyped ==
  ASSUME SearchTypeOK, Edit \/ Finish, UNCHANGED <<etl>>
  PROVE  /\ clock' = clock /\ modified' \in [AllRows -> Stamps]
         /\ links' \in [Films -> SUBSET Parts] /\ gone' \subseteq AllRows
         /\ tx' \subseteq [row : AllRows, at : Stamps, links : SUBSET Parts, seen : SUBSET Cursors]
         /\ untitled' \subseteq Films /\ recast' \subseteq Persons
         /\ late' \subseteq Cursors \X AllRows
<1> USE DEF SearchTypeOK
<1>1. ASSUME NEW r \in AllRows, NEW l \in SUBSET Parts, Save(r, l)
      PROVE  /\ UNCHANGED <<clock, modified, links, gone, untitled, recast, late>>
             /\ tx' \subseteq [row : AllRows, at : Stamps, links : SUBSET Parts, seen : SUBSET Cursors]
  <2>1. clock \in Stamps
    BY <1>1, SearchNumbers, SearchEtlAssumption DEF Save, Stamps
  <2> QED BY <1>1, <2>1 DEF Save
<1>2. ASSUME NEW t \in tx, CommitForm(t)
      PROVE  /\ clock' = clock /\ modified' \in [AllRows -> Stamps]
             /\ links' \in [Films -> SUBSET Parts] /\ gone' = gone /\ tx' \subseteq tx
             /\ untitled' \subseteq Films /\ recast' \subseteq Persons
             /\ late' \subseteq Cursors \X AllRows
  <2>1. t.row \in AllRows /\ t.at \in Stamps /\ t.links \subseteq Parts /\ t.seen \subseteq Cursors
    OBVIOUS
  <2>2. clock' = clock /\ gone' = gone /\ tx' \subseteq tx
    BY <1>2 DEF CommitForm
  <2>3. modified' \in [AllRows -> Stamps]
    BY <1>2, <2>1 DEF CommitForm
  <2>4. links' \in [Films -> SUBSET Parts]
    <3>1. t.links \ gone \in SUBSET Parts /\ links \in [Films -> SUBSET Parts]
      BY <2>1
    <3>2. links' = links \/ (t.row \in Films /\ links' = [links EXCEPT ![t.row] = t.links \ gone])
      BY <1>2 DEF CommitForm
    <3> QED BY <3>1, <3>2
  <2>5. late' \subseteq Cursors \X AllRows
    <3>1. late \subseteq Cursors \X AllRows /\ t.seen \X {t.row} \subseteq Cursors \X AllRows
      BY <2>1
    <3>2. late' \subseteq late \cup (t.seen \X {t.row})
      BY <1>2 DEF CommitForm
    <3> QED BY <3>1, <3>2
  <2>6. untitled' \subseteq Films /\ recast' \subseteq Persons
    BY <1>2 DEF CommitForm, Recast
  <2> QED BY <2>2, <2>3, <2>4, <2>5, <2>6
<1>3. ASSUME NEW t \in tx, Rollback(t)
      PROVE  UNCHANGED <<clock, modified, links, gone, untitled, recast, late>> /\ tx' \subseteq tx
  BY <1>3 DEF Rollback
<1>4. ASSUME NEW r \in AllRows, Delete(r)
      PROVE  /\ UNCHANGED <<clock, tx, late>>
             /\ modified' \in [AllRows -> Stamps] /\ gone' \subseteq AllRows
             /\ links' \in [Films -> SUBSET Parts]
             /\ untitled' \subseteq Films /\ recast' \subseteq Persons
  <2>1. 0 \in Stamps
    BY SearchEtlAssumption DEF Stamps
  <2>2. untitled' \subseteq Films /\ recast' \subseteq Persons
    BY <1>4 DEF Delete, Recast
  <2> QED BY <1>4, <2>1, <2>2 DEF Delete
<1> QED BY <1>1, <1>2, <1>3, <1>4 DEF Edit, Finish

\* The end of a batch is a member of it.
LEMMA BatchHasEnd ==
  ASSUME SearchTypeOK, NEW c \in Cursors, Batch(c) # {}
  PROVE  \E r \in Batch(c) : \A q \in Batch(c) \ {r} : Before(q, r)
<1> DEFINE before == [r \in Changed(c) |-> {q \in Changed(c) : Before(q, r)}]
           rank   == [r \in Batch(c) |-> Cardinality(before[r])]
<1>1. IsFiniteSet(Changed(c)) /\ Changed(c) \subseteq AllRows /\ Batch(c) \subseteq Changed(c)
  <2>1. IsFiniteSet(RowsOf(c)) /\ Changed(c) \in SUBSET RowsOf(c)
    BY RowsOfCursor DEF Changed
  <2> QED BY <2>1, FS_Subset, RowsOfCursor DEF Batch
<1>2. ASSUME NEW r \in Changed(c)
      PROVE  IsFiniteSet(before[r]) /\ Cardinality(before[r]) \in Nat
  BY <1>1, FS_Subset, FS_CardinalityType
<1>3. \A r \in Batch(c) : rank[r] \in Nat /\ rank[r] < EtlBatchSize
  BY <1>1, <1>2 DEF Batch
<1>4. PICK r \in Batch(c) : \A q \in Batch(c) : rank[q] <= rank[r]
  <2> HIDE DEF rank
  <2> QED BY <1>3, LargestExists, SearchEtlAssumption
<1>5. ASSUME NEW q \in Batch(c) \ {r}, ~Before(q, r) PROVE FALSE
  <2>1. /\ r \in Nat /\ q \in Nat /\ modified[r] \in Nat /\ modified[q] \in Nat
        /\ r \in Changed(c) /\ q \in Changed(c)
    BY <1>1, SearchNumbers
  <2>2. Before(r, q)
    BY <1>5, <2>1 DEF Before
  <2>3. before[r] \in SUBSET before[q]
    <3>1. ASSUME NEW x \in before[r] PROVE Before(x, q)
      <4>1. x \in Nat /\ modified[x] \in Nat /\ Before(x, r)
        BY <1>1, <2>1, SearchNumbers
      <4> QED BY <2>1, <2>2, <4>1 DEF Before
    <3> QED BY <2>1, <3>1
  <2>4. r \in before[q] /\ r \notin before[r]
    BY <2>1, <2>2 DEF Before
  <2>5. Cardinality(before[r]) <= Cardinality(before[q])
        /\ Cardinality(before[q]) # Cardinality(before[r])
    <3> HIDE DEF before
    <3> QED BY <1>2, <2>1, <2>3, <2>4, FS_Subset
  <2>6. rank[q] <= rank[r] /\ rank[q] = Cardinality(before[q]) /\ rank[r] = Cardinality(before[r])
    BY <1>4
  <2> QED
    <3> HIDE DEF before, rank
    <3> QED BY <1>2, <2>1, <2>5, <2>6
<1> QED BY <1>5

\* With a row, a batch has those that sort before it; what is up to its end is in it.
LEMMA BatchIsDense ==
  ASSUME SearchTypeOK, NEW c \in Cursors, NEW r \in Batch(c),
         NEW q \in Changed(c), Before(q, r)
  PROVE  q \in Batch(c)
<1> DEFINE before(x) == {y \in Changed(c) : Before(y, x)}
<1>1. IsFiniteSet(Changed(c)) /\ Changed(c) \subseteq AllRows /\ r \in Changed(c)
  <2>1. IsFiniteSet(RowsOf(c)) /\ Changed(c) \in SUBSET RowsOf(c)
    BY RowsOfCursor DEF Changed
  <2> QED BY <2>1, FS_Subset, RowsOfCursor DEF Batch
<1>2. before(q) \in SUBSET before(r)
  <2>1. ASSUME NEW x \in Changed(c), Before(x, q) PROVE Before(x, r)
    <3>1. /\ x \in Nat /\ q \in Nat /\ r \in Nat
          /\ modified[x] \in Nat /\ modified[q] \in Nat /\ modified[r] \in Nat
      BY <1>1, SearchNumbers
    <3> QED BY <2>1, <3>1 DEF Before
  <2> QED BY <2>1
<1>3. IsFiniteSet(before(r)) /\ Cardinality(before(r)) \in Nat /\ Cardinality(before(r)) < EtlBatchSize
  <2>1. before(r) \in SUBSET Changed(c)
    OBVIOUS
  <2> QED BY <1>1, <2>1, FS_Subset, FS_CardinalityType DEF Batch
<1>4. Cardinality(before(q)) \in Nat /\ Cardinality(before(q)) <= Cardinality(before(r))
  <2> HIDE DEF before
  <2> QED BY <1>2, <1>3, FS_Subset, FS_CardinalityType
<1>5. Cardinality(before(q)) < EtlBatchSize
  <2> HIDE DEF before
  <2> QED BY <1>3, <1>4, SearchEtlAssumption
<1> QED BY <1>5 DEF Batch

-----------------------------------------------------------------------------
(* A batch is read. *)

\* What is stamped after a read has a later stamp than all that was stamped before.
LEMMA ReadMovesClock ==
  ASSUME SearchTypeOK, FormsAreSound, ClockIsAhead,
         clock' = IF clock \in {modified[r] : r \in AllRows} \cup {t.at : t \in tx}
                  THEN clock + 1 ELSE clock
  PROVE  /\ clock' \in 2..(MaxClock + 1) /\ clock <= clock' /\ clock' \in Nat
         /\ \A r \in AllRows : modified[r] < clock'
         /\ \A t \in tx : t.at < clock'
<1>1. /\ clock \in Nat /\ clock >= 2 /\ clock <= MaxClock + 1 /\ MaxClock \in Nat
      /\ \A r \in AllRows : modified[r] \in Nat /\ modified[r] <= clock /\ modified[r] <= MaxClock
      /\ \A t \in tx : t.at \in Nat /\ t.at <= clock /\ t.at <= MaxClock
  <2>1. \A r \in AllRows : modified[r] \in Stamps
    BY DEF SearchTypeOK
  <2> QED
    BY <2>1, SearchNumbers, SearchEtlAssumption DEF FormsAreSound, ClockIsAhead, Stamps
<1>2. CASE \E r \in AllRows : modified[r] = clock
  BY <1>1, <1>2
<1>3. CASE \E t \in tx : t.at = clock
  BY <1>1, <1>3
<1>4. CASE (\A r \in AllRows : modified[r] # clock) /\ \A t \in tx : t.at # clock
  BY <1>1, <1>4
<1> QED BY <1>2, <1>3, <1>4

\* The open forms are the same, but know of the read.
LEMMA ReadMarksForms ==
  ASSUME SearchTypeOK, NEW c \in Cursors,
         tx' = {IF t.row \in RowsOf(c) THEN [t EXCEPT !.seen = @ \cup {c}] ELSE t : t \in tx}
  PROVE  /\ tx' \subseteq [row : AllRows, at : Stamps, links : SUBSET Parts, seen : SUBSET Cursors]
         /\ \A u \in tx' : \E t \in tx : /\ u.row = t.row /\ u.at = t.at /\ t.seen \subseteq u.seen
                                         /\ t.row \in RowsOf(c) => c \in u.seen
         /\ FormsAreSound => \A u, v \in tx' : u.row = v.row => u = v
<1> DEFINE mark(t) == IF t.row \in RowsOf(c) THEN [t EXCEPT !.seen = @ \cup {c}] ELSE t
<1>1. ASSUME NEW t \in tx
      PROVE  /\ mark(t) \in [row : AllRows, at : Stamps, links : SUBSET Parts, seen : SUBSET Cursors]
             /\ mark(t).row = t.row /\ mark(t).at = t.at /\ t.seen \subseteq mark(t).seen
             /\ t.row \in RowsOf(c) => c \in mark(t).seen
  <2>1. t \in [row : AllRows, at : Stamps, links : SUBSET Parts, seen : SUBSET Cursors]
    BY DEF SearchTypeOK
  <2> QED BY <2>1
<1>2. tx' = {mark(t) : t \in tx}
  OBVIOUS
<1>3. ASSUME FormsAreSound, NEW t \in tx, NEW u \in tx, mark(t).row = mark(u).row
      PROVE  mark(t) = mark(u)
  <2>1. t = u
    <3> HIDE DEF mark
    <3> QED BY <1>1, <1>3 DEF FormsAreSound
  <2> QED BY <2>1
<1> HIDE DEF mark
<1> QED BY <1>1, <1>2, <1>3

\* The job has the batch, its end and what its rows said.
LEMMA ReadFillsJob ==
  ASSUME SearchTypeOK, NEW j \in Jobs, Extract(j), Batch(CursorOf(j)) # {}
  PROVE  /\ \E fleet \in Fleets : job' \in [fleet -> JobStates]
         /\ Jobs' = Jobs /\ job'[j].at = job[j].at /\ \A i \in Jobs \ {j} : job'[i] = job[i]
         /\ job'[j].rows = Batch(CursorOf(j))
         /\ j # "movies" => job'[j].says = [r \in Batch(CursorOf(j)) |-> modified[r]]
         /\ \E r \in Batch(CursorOf(j)) : /\ \A q \in Batch(CursorOf(j)) \ {r} : Before(q, r)
                                          /\ job'[j].end = [m |-> modified[r], id |-> r]
<1> DEFINE c == CursorOf(j)
           b == Batch(c)
           last == CHOOSE r \in b : \A q \in b \ {r} : Before(q, r)
           end == [m |-> modified[last], id |-> last]
           says == IF j = "movies" THEN <<>> ELSE [r \in b |-> modified[r]]
           full == [job[j] EXCEPT !.rows = b, !.says = says, !.end = end]
<1>1. c \in Cursors /\ job[j] \in JobStates
  BY CursorsOfJobs
<1>2. last \in b /\ \A q \in b \ {last} : Before(q, last)
  <2>1. \E r \in b : \A q \in b \ {r} : Before(q, r)
    BY <1>1, BatchHasEnd
  <2> QED BY <2>1
<1>3. b \in SUBSET AllRows
  BY <1>1, RowsOfCursor DEF Batch, Changed
<1>4. modified \in [AllRows -> Stamps]
  BY DEF SearchTypeOK
<1>5. SetJob(j, full)
  BY DEF Extract
<1>6. end \in [m : Stamps, id : AllRows \cup {0}] /\ says \in Sayings
  <2>1. [r \in b |-> modified[r]] \in [b -> Stamps]
    BY <1>3, <1>4
  <2>2. [r \in b |-> modified[r]] \in Sayings
    BY <1>3, <2>1 DEF Sayings
  <2>3. <<>> \in Sayings
    BY DEF Sayings
  <2>4. end \in [m : Stamps, id : AllRows \cup {0}]
    <3> HIDE DEF last
    <3> QED BY <1>2, <1>3, <1>4
  <2> QED BY <2>2, <2>3, <2>4
<1>7. full \in JobStates /\ full.rows = b /\ full.says = says /\ full.end = end /\ full.at = job[j].at
  <2> HIDE DEF end, says, b
  <2> QED BY <1>1, <1>3, <1>6 DEF JobStates
<1>8. /\ \E fleet \in Fleets : job' \in [fleet -> JobStates]
      /\ Jobs' = Jobs /\ job'[j] = full /\ \A i \in Jobs \ {j} : job'[i] = job[i]
  <2> HIDE DEF full
  <2> QED BY <1>5, <1>7, SetJobIsTyped
<1>9. \E r \in b : (\A q \in b \ {r} : Before(q, r)) /\ end = [m |-> modified[r], id |-> r]
  BY <1>2
<1>10. j # "movies" => says = [r \in b |-> modified[r]]
  OBVIOUS
<1> HIDE DEF full, says, end
<1> QED BY <1>7, <1>8, <1>9, <1>10

-----------------------------------------------------------------------------
(* The steps of the jobs.  A job that is through with its batch moves no other   *)
(* job and no other cursor.                                                      *)

Settles(i) ==
  \/ job'[i].rows = {}
  \/ job'[i] = job[i] /\ cursor'[CursorOf(i)] = cursor[CursorOf(i)]

LEMMA SettledJobs ==
  ASSUME SearchInv, UNCHANGED db, Jobs' = Jobs, \A i \in Jobs : Settles(i),
         \A c \in Cursors : cursor'[c].m < clock /\ Unseen(c, cursor'[c].m)
  PROVE  /\ \A i \in Jobs' : BatchIsTyped(i)' /\ EndIsAhead(i)' /\ BatchIsSound(i)'
         /\ FormsAreSound' /\ ClockIsAhead' /\ UnseenIsAhead'
<1>0. UNCHANGED <<clock, modified, links, gone, untitled, recast, tx, late>>
  BY DEF db
<1> SUFFICES /\ \A i \in Jobs : BatchIsTyped(i)' /\ EndIsAhead(i)' /\ BatchIsSound(i)'
             /\ FormsAreSound' /\ ClockIsAhead' /\ UnseenIsAhead'
  BY DEF Jobs
<1>1. ASSUME NEW i \in Jobs, Working(i)'
      PROVE  /\ job'[i] = job[i] /\ Working(i) /\ CursorOf(i)' = CursorOf(i)
             /\ cursor'[CursorOf(i)] = cursor[CursorOf(i)]
  BY <1>1 DEF Settles, Working, CursorOf
<1>2. ASSUME NEW i \in Jobs PROVE BatchIsTyped(i)'
  <2> SUFFICES ASSUME Working(i)'
               PROVE  /\ job'[i].rows \subseteq RowsOf(CursorOf(i)')
                      /\ i # "movies" => job'[i].says \in [job'[i].rows -> Stamps]
    BY DEF BatchIsTyped
  <2> QED BY <1>1 DEF SearchInv, BatchIsTyped
<1>3. ASSUME NEW i \in Jobs PROVE BatchIsSound(i)'
  <2> SUFFICES ASSUME Working(i)', NEW r \in RowsOf(CursorOf(i)'),
                      modified'[r] > 0, UpTo(r, job[i].end)'
               PROVE  IsTaken(i, r)'
    BY <1>1 DEF BatchIsSound, UpTo, After
  <2>1. UpTo(r, job[i].end)
    BY <1>0, <1>1 DEF UpTo, After
  <2>2. IsTaken(i, r)
    BY <1>0, <1>1, <2>1 DEF SearchInv, BatchIsSound
  <2> QED BY <1>0, <1>1, <2>2 DEF IsTaken, After
<1>4. FormsAreSound'
  BY <1>0 DEF SearchInv, FormsAreSound
<1>5. ClockIsAhead'
  <2>1. \A i \in Jobs : Working(i)' => job'[i].end.m < clock'
    BY <1>0, <1>1 DEF SearchInv, ClockIsAhead
  <2> QED BY <1>0, <2>1 DEF SearchInv, ClockIsAhead
<1>6. UnseenIsAhead'
  <2>1. \A c \in Cursors : Unseen(c, cursor[c].m)'
    BY <1>0 DEF Unseen
  <2>2. \A i \in Jobs : Working(i)' => Unseen(CursorOf(i), job[i].end.m)'
    <3> SUFFICES ASSUME NEW i \in Jobs, Working(i)'
                 PROVE  Unseen(CursorOf(i), job[i].end.m)'
      OBVIOUS
    <3>1. Unseen(CursorOf(i), job[i].end.m)
      BY <1>1 DEF SearchInv, UnseenIsAhead
    <3> QED BY <1>0, <1>1, <3>1 DEF Unseen
  <2> QED BY <2>1, <2>2 DEF UnseenIsAhead
<1>7. ASSUME NEW i \in Jobs PROVE EndIsAhead(i)'
  BY <1>1 DEF SearchInv, EndIsAhead
<1> QED BY <1>2, <1>3, <1>4, <1>5, <1>6, <1>7

\* What a bulk request takes is as the tables are, and a cursor may move to the end
\* of a batch that was all taken.
LEMMA BulkIndexes ==
  ASSUME SearchInv, UNCHANGED db, NEW j \in Jobs, NEW taken, BulkUpsert(j, taken),
         torn \subseteq torn',
         \A c \in Cursors : \A r \in RowsOf(c) :
           modified[r] > 0 /\ UpTo(r, cursor'[c]) =>
             \/ UpTo(r, cursor[c]) \/ <<c, modified[r]>> \in torn'
             \/ taken = Transformed(j) /\ c = CursorOf(j) /\ UpTo(r, job[j].end)
  PROVE  PassedIsIndexed' /\ NamesFollow' /\ DocumentsAreOld'
<1>0. UNCHANGED <<clock, modified, links, gone, untitled, recast, tx, late>>
  BY DEF db
<1> DEFINE c == CursorOf(j)
<1>1. /\ SearchTypeOK /\ Working(j) /\ j \in {"movies", "persons", "genres"} /\ c \in Cursors
      /\ taken \subseteq Transformed(j)
  BY CursorsOfJobs DEF SearchInv, BulkUpsert, Working
<1>2. ASSUME NEW d \in Cursors, NEW r, Excused(d, r) PROVE Excused(d, r)'
  BY <1>0, <1>2 DEF Excused
<1>3. ASSUME NEW d \in Cursors, NEW r, HasPassed(d, r)'
      PROVE  \/ HasPassed(d, r) \/ Excused(d, r)'
             \/ /\ taken = Transformed(j) /\ d = c /\ r \in RowsOf(c)
                /\ r \in job[j].rows
                /\ j # "movies" => job[j].says[r] = modified[r]
  <2>1. r \in RowsOf(d) /\ modified[r] > 0 /\ UpTo(r, cursor'[d])
    BY <1>0, <1>3 DEF HasPassed, UpTo, After
  <2>2. CASE UpTo(r, cursor[d])
    BY <2>1, <2>2 DEF HasPassed, UpTo
  <2>3. CASE <<d, modified[r]>> \in torn'
    BY <1>0, <2>3 DEF Excused
  <2>4. CASE ~UpTo(r, cursor[d]) /\ taken = Transformed(j) /\ d = c /\ UpTo(r, job[j].end)
    <3>1. IsTaken(j, r)
      BY <1>1, <2>1, <2>4 DEF SearchInv, BatchIsSound
    <3> QED BY <1>0, <2>1, <2>4, <3>1 DEF IsTaken, UpTo, Excused
  <2> QED BY <2>1, <2>2, <2>3, <2>4
<1>4. CASE j = "movies"
  <2>1. /\ c \in {"film_work", "person", "genre"} /\ parts' = parts
        /\ movieIndex' = [f \in Films |-> IF f \in taken THEN Document(f) ELSE movieIndex[f]]
    BY <1>1, <1>4, CursorsOfJobs DEF BulkUpsert
  <2>2. ASSUME NEW f \in taken
        PROVE  /\ f \in Films /\ movieIndex'[f].at = modified[f]
               /\ \A p \in links[f] : movieIndex'[f].names[p] = modified[p]
    <3>1. f \in Films /\ movieIndex'[f] = Document(f) /\ links[f] \subseteq Parts
      BY <1>1, <1>4, <2>1 DEF Transformed, DocIds, SearchTypeOK
    <3> QED BY <3>1 DEF Document
  <2>3. ASSUME NEW f \in Films \ untitled, HasPassed("film_work", f)'
        PROVE  movieIndex'[f].at = modified[f] \/ Excused("film_work", f)'
    <3>1. CASE f \in taken
      BY <2>2, <3>1
    <3>2. CASE f \notin taken /\ HasPassed("film_work", f)
      <4>1. movieIndex[f].at = modified[f] \/ Excused("film_work", f)
        BY <3>2 DEF SearchInv, PassedIsIndexed
      <4> QED BY <1>2, <2>1, <3>2, <4>1 DEF Cursors
    <3>3. CASE taken = Transformed(j) /\ f \in job[j].rows
      <4>1. f \in taken
        BY <1>0, <1>4, <2>3, <3>3 DEF Transformed, DocIds, HasPassed
      <4> QED BY <2>2, <4>1
    <3> QED BY <1>3, <2>3, <3>1, <3>2, <3>3 DEF Cursors
  <2>4. ASSUME NEW d \in {"persons_index", "genres_index"}, NEW p \in Parts, HasPassed(d, p)'
        PROVE  parts'[p] = modified[p] \/ Excused(d, p)'
    <3>1. d \in Cursors /\ d # c
      BY <2>1 DEF Cursors
    <3>2. HasPassed(d, p) \/ Excused(d, p)'
      BY <1>3, <2>4, <3>1
    <3>3. HasPassed(d, p) => parts[p] = modified[p] \/ Excused(d, p)
      BY DEF SearchInv, PassedIsIndexed
    <3> QED BY <1>2, <2>1, <3>1, <3>2, <3>3
  <2>5. ASSUME NEW f \in Films, NEW d \in {"person", "genre"}, NEW p \in links[f],
               HasPassed(d, p)', modified[f] > 0, movieIndex'[f].at = modified[f]
        PROVE  movieIndex'[f].names[p] = modified[p] \/ Excused(d, p)'
    <3>1. CASE f \in taken
      BY <2>2, <3>1
    <3>2. CASE f \notin taken /\ HasPassed(d, p)
      <4>1. movieIndex'[f] = movieIndex[f]
        BY <2>1, <3>2
      <4>2. movieIndex[f].names[p] = modified[p] \/ Excused(d, p)
        BY <2>5, <3>2, <4>1 DEF SearchInv, NamesFollow
      <4> QED BY <1>2, <4>1, <4>2 DEF Cursors
    <3>3. CASE taken = Transformed(j) /\ p \in job[j].rows
      <4>1. f \in taken \/ f \in untitled
        BY <1>4, <2>5, <3>3 DEF Transformed, DocIds
      <4>2. CASE f \notin taken /\ f \in untitled
        <5>1. movieIndex'[f].at = 0
          BY <2>1, <4>2 DEF SearchInv, DocumentsAreOld
        <5>2. modified[f] \in Nat
          BY <1>1, SearchNumbers, RowsAreNumbers
        <5> QED BY <2>5, <5>1, <5>2
      <4> QED BY <2>2, <4>1, <4>2
    <3> QED BY <1>3, <2>5, <3>1, <3>2, <3>3 DEF Cursors
  <2>6. PassedIsIndexed'
    BY <1>0, <2>3, <2>4 DEF PassedIsIndexed
  <2>7. NamesFollow'
    BY <1>0, <2>5 DEF NamesFollow
  <2>8. DocumentsAreOld'
    <3>1. ASSUME NEW f \in Films, f \notin gone PROVE movieIndex'[f].at <= modified[f]
      <4>1. modified[f] \in Nat
        BY <1>1, SearchNumbers, RowsAreNumbers
      <4>2. CASE f \in taken
        BY <2>2, <4>1, <4>2
      <4>3. CASE f \notin taken
        BY <2>1, <3>1, <4>3 DEF SearchInv, DocumentsAreOld
      <4> QED BY <4>2, <4>3
    <3>2. ASSUME NEW f \in untitled PROVE movieIndex'[f].at = 0
      <4>1. f \in Films /\ f \notin taken
        BY <1>1 DEF SearchTypeOK, Transformed
      <4> QED BY <2>1, <4>1 DEF SearchInv, DocumentsAreOld
    <3> QED BY <1>0, <3>1, <3>2 DEF SearchInv, DocumentsAreOld
  <2> QED BY <2>6, <2>7, <2>8
<1>5. CASE j # "movies"
  <2>1. /\ c \in {"persons_index", "genres_index"} /\ movieIndex' = movieIndex
        /\ parts' = [p \in Parts |-> IF p \in taken THEN job[j].says[p] ELSE parts[p]]
        /\ Transformed(j) = job[j].rows
    <3>1. c \in {"persons_index", "genres_index"}
      BY <1>1, <1>5, CursorsOfJobs
    <3>2. job[j].rows \cap untitled = {}
      <4>1. job[j].rows \subseteq RowsOf(c) /\ untitled \subseteq Films
        BY <1>1 DEF SearchInv, BatchIsTyped, SearchTypeOK
      <4>2. RowsOf(c) \cap Films = {}
        BY <3>1, RowsOfCursor, RowsAreNumbers DEF Parts
      <4> QED BY <4>1, <4>2
    <3> QED BY <1>5, <3>1, <3>2 DEF BulkUpsert, Transformed, DocIds
  <2>2. ASSUME NEW d \in Cursors \ {c}, NEW r, HasPassed(d, r)'
        PROVE  HasPassed(d, r) \/ Excused(d, r)'
    BY <1>3, <2>2
  <2>3. PassedIsIndexed'
    <3>1. ASSUME NEW f \in Films \ untitled, HasPassed("film_work", f)'
          PROVE  movieIndex'[f].at = modified[f] \/ Excused("film_work", f)'
      <4>1. HasPassed("film_work", f) => movieIndex[f].at = modified[f] \/ Excused("film_work", f)
        BY DEF SearchInv, PassedIsIndexed
      <4>2. "film_work" \in Cursors \ {c}
        BY <2>1 DEF Cursors
      <4> QED BY <1>2, <2>1, <2>2, <3>1, <4>1, <4>2
    <3>2. ASSUME NEW d \in {"persons_index", "genres_index"}, NEW p \in Parts, HasPassed(d, p)'
          PROVE  parts'[p] = modified[p] \/ Excused(d, p)'
      <4>1. /\ d \in Cursors /\ p \in RowsOf(d) /\ modified[p] > 0 /\ UpTo(p, cursor'[d])
            /\ HasPassed(d, p) => parts[p] = modified[p] \/ Excused(d, p)
        BY <1>0, <3>2 DEF Cursors, HasPassed, UpTo, After, SearchInv, PassedIsIndexed
      <4>2. CASE d = c /\ p \in taken /\ <<c, modified[p]>> \notin torn'
        <5>1. UpTo(p, cursor[c]) => UpTo(p, job[j].end)
          <6>1. /\ p \in Nat /\ modified[p] \in Nat /\ cursor[c].m \in Nat /\ cursor[c].id \in Nat
                /\ job[j].end.m \in Nat /\ job[j].end.id \in Nat
            BY <1>1, SearchNumbers, RowsAreNumbers
          <6> QED BY <1>1, <6>1 DEF SearchInv, EndIsAhead, UpTo, After
        <5>2. UpTo(p, job[j].end)
          BY <4>1, <4>2, <5>1
        <5>3. IsTaken(j, p)
          BY <1>1, <4>1, <4>2, <5>2 DEF SearchInv, BatchIsSound
        <5>4. p \in job[j].rows /\ parts'[p] = job[j].says[p]
          BY <1>1, <2>1, <4>2
        <5> QED BY <1>0, <1>5, <4>2, <5>3, <5>4 DEF IsTaken, Excused
      <4>3. CASE d = c /\ p \notin taken
        <5>1. parts'[p] = parts[p]
          BY <2>1, <4>3
        <5>2. HasPassed(d, p) \/ Excused(d, p)'
          BY <1>3, <2>1, <3>2, <4>1, <4>3
        <5> QED BY <1>2, <4>1, <5>1, <5>2
      <4>4. CASE d # c
        <5>1. p \notin taken
          <6>1. taken \subseteq RowsOf(c) /\ RowsOf(c) \cap RowsOf(d) = {}
            BY <1>1, <2>1, <4>4, RowsOfCursor, RowsAreNumbers DEF SearchInv, BatchIsTyped
          <6> QED BY <4>1, <6>1
        <5>2. HasPassed(d, p) \/ Excused(d, p)'
          BY <2>2, <3>2, <4>1, <4>4
        <5> QED BY <1>2, <2>1, <4>1, <5>1, <5>2
      <4>5. CASE <<d, modified[p]>> \in torn'
        BY <1>0, <4>5 DEF Excused
      <4> QED BY <4>2, <4>3, <4>4, <4>5
    <3> QED BY <1>0, <3>1, <3>2 DEF PassedIsIndexed
  <2>4. NamesFollow'
    <3>1. ASSUME NEW f \in Films, NEW d \in {"person", "genre"}, NEW p \in links[f],
                 HasPassed(d, p)', modified[f] > 0, movieIndex[f].at = modified[f]
          PROVE  movieIndex[f].names[p] = modified[p] \/ Excused(d, p)'
      <4>1. d \in Cursors \ {c}
        BY <2>1 DEF Cursors
      <4>2. HasPassed(d, p) => movieIndex[f].names[p] = modified[p] \/ Excused(d, p)
        BY <3>1 DEF SearchInv, NamesFollow
      <4> QED BY <1>2, <2>2, <3>1, <4>1, <4>2
    <3> QED BY <1>0, <2>1, <3>1 DEF NamesFollow
  <2>5. DocumentsAreOld'
    BY <1>0, <2>1 DEF SearchInv, DocumentsAreOld
  <2> QED BY <2>3, <2>4, <2>5
<1> QED BY <1>1, <1>4, <1>5

\* A job is through with its batch: the cursor moves to the stamp of its end, or
\* stays, and the index has what the cursor passes.
LEMMA BatchEnds ==
  ASSUME SearchInv, quiet' \in BOOLEAN, UNCHANGED db, NEW j \in Jobs, NEW taken,
         BulkUpsert(j, taken), NEW e \in [m : Stamps, id : AllRows \cup {0}],
         cursor' = [cursor EXCEPT ![CursorOf(j)] = e],
         \/ e = cursor[CursorOf(j)]
         \/ e.m = job[j].end.m /\ taken = Transformed(j),
         \A r \in RowsOf(CursorOf(j)) :
           UpTo(r, e) => \/ UpTo(r, cursor[CursorOf(j)]) \/ <<CursorOf(j), modified[r]>> \in torn'
                         \/ taken = Transformed(j) /\ UpTo(r, job[j].end),
         torn \subseteq torn', torn' \subseteq Cursors \X Stamps,
         \E fleet \in Fleets : job' \in [fleet -> JobStates],
         Jobs' = Jobs, \A i \in Jobs \ {j} : job'[i] = job[i] \/ job'[i].rows = {},
         job'[j].rows = {} \/ (job'[j] = job[j] /\ e = cursor[CursorOf(j)])
  PROVE  SearchInv'
<1> DEFINE c == CursorOf(j)
<1>0. UNCHANGED <<clock, modified, links, gone, untitled, recast, tx, late>>
  BY DEF db
<1>1. SearchTypeOK /\ Working(j) /\ c \in Cursors /\ cursor \in [Cursors -> [m : Stamps, id : AllRows \cup {0}]]
  BY CursorsOfJobs DEF SearchInv, BulkUpsert, Working, SearchTypeOK
<1>2. cursor'[c] = e /\ \A d \in Cursors \ {c} : cursor'[d] = cursor[d]
  BY <1>1
<1>3. \A i \in Jobs : Settles(i)
  <2> SUFFICES ASSUME NEW i \in Jobs, job'[i] = job[i] PROVE Settles(i)
    BY DEF Settles
  <2>1. CASE i = j
    BY <1>2, <2>1 DEF Settles
  <2>2. CASE i # j
    <3>1. CursorOf(i) \in Cursors \ {c}
      BY <1>1, <2>2, CursorsOfJobs
    <3> QED BY <1>2, <3>1 DEF Settles
  <2> QED BY <2>1, <2>2
<1>4. \A d \in Cursors : cursor'[d].m < clock /\ Unseen(d, cursor'[d].m)
  <2>1. \A d \in Cursors : cursor[d].m < clock /\ Unseen(d, cursor[d].m)
    BY DEF SearchInv, ClockIsAhead, UnseenIsAhead
  <2>2. job[j].end.m < clock /\ Unseen(c, job[j].end.m)
    BY <1>1 DEF SearchInv, ClockIsAhead, UnseenIsAhead
  <2>3. e.m < clock /\ Unseen(c, e.m)
    BY <1>1, <2>1, <2>2
  <2> QED BY <1>2, <2>1, <2>3
<1>5. /\ \A i \in Jobs' : BatchIsTyped(i)' /\ EndIsAhead(i)' /\ BatchIsSound(i)'
      /\ FormsAreSound' /\ ClockIsAhead' /\ UnseenIsAhead'
  BY <1>3, <1>4, SettledJobs
<1>6. PassedIsIndexed' /\ NamesFollow' /\ DocumentsAreOld'
  <2>1. ASSUME NEW d \in Cursors, NEW r \in RowsOf(d), UpTo(r, cursor'[d])
        PROVE  \/ UpTo(r, cursor[d]) \/ <<d, modified[r]>> \in torn'
               \/ taken = Transformed(j) /\ d = c /\ UpTo(r, job[j].end)
    <3>1. CASE d = c
      BY <1>2, <2>1, <3>1
    <3>2. CASE d # c
      BY <1>2, <2>1, <3>2
    <3> QED BY <3>1, <3>2
  <2> QED BY <2>1, BulkIndexes
<1>7. SearchTypeOK'
  <2>1. /\ movieIndex' \in [Films -> [at : Stamps, names : [Parts -> Stamps]]]
        /\ parts' \in [Parts -> Stamps] /\ credits' \in [Persons -> SUBSET Films]
    BY <1>1, BulkIsTyped DEF SearchInv
  <2>2. cursor' \in [Cursors -> [m : Stamps, id : AllRows \cup {0}]]
    BY <1>1
  <2>3. /\ clock' \in 2..(MaxClock + 1) /\ modified' \in [AllRows -> Stamps]
        /\ links' \in [Films -> SUBSET Parts] /\ gone' \subseteq AllRows
        /\ tx' \subseteq [row : AllRows, at : Stamps, links : SUBSET Parts, seen : SUBSET Cursors]
        /\ untitled' \subseteq Films /\ recast' \subseteq Persons
        /\ late' \subseteq Cursors \X AllRows
    BY <1>0, <1>1 DEF SearchTypeOK
  <2> QED BY <2>1, <2>2, <2>3 DEF SearchTypeOK
<1> QED BY <1>5, <1>6, <1>7 DEF SearchInv

LEMMA LoadKeepsInv ==
  ASSUME SearchInv, quiet' \in BOOLEAN, NEW j \in Jobs, Load(j)
  PROVE  SearchInv'
<1> DEFINE v == IF Cardinality(job[j].rows) < EtlBatchSize THEN NextTable(j)
                ELSE [NoJob EXCEPT !.at = job[j].at]
<1>1. SearchTypeOK /\ job[j] \in JobStates /\ job[j].at \in 1..3
  BY CursorsOfJobs DEF SearchInv, JobStates
<1>2. v \in JobStates /\ v.rows = {}
  BY <1>1, NoJobIsTyped, NextTableIsTyped
<1>3. SetJob(j, v)
  BY DEF Load
<1>4. /\ \E fleet \in Fleets : job' \in [fleet -> JobStates]
      /\ Jobs' = Jobs /\ job'[j] = v /\ \A i \in Jobs \ {j} : job'[i] = job[i]
  <2> HIDE DEF v
  <2> QED BY <1>1, <1>2, <1>3, SetJobIsTyped
<1>5. job[j].end \in [m : Stamps, id : AllRows \cup {0}]
  BY <1>1 DEF JobStates
<1>6. /\ UNCHANGED db /\ torn' = torn /\ torn \subseteq Cursors \X Stamps
      /\ BulkUpsert(j, Transformed(j)) /\ cursor' = [cursor EXCEPT ![CursorOf(j)] = job[j].end]
  BY <1>1 DEF Load, SearchTypeOK
<1> HIDE DEF v
<1> QED BY <1>2, <1>4, <1>5, <1>6, BatchEnds

LEMMA LoadFailsKeepsInv ==
  ASSUME SearchInv, quiet' \in BOOLEAN, NEW j \in Jobs, NEW taken, LoadFails(j, taken)
  PROVE  SearchInv'
<1> DEFINE c == CursorOf(j)
<1>1. SearchTypeOK /\ c \in Cursors
  BY CursorsOfJobs DEF SearchInv
<1>2. cursor[c] \in [m : Stamps, id : AllRows \cup {0}] /\ cursor' = [cursor EXCEPT ![c] = cursor[c]]
  BY <1>1 DEF LoadFails, SearchTypeOK
<1>3. /\ \E fleet \in Fleets : job' \in [fleet -> JobStates]
      /\ Jobs' = Jobs /\ \A i \in Jobs \ {j} : job'[i] = job[i]
      /\ job'[j].rows = {} \/ job'[j] = job[j]
  <2>1. CASE SetJob(j, NoJob)
    BY <1>1, <2>1, NoJobIsTyped, SetJobIsTyped
  <2>2. CASE UNCHANGED job
    BY <1>1, <2>2 DEF SearchTypeOK, Jobs
  <2> QED BY <2>1, <2>2 DEF LoadFails
<1>4. /\ UNCHANGED db /\ torn' = torn /\ torn \subseteq Cursors \X Stamps /\ BulkUpsert(j, taken)
  BY <1>1 DEF LoadFails, SearchTypeOK
<1> QED BY <1>2, <1>3, <1>4, BatchEnds

\* A cursor that moved by half is torn, unless that makes no difference.
LEMMA HalfSavedMoves ==
  ASSUME SearchInv, NEW j \in Jobs, HalfSaved(j)
  PROVE  \E e \in [m : Stamps, id : AllRows \cup {0}] :
           /\ cursor' = [cursor EXCEPT ![CursorOf(j)] = e] /\ e.m = job[j].end.m
           /\ \A r \in RowsOf(CursorOf(j)) :
                UpTo(r, e) => <<CursorOf(j), modified[r]>> \in torn' \/ UpTo(r, job[j].end)
           /\ torn \subseteq torn' /\ torn' \subseteq Cursors \X Stamps
<1> DEFINE c == CursorOf(j)
           end == job[j].end
           half == [end EXCEPT !.id = cursor[c].id]
<1>1. SearchTypeOK /\ c \in Cursors /\ end \in [m : Stamps, id : AllRows \cup {0}]
  BY CursorsOfJobs DEF SearchInv, JobStates
<1>2. cursor[c].id \in AllRows \cup {0}
  BY <1>1, SearchNumbers
<1>3. half \in [m : Stamps, id : AllRows \cup {0}] /\ half.m = end.m
  <2> HIDE DEF end
  <2> QED BY <1>1, <1>2
<1>4. /\ cursor' = [cursor EXCEPT ![c] = half]
      /\ torn' = IF half = end THEN torn ELSE torn \cup {<<c, half.m>>}
  BY DEF HalfSaved
<1>5. torn \subseteq torn' /\ torn' \subseteq Cursors \X Stamps
  <2> HIDE DEF half
  <2> QED BY <1>1, <1>3, <1>4 DEF SearchTypeOK
<1>6. ASSUME NEW r \in RowsOf(c), UpTo(r, half)
      PROVE  <<c, modified[r]>> \in torn' \/ UpTo(r, end)
  <2>1. CASE half = end
    BY <1>6, <2>1
  <2>2. CASE half # end /\ modified[r] = end.m
    BY <1>3, <1>4, <2>2
  <2>3. CASE half # end /\ modified[r] # end.m
    <3> HIDE DEF half, end
    <3> QED BY <1>3, <1>6, <2>3 DEF UpTo, After
  <2> QED BY <2>1, <2>2, <2>3
<1> HIDE DEF half
<1> QED BY <1>3, <1>4, <1>5, <1>6

LEMMA SaveBreaksKeepsInv ==
  ASSUME SearchInv, quiet' \in BOOLEAN, NEW j \in Jobs, SaveFails(j) \/ RestartInSave(j)
  PROVE  SearchInv'
<1>1. SearchTypeOK
  BY DEF SearchInv
<1>2. /\ \E fleet \in Fleets : job' \in [fleet -> JobStates]
      /\ Jobs' = Jobs /\ \A i \in Jobs \ {j} : job'[i] = job[i] \/ job'[i].rows = {}
      /\ job'[j].rows = {}
  <2>1. CASE SetJob(j, NoJob)
    BY <1>1, <2>1, NoJobIsTyped, SetJobIsTyped
  <2>2. CASE Restarted
    BY <1>1, <2>2, NoJobIsTyped, RestartedIsTyped
  <2> QED BY <2>1, <2>2 DEF SaveFails, RestartInSave
<1>3. UNCHANGED db /\ BulkUpsert(j, Transformed(j)) /\ HalfSaved(j)
  BY DEF SaveFails, RestartInSave, HalfSaved
<1>4. PICK e \in [m : Stamps, id : AllRows \cup {0}] :
           /\ cursor' = [cursor EXCEPT ![CursorOf(j)] = e] /\ e.m = job[j].end.m
           /\ \A r \in RowsOf(CursorOf(j)) :
                UpTo(r, e) => <<CursorOf(j), modified[r]>> \in torn' \/ UpTo(r, job[j].end)
           /\ torn \subseteq torn' /\ torn' \subseteq Cursors \X Stamps
  BY <1>3, HalfSavedMoves
<1> QED BY <1>2, <1>3, <1>4, BatchEnds

\* While the rows, the cursors and the indices stay, so does what they agree on.
LEMMA SameIndices ==
  ASSUME SearchInv, UNCHANGED <<modified, links, gone, untitled, recast, late, cursor, movieIndex, parts, credits, torn>>
  PROVE  PassedIsIndexed' /\ NamesFollow' /\ DocumentsAreOld'
<1> USE DEF HasPassed, Excused, After
<1>1. PassedIsIndexed'
  BY DEF SearchInv, PassedIsIndexed
<1>2. NamesFollow'
  BY DEF SearchInv, NamesFollow
<1>3. DocumentsAreOld'
  BY DEF SearchInv, DocumentsAreOld
<1> QED BY <1>1, <1>2, <1>3

\* The jobs turn to another table, or begin anew.
LEMMA JobsRestKeepsInv ==
  ASSUME SearchInv, quiet' \in BOOLEAN, UNCHANGED <<db, cursor, movieIndex, parts, credits, torn>>,
         \E fleet \in Fleets : job' \in [fleet -> JobStates],
         Jobs' = Jobs, \A i \in Jobs : job'[i] = job[i] \/ job'[i].rows = {}
  PROVE  SearchInv'
<1>0. UNCHANGED <<clock, modified, links, gone, untitled, recast, tx, late>>
  BY DEF db
<1>1. \A i \in Jobs : Settles(i)
  BY DEF Settles
<1>2. \A c \in Cursors : cursor'[c].m < clock /\ Unseen(c, cursor'[c].m)
  BY DEF SearchInv, ClockIsAhead, UnseenIsAhead
<1>3. /\ \A i \in Jobs' : BatchIsTyped(i)' /\ EndIsAhead(i)' /\ BatchIsSound(i)'
      /\ FormsAreSound' /\ ClockIsAhead' /\ UnseenIsAhead'
  BY <1>0, <1>1, <1>2, SettledJobs
<1>4. PassedIsIndexed' /\ NamesFollow' /\ DocumentsAreOld'
  BY <1>0, SameIndices
<1>5. SearchTypeOK'
  BY <1>0 DEF SearchInv, SearchTypeOK
<1> QED BY <1>3, <1>4, <1>5 DEF SearchInv

LEMMA RestartEtlKeepsInv ==
  ASSUME SearchInv, quiet' \in BOOLEAN, RestartEtl
  PROVE  SearchInv'
<1>1. SearchTypeOK
  BY DEF SearchInv
<1>2. /\ \E fleet \in Fleets : job' \in [fleet -> JobStates]
      /\ Jobs' = Jobs /\ \A i \in Jobs : job'[i] = NoJob
  BY <1>1, RestartedIsTyped DEF RestartEtl
<1>3. UNCHANGED <<db, cursor, movieIndex, parts, credits, torn>> /\ \A i \in Jobs : job'[i].rows = {}
  BY <1>2, NoJobIsTyped DEF RestartEtl
<1> QED BY <1>2, <1>3, JobsRestKeepsInv

LEMMA NothingToExtract ==
  ASSUME SearchInv, quiet' \in BOOLEAN, NEW j \in Jobs, Extract(j), Batch(CursorOf(j)) = {}
  PROVE  SearchInv'
<1>1. SearchTypeOK
  BY DEF SearchInv
<1>2. SetJob(j, NextTable(j)) /\ UNCHANGED <<db, cursor, movieIndex, parts, credits, torn>>
  BY DEF Extract, db
<1>3. /\ \E fleet \in Fleets : job' \in [fleet -> JobStates]
      /\ Jobs' = Jobs /\ job'[j].rows = {} /\ \A i \in Jobs \ {j} : job'[i] = job[i]
  BY <1>1, <1>2, NextTableIsTyped, SetJobIsTyped
<1> QED BY <1>2, <1>3, JobsRestKeepsInv

LEMMA ExtractKeepsInv ==
  ASSUME SearchInv, quiet' \in BOOLEAN, NEW j \in Jobs, Extract(j), Batch(CursorOf(j)) # {}
  PROVE  SearchInv'
<1> DEFINE c == CursorOf(j)
           b == Batch(c)
<1>1. /\ SearchTypeOK /\ FormsAreSound /\ ClockIsAhead /\ c \in Cursors /\ b \subseteq Changed(c)
      /\ Changed(c) \subseteq RowsOf(c) /\ RowsOf(c) \subseteq AllRows
  BY CursorsOfJobs, RowsOfCursor DEF SearchInv, Batch, Changed
<1>2. /\ UNCHANGED <<modified, links, gone, untitled, recast, late, cursor, movieIndex, parts, credits, torn>>
      /\ clock' = IF clock \in {modified[r] : r \in AllRows} \cup {t.at : t \in tx}
                  THEN clock + 1 ELSE clock
      /\ tx' = {IF t.row \in RowsOf(c) THEN [t EXCEPT !.seen = @ \cup {c}] ELSE t : t \in tx}
  BY DEF Extract
<1>3. /\ clock' \in 2..(MaxClock + 1) /\ clock <= clock' /\ clock' \in Nat
      /\ \A r \in AllRows : modified[r] < clock'
      /\ \A t \in tx : t.at < clock'
  BY <1>1, <1>2, ReadMovesClock
<1>4. /\ tx' \subseteq [row : AllRows, at : Stamps, links : SUBSET Parts, seen : SUBSET Cursors]
      /\ \A u \in tx' : \E t \in tx : /\ u.row = t.row /\ u.at = t.at /\ t.seen \subseteq u.seen
                                      /\ t.row \in RowsOf(c) => c \in u.seen
      /\ \A u, v \in tx' : u.row = v.row => u = v
  BY <1>1, <1>2, ReadMarksForms
<1>5. /\ \E fleet \in Fleets : job' \in [fleet -> JobStates]
      /\ Jobs' = Jobs /\ job'[j].at = job[j].at /\ \A i \in Jobs \ {j} : job'[i] = job[i]
      /\ job'[j].rows = b
      /\ j # "movies" => job'[j].says = [r \in b |-> modified[r]]
  BY <1>1, ReadFillsJob
<1>6. PICK last \in b : /\ \A q \in b \ {last} : Before(q, last)
                        /\ job'[j].end = [m |-> modified[last], id |-> last]
  BY <1>1, ReadFillsJob
<1>7. /\ CursorOf(j)' = c /\ Working(j)' /\ job'[j].end.m = modified[last] /\ job'[j].end.id = last
      /\ \A i \in Jobs \ {j} : /\ CursorOf(i)' = CursorOf(i) /\ Working(i)' = Working(i)
                               /\ job'[i].end = job[i].end
  <2> HIDE DEF b
  <2>1. last \in job'[j].rows /\ job'[j].end.m = modified[last] /\ job'[j].end.id = last
    BY <1>5, <1>6
  <2>2. CursorOf(j)' = CursorOf(j)
    BY <1>5 DEF CursorOf
  <2> QED BY <1>5, <2>1, <2>2 DEF CursorOf, Working
<1>8. SearchTypeOK'
  BY <1>1, <1>2, <1>3, <1>4, <1>5 DEF SearchTypeOK
<1>9. FormsAreSound'
  <2>1. ASSUME NEW u \in tx' PROVE u.at <= clock' /\ (u.row \notin gone => modified[u.row] < u.at)
    <3>1. PICK t \in tx : u.row = t.row /\ u.at = t.at
      BY <1>4
    <3>2. t.at \in Nat /\ t.at < clock' /\ (t.row \notin gone => modified[t.row] < t.at)
      BY <1>1, <1>3, SearchNumbers DEF FormsAreSound
    <3> QED BY <1>3, <3>1, <3>2
  <2> QED BY <1>2, <1>4, <2>1 DEF FormsAreSound
<1>10. ClockIsAhead'
  <2>1. \A r \in AllRows : modified[r] <= clock'
    BY <1>1, <1>3, SearchNumbers
  <2>2. ASSUME NEW d \in Cursors PROVE cursor[d].m < clock'
    <3>1. cursor[d].m \in Nat /\ cursor[d].m < clock /\ clock \in Nat
      BY <1>1, SearchNumbers DEF ClockIsAhead
    <3> QED BY <1>3, <3>1
  <2>3. ASSUME NEW i \in Jobs, Working(i)' PROVE job'[i].end.m < clock'
    <3>1. CASE i = j
      BY <1>1, <1>3, <1>6, <1>7, <3>1
    <3>2. CASE i # j
      <4>1. job[i].end.m < clock /\ job[i].end.m \in Nat /\ clock \in Nat
        BY <1>1, <1>7, <2>3, <3>2, SearchNumbers DEF ClockIsAhead
      <4> QED BY <1>3, <1>7, <3>2, <4>1
    <3> QED BY <3>1, <3>2
  <2> QED BY <1>2, <1>5, <2>1, <2>2, <2>3 DEF ClockIsAhead
<1>11. UnseenIsAhead'
  <2>1. ASSUME NEW d \in Cursors, NEW m, Unseen(d, m) \/ d = c PROVE Unseen(d, m)'
    <3> SUFFICES ASSUME NEW u \in tx', u.row \in RowsOf(d), d \notin u.seen PROVE m < u.at
      BY DEF Unseen
    <3>1. PICK t \in tx : /\ u.row = t.row /\ u.at = t.at /\ t.seen \subseteq u.seen
                          /\ t.row \in RowsOf(c) => c \in u.seen
      BY <1>4
    <3> QED BY <2>1, <3>1 DEF Unseen
  <2>2. \A d \in Cursors : Unseen(d, cursor[d].m)'
    <3> SUFFICES ASSUME NEW d \in Cursors PROVE Unseen(d, cursor[d].m)'
      OBVIOUS
    <3>1. PICK m : m = cursor[d].m
      OBVIOUS
    <3>2. Unseen(d, m)'
      BY <2>1, <3>1 DEF SearchInv, UnseenIsAhead
    <3> QED BY <1>2, <3>1, <3>2 DEF Unseen
  <2>3. ASSUME NEW i \in Jobs, Working(i)' PROVE Unseen(CursorOf(i), job[i].end.m)'
    <3>1. PICK m : m = job'[i].end.m
      OBVIOUS
    <3>2. PICK d : d = CursorOf(i)
      OBVIOUS
    <3>3. d \in Cursors /\ CursorOf(i)' = d /\ (Unseen(d, m) \/ d = c)
      BY <1>1, <1>7, <2>3, <3>1, <3>2, CursorsOfJobs DEF SearchInv, UnseenIsAhead
    <3>4. Unseen(d, m)'
      BY <2>1, <3>3
    <3> QED BY <3>1, <3>3, <3>4 DEF Unseen
  <2> QED BY <1>5, <2>2, <2>3 DEF UnseenIsAhead
<1>12. ASSUME NEW i \in Jobs PROVE BatchIsTyped(i)' /\ EndIsAhead(i)' /\ BatchIsSound(i)'
  <2>1. CASE i # j
    <3>1. BatchIsTyped(i) /\ EndIsAhead(i) /\ BatchIsSound(i) /\ job'[i] = job[i]
          /\ CursorOf(i)' = CursorOf(i)
      BY <1>5, <1>7, <2>1 DEF SearchInv
    <3>2. BatchIsTyped(i)' /\ EndIsAhead(i)'
      BY <1>2, <3>1 DEF BatchIsTyped, EndIsAhead, Working
    <3>3. BatchIsSound(i)'
      BY <1>2, <3>1 DEF BatchIsSound, Working, UpTo, After, IsTaken
    <3> QED BY <3>2, <3>3
  <2>2. BatchIsTyped(j)' /\ EndIsAhead(j)' /\ BatchIsSound(j)'
    <3>1. /\ last \in RowsOf(c) /\ last \in Nat /\ modified[last] \in Nat /\ modified[last] > 0
          /\ After(last, cursor[c]) /\ cursor[c].m \in Nat /\ cursor[c].id \in Nat
      BY <1>1, <1>6, SearchNumbers DEF Changed
    <3>2. BatchIsTyped(j)'
      <4>1. b \subseteq RowsOf(c) /\ [r \in b |-> modified[r]] \in [b -> Stamps]
        BY <1>1 DEF SearchTypeOK
      <4> QED BY <1>5, <1>7, <4>1 DEF BatchIsTyped
    <3>3. EndIsAhead(j)'
      BY <1>2, <1>7, <3>1 DEF EndIsAhead, After
    <3>4. BatchIsSound(j)'
      <4>1. ASSUME NEW r \in RowsOf(c), modified[r] > 0, UpTo(r, job[j].end)', After(r, cursor[c])
            PROVE  r \in b
        <5>1. r \in Changed(c) /\ r \in Nat /\ modified[r] \in Nat
          BY <1>1, <4>1, SearchNumbers DEF Changed
        <5>2. r = last \/ Before(r, last)
          BY <1>2, <1>7, <3>1, <4>1, <5>1 DEF UpTo, After, Before
        <5> QED BY <1>1, <1>6, <5>1, <5>2, BatchIsDense
      <4>2. ASSUME NEW r \in RowsOf(c), modified[r] > 0, UpTo(r, job[j].end)'
            PROVE  IsTaken(j, r)'
        <5>1. After(r, cursor[CursorOf(j)])' => r \in job'[j].rows
          <6>1. CursorOf(j)' = c /\ cursor' = cursor /\ job'[j].rows = b
            BY <1>2, <1>5, <1>7
          <6> QED BY <1>2, <4>1, <4>2, <6>1 DEF After
        <5>2. (j # "movies" /\ r \in job'[j].rows) => job'[j].says[r] = modified'[r]
          BY <1>2, <1>5
        <5> QED BY <5>1, <5>2 DEF IsTaken
      <4> QED BY <1>2, <1>7, <4>2 DEF BatchIsSound
    <3> QED BY <3>2, <3>3, <3>4
  <2> QED BY <2>1, <2>2
<1>13. PassedIsIndexed' /\ NamesFollow' /\ DocumentsAreOld'
  BY <1>2, SameIndices
<1> QED BY <1>5, <1>8, <1>9, <1>10, <1>11, <1>12, <1>13 DEF SearchInv

-----------------------------------------------------------------------------
(* The forms of admin_panel, which leave the indices alone. *)

\* What forms change of the batches: nothing, when the rows change as they may.
LEMMA FormsKeepBatches ==
  ASSUME SearchInv, UNCHANGED etl, NEW j \in Jobs,
         \A r \in RowsOf(CursorOf(j)) :
           \/ modified'[r] = 0
           \/ <<CursorOf(j), r>> \in late'
           \/ modified'[r] = modified[r] /\ (<<CursorOf(j), r>> \in late => <<CursorOf(j), r>> \in late')
           \/ Working(j) => job[j].end.m < modified'[r]
  PROVE  BatchIsTyped(j)' /\ EndIsAhead(j)' /\ BatchIsSound(j)'
<1> DEFINE c == CursorOf(j)
<1>1. UNCHANGED <<cursor, job>> /\ CursorOf(j)' = c /\ Working(j)' = Working(j)
  BY DEF etl, CursorOf, Working
<1>2. BatchIsTyped(j)' /\ EndIsAhead(j)'
  BY <1>1 DEF SearchInv, BatchIsTyped, EndIsAhead
<1>3. ASSUME Working(j), NEW r \in RowsOf(c), modified'[r] > 0, UpTo(r, job[j].end)'
      PROVE  IsTaken(j, r)'
  <2>1. CASE <<c, r>> \in late'
    BY <1>1, <2>1 DEF IsTaken
  <2>2. CASE modified'[r] = modified[r] /\ (<<c, r>> \in late => <<c, r>> \in late')
    <3>1. UpTo(r, job[j].end)
      BY <1>1, <1>3, <2>2 DEF UpTo, After
    <3>2. IsTaken(j, r)
      BY <1>3, <2>2, <3>1 DEF SearchInv, BatchIsSound
    <3>3. After(r, cursor[c])' = After(r, cursor[c])
      BY <1>1, <2>2 DEF After
    <3> QED BY <1>1, <2>2, <3>2, <3>3 DEF IsTaken, After
  <2>3. ~(job[j].end.m < modified'[r])
    BY <1>1, <1>3 DEF UpTo, After
  <2> QED BY <1>3, <2>1, <2>2, <2>3
<1> QED BY <1>1, <1>2, <1>3 DEF BatchIsSound

\* A form that only asks for its turn, or that goes.
LEMMA OpenFormsKeepInv ==
  ASSUME SearchInv, quiet' \in BOOLEAN, UNCHANGED etl, UNCHANGED <<clock, modified, links, gone, untitled, recast, late>>,
         Edit \/ Finish,
         \A t \in tx' : t \in tx \/ (t.at = clock /\ modified[t.row] < clock /\ t.row \in AllRows),
         \A t, u \in tx' : t.row = u.row => t = u
  PROVE  SearchInv'
<1>0. UNCHANGED <<cursor, job, movieIndex, parts, credits, torn>> /\ SearchTypeOK
  BY DEF etl, SearchInv
<1>1. SearchTypeOK'
  <2>1. tx' \subseteq [row : AllRows, at : Stamps, links : SUBSET Parts, seen : SUBSET Cursors]
    BY <1>0, FormsAreTyped
  <2> QED BY <1>0, <2>1 DEF SearchTypeOK
<1>2. ASSUME NEW j \in Jobs PROVE BatchIsTyped(j)' /\ EndIsAhead(j)' /\ BatchIsSound(j)'
  BY FormsKeepBatches
<1>3. FormsAreSound'
  <2>1. clock \in Nat
    BY <1>0, SearchNumbers
  <2> QED BY <2>1 DEF SearchInv, FormsAreSound
<1>4. ClockIsAhead'
  BY <1>0 DEF SearchInv, ClockIsAhead, Working, Jobs
<1>5. UnseenIsAhead'
  <2>1. ASSUME NEW c \in Cursors, NEW m, Unseen(c, m), m < clock PROVE Unseen(c, m)'
    BY <2>1 DEF Unseen
  <2>2. ASSUME NEW c \in Cursors PROVE Unseen(c, cursor[c].m)'
    <3>1. PICK m : m = cursor[c].m
      OBVIOUS
    <3>2. Unseen(c, m)'
      BY <2>1, <3>1 DEF SearchInv, UnseenIsAhead, ClockIsAhead
    <3> QED BY <1>0, <3>1, <3>2 DEF Unseen
  <2>3. ASSUME NEW j \in Jobs, Working(j)' PROVE Unseen(CursorOf(j), job[j].end.m)'
    <3>1. PICK m : m = job[j].end.m
      OBVIOUS
    <3>2. PICK c : c = CursorOf(j)
      OBVIOUS
    <3>3. c \in Cursors /\ CursorOf(j)' = c /\ Working(j)
      BY <1>0, <2>3, <3>2, CursorsOfJobs DEF CursorOf, Working
    <3>4. Unseen(c, m)'
      BY <2>1, <3>1, <3>2, <3>3 DEF SearchInv, UnseenIsAhead, ClockIsAhead
    <3> QED BY <1>0, <3>1, <3>3, <3>4 DEF Unseen
  <2> QED BY <1>0, <2>2, <2>3 DEF UnseenIsAhead, Jobs
<1>6. PassedIsIndexed' /\ NamesFollow' /\ DocumentsAreOld'
  BY <1>0, SameIndices
<1> QED BY <1>0, <1>1, <1>2, <1>3, <1>4, <1>5, <1>6 DEF SearchInv, Jobs

LEMMA SaveKeepsInv ==
  ASSUME SearchInv, quiet' \in BOOLEAN, UNCHANGED etl,
         NEW r \in AllRows, NEW l \in SUBSET Parts, Save(r, l)
  PROVE  SearchInv'
<1>1. PICK t : t = [row |-> r, at |-> clock, links |-> l, seen |-> {}]
  OBVIOUS
<1>2. /\ UNCHANGED <<clock, modified, links, gone, untitled, recast, late>> /\ tx' = tx \cup {t}
      /\ t.row = r /\ t.at = clock /\ modified[r] < clock /\ \A u \in tx : u.row # r
  BY <1>1 DEF Save
<1>3. \A u, v \in tx : u.row = v.row => u = v
  BY DEF SearchInv, FormsAreSound
<1>4. Edit
  BY DEF Edit
<1> QED BY <1>2, <1>3, <1>4, OpenFormsKeepInv

LEMMA RollbackKeepsInv ==
  ASSUME SearchInv, quiet' \in BOOLEAN, UNCHANGED etl, NEW t \in tx, Rollback(t)
  PROVE  SearchInv'
<1>1. UNCHANGED <<clock, modified, links, gone, untitled, recast, late>> /\ tx' \subseteq tx
  BY DEF Rollback
<1>2. \A u, v \in tx : u.row = v.row => u = v
  BY DEF SearchInv, FormsAreSound
<1>3. Finish
  BY DEF Finish
<1> QED BY <1>1, <1>2, <1>3, OpenFormsKeepInv

\* What a transaction that commits makes visible is ahead of every cursor and batch
\* whose reads it was not seen to fall into.
LEMMA CommitIsAhead ==
  ASSUME SearchInv, NEW t \in tx, CommitForm(t), t.row \notin gone
  PROVE  /\ t.row \in AllRows /\ modified' = [modified EXCEPT ![t.row] = t.at]
         /\ modified'[t.row] = t.at /\ modified[t.row] < t.at /\ t.at \in Nat /\ t.at <= clock
         /\ \A r \in AllRows \ {t.row} : modified'[r] = modified[r]
         /\ \A f \in Films \ {t.row} : links'[f] = links[f]
         /\ \A x \in late : x[2] # t.row => x \in late'
         /\ \A c \in Cursors : t.row \in RowsOf(c) =>
              \/ <<c, t.row>> \in late'
              \/ /\ cursor[c].m < t.at
                 /\ \A j \in Jobs : Working(j) /\ CursorOf(j) = c => job[j].end.m < t.at
<1>1. SearchTypeOK /\ t.row \in AllRows /\ t.at \in Nat /\ t.at <= clock /\ modified[t.row] < t.at
  BY SearchNumbers DEF SearchInv, FormsAreSound
<1>2. /\ modified' = [modified EXCEPT ![t.row] = t.at]
      /\ links' = IF t.row \in Films THEN [links EXCEPT ![t.row] = t.links \ gone] ELSE links
      /\ late' = {x \in late : x[2] # t.row} \cup (t.seen \X {t.row})
  BY DEF CommitForm
<1>3. modified \in [AllRows -> Stamps] /\ links \in [Films -> SUBSET Parts]
  BY <1>1 DEF SearchTypeOK
<1>4. ASSUME NEW c \in Cursors, t.row \in RowsOf(c), <<c, t.row>> \notin late'
      PROVE  /\ cursor[c].m < t.at
             /\ \A j \in Jobs : Working(j) /\ CursorOf(j) = c => job[j].end.m < t.at
  <2>1. c \notin t.seen
    BY <1>2, <1>4
  <2> QED BY <1>4, <2>1 DEF SearchInv, UnseenIsAhead, Unseen
<1>5. \A f \in Films \ {t.row} : links'[f] = links[f]
  BY <1>2, <1>3
<1>6. modified'[t.row] = t.at /\ \A r \in AllRows \ {t.row} : modified'[r] = modified[r]
  BY <1>1, <1>2, <1>3
<1>7. \A x \in late : x[2] # t.row => x \in late'
  BY <1>2
<1> QED BY <1>1, <1>2, <1>4, <1>5, <1>6, <1>7

\* Less is open, and no stamp passes the clock.
LEMMA FewerFormsAreSound ==
  ASSUME SearchInv, UNCHANGED etl, clock' = clock, tx' \subseteq tx,
         \A r \in AllRows : modified'[r] <= clock,
         \A t \in tx' : t.row \notin gone' =>
           t.row \notin gone /\ modified'[t.row] = modified[t.row]
  PROVE  FormsAreSound' /\ ClockIsAhead' /\ UnseenIsAhead'
<1>0. UNCHANGED <<cursor, job>> /\ Jobs' = Jobs
  BY DEF etl, Jobs
<1>1. FormsAreSound'
  BY DEF SearchInv, FormsAreSound
<1>2. ClockIsAhead'
  BY <1>0 DEF SearchInv, ClockIsAhead, Working
<1>3. UnseenIsAhead'
  <2>1. \A c \in Cursors : Unseen(c, cursor[c].m)'
    BY <1>0 DEF SearchInv, UnseenIsAhead, Unseen
  <2>2. ASSUME NEW j \in Jobs, Working(j)' PROVE Unseen(CursorOf(j), job[j].end.m)'
    <3>1. Working(j) /\ CursorOf(j)' = CursorOf(j)
      BY <1>0, <2>2 DEF Working, CursorOf
    <3>2. Unseen(CursorOf(j), job[j].end.m)
      BY <3>1 DEF SearchInv, UnseenIsAhead
    <3> QED BY <1>0, <3>1, <3>2 DEF Unseen
  <2> QED BY <1>0, <2>1, <2>2 DEF UnseenIsAhead
<1> QED BY <1>1, <1>2, <1>3

LEMMA CommitFormKeepsInv ==
  ASSUME SearchInv, quiet' \in BOOLEAN, UNCHANGED etl, NEW t \in tx, CommitForm(t)
  PROVE  SearchInv'
<1>0. /\ UNCHANGED <<cursor, job, movieIndex, parts, credits, torn>> /\ SearchTypeOK /\ Jobs' = Jobs
      /\ UNCHANGED <<clock, gone>> /\ tx' = tx \ {t} /\ Finish
  BY DEF etl, SearchInv, CommitForm, Jobs, Finish
<1>1. CASE t.row \in gone
  <2>1. UNCHANGED <<clock, modified, links, gone, untitled, recast, late>>
    BY <1>1 DEF CommitForm
  <2>2. \A u, v \in tx : u.row = v.row => u = v
    BY DEF SearchInv, FormsAreSound
  <2> QED BY <1>0, <2>1, <2>2, OpenFormsKeepInv
<1>2. CASE t.row \notin gone
  <2> DEFINE row == t.row
  <2>1. /\ row \in AllRows /\ modified'[row] = t.at /\ modified[row] < t.at
        /\ t.at \in Nat /\ t.at <= clock
        /\ \A r \in AllRows \ {row} : modified'[r] = modified[r]
        /\ \A f \in Films \ {row} : links'[f] = links[f]
        /\ \A x \in late : x[2] # row => x \in late'
        /\ \A c \in Cursors : row \in RowsOf(c) =>
             \/ <<c, row>> \in late'
             \/ /\ cursor[c].m < t.at
                /\ \A j \in Jobs : Working(j) /\ CursorOf(j) = c => job[j].end.m < t.at
    BY <1>2, CommitIsAhead
  <2> HIDE DEF row
  <2>2. SearchTypeOK'
    BY <1>0, FormsAreTyped DEF SearchTypeOK
  <2>3. FormsAreSound' /\ ClockIsAhead' /\ UnseenIsAhead'
    <3>1. \A r \in AllRows : modified'[r] <= clock
      BY <2>1 DEF SearchInv, ClockIsAhead
    <3>2. \A u \in tx' : u.row # row /\ u.row \in AllRows
      BY <1>0, SearchNumbers DEF SearchInv, FormsAreSound, row
    <3> QED BY <1>0, <2>1, <3>1, <3>2, FewerFormsAreSound
  <2>4. ASSUME NEW j \in Jobs PROVE BatchIsTyped(j)' /\ EndIsAhead(j)' /\ BatchIsSound(j)'
    <3> DEFINE c == CursorOf(j)
    <3>1. c \in Cursors /\ RowsOf(c) \subseteq AllRows
      BY <1>0, CursorsOfJobs, RowsOfCursor
    <3>2. ASSUME NEW r \in RowsOf(c)
          PROVE  \/ <<c, r>> \in late'
                 \/ modified'[r] = modified[r] /\ (<<c, r>> \in late => <<c, r>> \in late')
                 \/ Working(j) => job[j].end.m < modified'[r]
      <4>1. CASE r = row
        BY <2>1, <3>1, <4>1
      <4>2. CASE r # row
        BY <2>1, <3>1, <4>2
      <4> QED BY <4>1, <4>2
    <3> QED BY <3>2, FormsKeepBatches
  <2>5. ASSUME NEW c \in Cursors, NEW r, HasPassed(c, r)'
        PROVE  \/ Excused(c, r)'
               \/ r # row /\ HasPassed(c, r) /\ modified'[r] = modified[r]
    <3>1. r \in RowsOf(c) /\ r \in AllRows /\ modified'[r] > 0
      BY <2>5, RowsOfCursor DEF HasPassed
    <3>2. CASE r = row
      <4>1. ~(cursor[c].m < t.at)
        BY <1>0, <2>1, <2>5, <3>2 DEF HasPassed, After
      <4> QED BY <2>1, <3>1, <3>2, <4>1 DEF Excused
    <3>3. CASE r # row
      BY <1>0, <2>1, <2>5, <3>1, <3>3 DEF HasPassed, After
    <3> QED BY <3>2, <3>3
  <2>6. ASSUME NEW c \in Cursors, NEW r \in AllRows \ {row}, Excused(c, r) PROVE Excused(c, r)'
    BY <1>0, <2>1, <2>6 DEF Excused
  <2>7. PassedIsIndexed'
    <3>1. ASSUME NEW f \in Films \ untitled', HasPassed("film_work", f)'
          PROVE  movieIndex[f].at = modified'[f] \/ Excused("film_work", f)'
      <4>1. f # row /\ HasPassed("film_work", f) => movieIndex[f].at = modified[f] \/ Excused("film_work", f)
        BY <1>2, <3>1 DEF SearchInv, PassedIsIndexed, CommitForm, row
      <4> QED BY <2>5, <2>6, <3>1, <4>1, RowsAreNumbers DEF Cursors
    <3>2. ASSUME NEW c \in {"persons_index", "genres_index"}, NEW p \in Parts, HasPassed(c, p)'
          PROVE  parts[p] = modified'[p] \/ Excused(c, p)'
      <4>1. HasPassed(c, p) => parts[p] = modified[p] \/ Excused(c, p)
        BY DEF SearchInv, PassedIsIndexed
      <4> QED BY <2>5, <2>6, <3>2, <4>1, RowsAreNumbers DEF Cursors
    <3> QED BY <1>0, <3>1, <3>2 DEF PassedIsIndexed
  <2>8. DocumentsAreOld'
    <3>1. ASSUME NEW f \in Films, f \notin gone PROVE movieIndex[f].at <= modified'[f]
      <4>1. movieIndex[f].at \in Nat /\ modified[f] \in Nat /\ movieIndex[f].at <= modified[f]
        <5>1. movieIndex[f].at \in Stamps /\ Stamps \subseteq Nat
          BY <1>0, SearchEtlAssumption DEF SearchTypeOK, Stamps
        <5> QED BY <1>0, <3>1, <5>1, SearchNumbers, RowsAreNumbers DEF SearchInv, DocumentsAreOld
      <4> QED BY <2>1, <4>1, RowsAreNumbers
    <3>2. \A r \in gone : r # row /\ r \in AllRows
      BY <1>0, <1>2 DEF SearchTypeOK, row
    <3>3. untitled' \subseteq untitled
      BY DEF CommitForm
    <3> QED BY <1>0, <2>1, <3>1, <3>2, <3>3 DEF SearchInv, DocumentsAreOld
  <2>9. NamesFollow'
    <3>1. ASSUME NEW f \in Films, NEW c \in {"person", "genre"}, NEW p \in links'[f],
                 HasPassed(c, p)', modified'[f] > 0, movieIndex[f].at = modified'[f]
          PROVE  movieIndex[f].names[p] = modified'[p] \/ Excused(c, p)'
      <4>1. f # row
        <5>1. movieIndex[f].at <= modified[f] \/ f # row
          BY <1>2 DEF SearchInv, DocumentsAreOld, row
        <5>2. modified[f] \in Nat
          BY <1>0, SearchNumbers, RowsAreNumbers
        <5> QED BY <2>1, <3>1, <5>1, <5>2
      <4>2. links'[f] = links[f] /\ modified'[f] = modified[f]
        BY <2>1, <4>1, RowsAreNumbers
      <4>3. HasPassed(c, p) => movieIndex[f].names[p] = modified[p] \/ Excused(c, p)
        BY <3>1, <4>2 DEF SearchInv, NamesFollow
      <4>4. p \in AllRows
        BY <3>1, RowsOfCursor DEF HasPassed, Cursors
      <4> QED BY <2>5, <2>6, <3>1, <4>3, <4>4 DEF Cursors
    <3> QED BY <1>0, <3>1 DEF NamesFollow
  <2> QED BY <1>0, <2>2, <2>3, <2>4, <2>7, <2>8, <2>9 DEF SearchInv
<1> QED BY <1>1, <1>2

LEMMA DeleteKeepsInv ==
  ASSUME SearchInv, quiet' \in BOOLEAN, UNCHANGED etl, NEW r \in AllRows, Delete(r)
  PROVE  SearchInv'
<1>0. /\ UNCHANGED <<cursor, job, movieIndex, parts, credits, torn>> /\ SearchTypeOK /\ Jobs' = Jobs
      /\ UNCHANGED <<clock, tx, late>> /\ gone' = gone \cup {r} /\ Edit
  BY DEF etl, SearchInv, Delete, Jobs, Edit
<1>1. modified'[r] = 0 /\ \A q \in AllRows \ {r} : modified'[q] = modified[q]
  BY <1>0 DEF Delete, SearchTypeOK
<1>2. \A f \in Films : links'[f] \subseteq links[f] /\ r \notin links'[f]
  BY DEF Delete
<1>3. SearchTypeOK'
  BY <1>0, FormsAreTyped DEF SearchTypeOK
<1>4. FormsAreSound' /\ ClockIsAhead' /\ UnseenIsAhead'
  <2>1. \A q \in AllRows : modified'[q] <= clock
    BY <1>0, <1>1, SearchNumbers DEF SearchInv, ClockIsAhead
  <2>2. \A t \in tx' : t.row \in AllRows
    BY <1>0, SearchNumbers
  <2> QED BY <1>0, <1>1, <2>1, <2>2, FewerFormsAreSound
<1>5. ASSUME NEW j \in Jobs PROVE BatchIsTyped(j)' /\ EndIsAhead(j)' /\ BatchIsSound(j)'
  <2>1. RowsOf(CursorOf(j)) \subseteq AllRows
    BY <1>0, CursorsOfJobs, RowsOfCursor
  <2>2. \A q \in RowsOf(CursorOf(j)) : modified'[q] = 0 \/ modified'[q] = modified[q]
    BY <1>1, <2>1
  <2> QED BY <1>0, <2>2, FormsKeepBatches
<1>6. ASSUME NEW c \in Cursors, NEW q, HasPassed(c, q)'
      PROVE  q \in AllRows \ {r} /\ HasPassed(c, q) /\ modified'[q] = modified[q]
  <2>1. q \in AllRows /\ q # r
    BY <1>1, <1>6, RowsOfCursor DEF HasPassed
  <2> QED BY <1>0, <1>1, <1>6, <2>1 DEF HasPassed, After
<1>7. ASSUME NEW c \in Cursors, NEW q \in AllRows \ {r}, Excused(c, q) PROVE Excused(c, q)'
  BY <1>0, <1>1, <1>7 DEF Excused
<1>11. untitled' = untitled \ {r}
  BY DEF Delete
<1>8. PassedIsIndexed'
  <2>1. ASSUME NEW f \in Films \ untitled', HasPassed("film_work", f)'
        PROVE  movieIndex[f].at = modified'[f] \/ Excused("film_work", f)'
    BY <1>6, <1>11, <1>7, <2>1 DEF SearchInv, PassedIsIndexed, Cursors
  <2>2. ASSUME NEW c \in {"persons_index", "genres_index"}, NEW p \in Parts, HasPassed(c, p)'
        PROVE  parts[p] = modified'[p] \/ Excused(c, p)'
    BY <1>6, <1>7, <2>2 DEF SearchInv, PassedIsIndexed, Cursors
  <2> QED BY <1>0, <2>1, <2>2 DEF PassedIsIndexed
<1>9. NamesFollow'
  <2>1. ASSUME NEW f \in Films, NEW c \in {"person", "genre"}, NEW p \in links'[f],
               HasPassed(c, p)', modified'[f] > 0, movieIndex[f].at = modified'[f]
        PROVE  movieIndex[f].names[p] = modified'[p] \/ Excused(c, p)'
    <3>1. p \in links[f] /\ modified'[f] = modified[f]
      BY <1>1, <1>2, <2>1, RowsAreNumbers
    <3> QED BY <1>6, <1>7, <2>1, <3>1 DEF SearchInv, NamesFollow, Cursors
  <2> QED BY <1>0, <2>1 DEF NamesFollow
<1>10. DocumentsAreOld'
  BY <1>0, <1>1, <1>11, RowsAreNumbers DEF SearchInv, DocumentsAreOld, SearchTypeOK
<1> QED BY <1>0, <1>3, <1>4, <1>5, <1>8, <1>9, <1>10 DEF SearchInv

-----------------------------------------------------------------------------
(* The theorems. *)

LEMMA SearchStart == SearchInit => SearchInv
<1> SUFFICES ASSUME SearchInit PROVE SearchInv
  OBVIOUS
<1>1. SearchTypeOK
  BY SearchInitTyped
<1>2. /\ clock = 2 /\ tx = {} /\ gone = {} /\ \A r \in AllRows : modified[r] \in {0, 1}
      /\ \A c \in Cursors : cursor[c] = Origin
      /\ \A j \in Jobs : job[j] = NoJob
  BY DEF SearchInit, Jobs
<1>3. Origin.m = 0 /\ Origin.id = 0 /\ \A j \in Jobs : ~Working(j)
  BY <1>2, NoJobIsTyped DEF Origin, Working
<1>4. \A j \in Jobs : BatchIsTyped(j) /\ EndIsAhead(j) /\ BatchIsSound(j)
  BY <1>3 DEF BatchIsTyped, EndIsAhead, BatchIsSound
<1>5. FormsAreSound /\ ClockIsAhead /\ UnseenIsAhead
  BY <1>2, <1>3 DEF FormsAreSound, ClockIsAhead, UnseenIsAhead, Unseen
<1>6. DocumentsAreOld
  BY <1>1, <1>2, RowsAreNumbers DEF SearchInit, DocumentsAreOld, NoFilm, SearchTypeOK
<1>7. \A c \in Cursors, r \in AllRows : ~HasPassed(c, r)
  BY <1>2, <1>3 DEF HasPassed, After
<1>8. PassedIsIndexed
  BY <1>7, RowsAreNumbers DEF PassedIsIndexed, Cursors
<1>9. NamesFollow
  <2>1. \A f \in Films : links[f] \subseteq AllRows
    BY <1>1, RowsAreNumbers DEF SearchTypeOK
  <2> QED BY <1>7, <2>1 DEF NamesFollow, Cursors
<1> QED BY <1>1, <1>4, <1>5, <1>6, <1>8, <1>9 DEF SearchInv

LEMMA SearchStep == SearchInv /\ [SearchNext]_searchVars => SearchInv'
<1> SUFFICES ASSUME SearchInv, [SearchNext]_searchVars PROVE SearchInv'
  OBVIOUS
<1>0. quiet \in BOOLEAN
  BY DEF SearchInv, SearchTypeOK
<1>1. ASSUME NEW j \in Jobs, Step(j), UNCHANGED quiet PROVE SearchInv'
  <2>1. CASE Extract(j)
    BY <1>0, <1>1, <2>1, ExtractKeepsInv, NothingToExtract
  <2>2. CASE Load(j)
    BY <1>0, <1>1, <2>2, LoadKeepsInv
  <2> QED BY <1>1, <2>1, <2>2 DEF Step
<1>2. CASE Finish /\ UNCHANGED <<etl, quiet>>
  BY <1>0, <1>2, CommitFormKeepsInv, RollbackKeepsInv DEF Finish
<1>3. CASE Edit /\ UNCHANGED <<etl, quiet>>
  BY <1>0, <1>3, SaveKeepsInv, DeleteKeepsInv DEF Edit
<1>4. CASE Failure /\ UNCHANGED quiet
  BY <1>0, <1>4, LoadFailsKeepsInv, SaveBreaksKeepsInv, RestartEtlKeepsInv DEF Failure
<1>5. CASE UNCHANGED <<db, etl>> /\ quiet' \in BOOLEAN
  <2>1. /\ UNCHANGED <<db, cursor, movieIndex, parts, credits, torn>> /\ Jobs' = Jobs /\ job' = job
    BY <1>5 DEF etl, Jobs
  <2>2. \E fleet \in Fleets : job' \in [fleet -> JobStates]
    BY <2>1 DEF SearchInv, SearchTypeOK
  <2> QED BY <1>5, <2>1, <2>2, JobsRestKeepsInv
<1> QED BY <1>0, <1>1, <1>2, <1>3, <1>4, <1>5 DEF SearchNext, Quieten, searchVars

\* The parts hold together, for every set of rows, fleet of jobs and batch size.
THEOREM SearchInvariant == SearchSpec => []SearchInv
<1> QED BY SearchStart, SearchStep, PTL DEF SearchSpec

\* The state keeps its type: stamps stay below the bound, jobs of the scheduler stay
\* the same, and what they hold is rows, cursors and what rows said.
THEOREM SearchTyped == SearchSpec => []SearchTypeOK
<1>1. SearchInv => SearchTypeOK
  BY DEF SearchInv
<1> QED BY <1>1, SearchInvariant, PTL

\* Whatever the order in which transactions commit, batches are read, requests fail
\* and the process dies, no cursor of State._state passes a row that its index lacks,
\* but for what the property excuses.
THEOREM NoRowIsSkipped == SearchSpec => []PassedIsIndexed
<1>1. SearchInv => PassedIsIndexed
  BY DEF SearchInv
<1> QED BY <1>1, SearchInvariant, PTL

\* What a film's document says of a person or genre whose cursor has passed is what
\* its row says: a rename that enrich by links looks up reaches all films.
THEOREM RenamesReachFilms == SearchSpec => []NamesFollow
<1>1. SearchInv => NamesFollow
  BY DEF SearchInv
<1> QED BY <1>1, SearchInvariant, PTL
=============================================================================
