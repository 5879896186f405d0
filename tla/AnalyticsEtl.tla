------------------------------ MODULE AnalyticsEtl ------------------------------
(***************************************************************************)
(* analytics_etl: one process reads events from Kafka, collects them in a  *)
(* buffer by event_id, inserts the buffer into three ClickHouse tables and *)
(* commits the offsets behind it by hand.  ClickHouse may fail between two *)
(* tables, the process may be stopped or killed anywhere, and Kafka may    *)
(* take the partition away and give it back at the committed offset.       *)
(*                                                                         *)
(* There is one partition: pending offsets of several are kept and         *)
(* committed together.  Retries of a call (backoff) are inside its         *)
(* outcome; the timer of the flush may fire whenever it is looked at.      *)
(***************************************************************************)
EXTENDS Integers, Sequences, FiniteSets

CONSTANTS
  Records,   \* what may be in the topics: [kind, id, time]
  BatchSize, \* buffered events that force a flush
  MaxLog     \* bound: records ever published

\* "view" is a quality_change or watch_complete with both its ids, which feeds all
\* three tables, and "other" feeds only events; an "odd" event passes the
\* validation and makes transform_for_events raise; an "unfit" one passes both and
\* has a number that its column does not hold (schema_version, any integer, goes
\* to a UInt8), so that ClickHouse refuses every batch it is in; "invalid" is
\* rejected or cannot be decoded; "shapeless" is JSON but no object.
Valid == {"view", "other", "odd", "unfit"}
Kinds == Valid \cup {"invalid", "shapeless"}

ASSUME EtlAssumption ==
  /\ \A r \in Records : r.kind \in Kinds /\ r.time \in Nat
  /\ BatchSize \in Nat \ {0}
  /\ MaxLog \in Nat

VARIABLES
  log,       \* the partition
  committed, \* offset of the consumer group: the records before it are let go
  position,  \* how far this process has read
  pc,        \* where run_etl is
  buffer,    \* EventProcessor._buffer
  pending,   \* EventProcessor._pending_offsets, 0 when there is none
  failed,    \* an insert of this flush has failed
  stopping,  \* run_etl is in its `finally`
  events, movies, watch, \* the rows of the tables, by the event they come from
  dlq,       \* dead_letter_queue: events and causes
  skipped,   \* records the initial poll took, since they were last read
  unwritten, \* records the DLQ did not take, since they were last read
  calm       \* nothing dies or fails any more

kafka == <<log, committed>>
flushing == <<failed, stopping>>
tables == <<events, movies, watch>>
passed == <<skipped, unwritten>>
vars == <<log, committed, position, pc, buffer, pending, failed, stopping,
          events, movies, watch, dlq, skipped, unwritten, calm>>

Steps == {"down", "start", "poll", "reject", "check", "transform", "events",
          "movies", "watch", "commit"}
Causes == {"invalid", "transform", "insert"}

TypeOK ==
  /\ log \in Seq(Records) /\ Len(log) <= MaxLog
  /\ committed \in 0..Len(log)
  /\ position \in 0..Len(log)
  /\ pc \in Steps
  /\ buffer \subseteq Records
  /\ pending \in 0..Len(log)
  /\ failed \in BOOLEAN /\ stopping \in BOOLEAN /\ calm \in BOOLEAN
  /\ events \subseteq Records /\ movies \subseteq Records /\ watch \subseteq Records
  /\ dlq \subseteq Records \X Causes
  /\ skipped \subseteq 1..Len(log) /\ unwritten \subseteq 1..Len(log)

Init ==
  /\ log = <<>> /\ committed = 0 /\ position = 0
  /\ pc = "down"
  /\ buffer = {} /\ pending = 0
  /\ failed = FALSE /\ stopping = FALSE
  /\ events = {} /\ movies = {} /\ watch = {} /\ dlq = {}
  /\ skipped = {} /\ unwritten = {}
  /\ calm = FALSE

-----------------------------------------------------------------------------
(* Reading. *)

\* Records will be read again from the committed offset on, and those beyond
\* the offset `covered` will have to be before an offset covers them.
ReadAgain(covered) ==
  /\ position' = committed
  /\ skipped' = skipped \cap 1..covered
  /\ unwritten' = unwritten \cap 1..covered

Restart ==
  /\ pc = "down" /\ pc' = "start"
  /\ ReadAgain(committed)
  /\ buffer' = {} /\ pending' = 0
  /\ failed' = FALSE /\ stopping' = FALSE
  /\ UNCHANGED <<kafka, tables, dlq, calm>>

\* "Initial poll to trigger partition assignment": what it returns is logged
\* and dropped.
InitialPoll ==
  /\ pc = "start" /\ pc' = "poll"
  /\ \/ UNCHANGED <<position, skipped>>
     \/ /\ position < Len(log)
        /\ position' = position + 1
        /\ skipped' = skipped \cup {position + 1}
  /\ UNCHANGED <<kafka, buffer, pending, flushing, tables, dlq, unwritten, calm>>

\* add_event: of two events with one id the later stays, and of two at the same
\* time the one that came last.
Add(r) ==
  LET same == {e \in buffer : e.id = r.id}
  IN  IF \E e \in same : e.time > r.time THEN buffer ELSE (buffer \ same) \cup {r}

\* _process_message, but for the write to the DLQ. A record that is no object
\* makes validate_event raise, and run_etl ends.
Poll ==
  /\ pc = "poll" /\ position < Len(log)
  /\ position' = position + 1
  /\ LET r == log[position + 1]
     IN  \/ /\ r.kind \in Valid
            /\ buffer' = Add(r)
            /\ pending' = position + 1
            /\ pc' = "check"
            /\ UNCHANGED stopping
         \/ /\ r.kind = "invalid"
            /\ pc' = "reject"
            /\ UNCHANGED <<buffer, pending, stopping>>
         \/ /\ r.kind = "shapeless"
            /\ stopping' = TRUE
            /\ pc' = "transform"
            /\ UNCHANGED <<buffer, pending>>
  /\ UNCHANGED <<kafka, failed, tables, dlq, passed, calm>>

\* _route_to_dlq swallows a failed write; the offset is tracked in any case.
Reject ==
  /\ pc = "reject" /\ pc' = "check"
  /\ pending' = position
  /\ \/ dlq' = dlq \cup {<<log[position], "invalid">>} /\ UNCHANGED unwritten
     \/ ~calm /\ unwritten' = unwritten \cup {position} /\ UNCHANGED dlq
  /\ UNCHANGED <<kafka, position, buffer, flushing, tables, skipped, calm>>

\* After a message: flush when the batch is full or the timer fires.
GoOn ==
  /\ pc = "check" /\ pc' = "poll"
  /\ Cardinality(buffer) < BatchSize
  /\ UNCHANGED <<kafka, position, buffer, pending, flushing, tables, dlq, passed, calm>>

FlushNow ==
  /\ pc = "check" /\ pc' = "transform"
  /\ UNCHANGED <<kafka, position, buffer, pending, flushing, tables, dlq, passed, calm>>


\* No message came in poll_timeout, and the timer fires.
FlushIdle ==
  /\ pc = "poll" /\ buffer # {} /\ pc' = "transform"
  /\ UNCHANGED <<kafka, position, buffer, pending, flushing, tables, dlq, passed, calm>>

-----------------------------------------------------------------------------
(* EventProcessor.flush. *)

Rows == {r \in buffer : r.kind # "odd"}
Views == {r \in buffer : r.kind = "view"}

Return == IF stopping THEN "down" ELSE "poll"

\* An empty buffer is (0, True): no commit. What cannot be transformed goes to
\* the DLQ, and a failure of that escapes to run_etl's `finally`, which tries
\* once more.
Transform ==
  /\ pc = "transform"
  /\ LET odd == {r \in buffer : r.kind = "odd"}
     IN  \/ /\ dlq' = dlq \cup (odd \X {"transform"})
            /\ failed' = FALSE
            /\ pc' = IF buffer = {} THEN Return ELSE "events"
            /\ UNCHANGED stopping
         \/ /\ ~calm /\ odd # {}
            /\ \E done \in SUBSET odd : dlq' = dlq \cup (done \X {"transform"})
            /\ pc' = IF stopping THEN "down" ELSE "transform"
            /\ stopping' = TRUE
            /\ UNCHANGED failed
  /\ UNCHANGED <<kafka, position, buffer, pending, tables, passed, calm>>

Unfit == {r \in Rows : r.kind = "unfit"}

\* Retries used up, or of no use: the rows may be there all the same, but for
\* those of a batch that is refused, and some of them reach the DLQ, while their
\* events stay in the buffer.
InsertEvents ==
  /\ pc = "events" /\ pc' = "movies"
  /\ \/ Unfit = {} /\ events' = events \cup Rows /\ UNCHANGED <<failed, dlq>>
     \/ /\ Rows # {} /\ (calm => Unfit # {})
        /\ events' = events \/ (Unfit = {} /\ events' = events \cup Rows)
        /\ failed' = TRUE
        /\ \E done \in SUBSET Rows :
             (calm => done = Rows) /\ dlq' = dlq \cup (done \X {"insert"})
  /\ UNCHANGED <<kafka, position, buffer, pending, stopping, movies, watch, passed, calm>>

InsertMovies ==
  /\ pc = "movies" /\ pc' = "watch"
  /\ \/ movies' = movies \cup Views /\ UNCHANGED failed
     \/ ~calm /\ Views # {} /\ movies' \in {movies, movies \cup Views} /\ failed' = TRUE
  /\ UNCHANGED <<kafka, position, buffer, pending, stopping, events, watch, dlq, passed, calm>>

AfterFlushByEvents(ok) == \* mutant: only the events table counts
  IF Rows \subseteq events THEN "commit" ELSE Return

\* The caller commits after a flush that inserted something and had no failure.
AfterFlush(ok) == IF ok /\ Rows # {} THEN "commit" ELSE Return

\* The last table, and what the flush returns: the buffer is cleared only when
\* all inserts went well.
InsertWatch ==
  /\ pc = "watch"
  /\ \E ok \in BOOLEAN :
       /\ IF ok THEN watch' = watch \cup Views
                ELSE ~calm /\ Views # {} /\ watch' \in {watch, watch \cup Views}
       /\ buffer' = IF ok /\ ~failed THEN {} ELSE buffer
       /\ pc' = AfterFlush(ok /\ ~failed)
  /\ UNCHANGED <<kafka, position, pending, flushing, events, movies, dlq, passed, calm>>

\* _commit_offsets swallows every error, and the commit itself is asynchronous;
\* the caller clears the pending offsets whatever became of it.
Commit ==
  /\ pc = "commit" /\ pc' = Return
  /\ committed' \in {pending} \cup (IF calm THEN {} ELSE {committed})
  /\ pending' = 0
  /\ UNCHANGED <<log, position, buffer, flushing, tables, dlq, passed, calm>>

-----------------------------------------------------------------------------
(* What the process does not decide. *)

\* process_event of event_api: a valid event whose user consents is appended,
\* and appended again when the client repeats a call whose answer was lost; one
\* that is rejected or skipped leaves no record.
Publish(r) ==
  /\ Len(log) < MaxLog
  /\ log' = Append(log, r)
  /\ UNCHANGED <<committed, position, pc, buffer, pending, flushing, tables, dlq, passed, calm>>

\* SIGTERM or SIGINT: the loop ends, and `finally` flushes once more.
Stop ==
  /\ ~calm /\ pc = "poll" /\ pc' = "transform"
  /\ stopping' = TRUE
  /\ UNCHANGED <<kafka, position, buffer, pending, failed, tables, dlq, passed, calm>>

Crash ==
  /\ ~calm /\ pc # "down" /\ pc' = "down"
  /\ UNCHANGED <<kafka, position, buffer, pending, flushing, tables, dlq, passed, calm>>

\* The process was too slow for max.poll.interval.ms, or lost its session: the
\* partition comes back at the committed offset, and the buffer stays.
Reassign ==
  /\ ~calm /\ pc = "poll"
  /\ ReadAgain(IF pending > committed THEN pending ELSE committed)
  /\ UNCHANGED <<kafka, pc, buffer, pending, flushing, tables, dlq, calm>>

\* From some point on nothing dies and no call fails.
CalmDown ==
  /\ ~calm /\ calm' = TRUE
  /\ UNCHANGED <<kafka, position, pc, buffer, pending, flushing, tables, dlq, passed>>

-----------------------------------------------------------------------------
Flush ==
  \/ Transform \/ InsertEvents \/ InsertMovies \/ InsertWatch \/ Commit

RunEtl ==
  \/ Restart \/ InitialPoll \/ Poll \/ Reject \/ GoOn \/ FlushNow
  \/ Flush

Next ==
  \/ RunEtl \/ FlushIdle \/ Stop \/ Crash \/ Reassign \/ CalmDown
  \/ \E r \in Records : Publish(r)

Spec == Init /\ [][Next]_vars

\* Docker restarts the process, its calls are bounded by timeouts and backoff,
\* the timer of the flush fires sooner or later, and a poll finds what is there.
FairSpec ==
  /\ Spec
  /\ WF_vars(RunEtl) /\ SF_vars(FlushIdle) /\ SF_vars(Poll) /\ WF_vars(CalmDown)

-----------------------------------------------------------------------------
(* Properties. *)

\* An event is saved when its row, or that of a later event with its id, is in
\* every table it belongs to; otherwise the DLQ has it with the cause.
Saved(r) ==
  IF r.kind \in Valid
    THEN \E e \in Records :
           /\ e.id = r.id /\ e.time >= r.time
           /\ \/ e \in events /\ (e.kind = "view" => e \in movies \cap watch)
              \/ <<e, "transform">> \in dlq
    ELSE <<r, "invalid">> \in dlq

\* However inserts, commits and the process fail: a record before the committed
\* offset is saved, but for what the initial poll dropped and the DLQ did not
\* take (_commit_offsets, EventProcessor.flush).
CommittedIsSaved ==
  \A i \in 1..committed : i \in skipped \cup unwritten \/ Saved(log[i])

\* "Offsets are committed only for events that were really written".
CommittedIsWritten == \A i \in 1..committed : Saved(log[i])

\* The DLQ has the event, or a later one with its id, for an insert that failed.
Refused(r) == \E e \in Records : e.id = r.id /\ e.time >= r.time /\ <<e, "insert">> \in dlq


\* No record is lost: each one that was published ends in the tables or in the
\* DLQ, or was dropped by the initial poll, or the DLQ did not take it
\* (_process_message: "data must not be lost").
NothingIsLost ==
  \A i \in 1..MaxLog :
    Len(log) >= i ~>
      (Len(log) >= i /\ (i \in skipped \cup unwritten \/ \E c \in Causes : <<log[i], c>> \in dlq
                          \/ Saved(log[i])))
=============================================================================
