---------------------------- MODULE ConsumerLoop ----------------------------
(***************************************************************************)
(* The Kafka consumer loop shared by the two stages of notification_worker *)
(* (notification_worker/src/consumer.py): one asyncio task per partition   *)
(* that fetches a batch, hands each record to the handler of the stage,    *)
(* commits its offset by hand, retries a failed handler, pauses the        *)
(* partition when the retries are used up, gives the record up to the      *)
(* dead-letter queue, and dies with the process rather than commit a       *)
(* record whose outcome is saved nowhere.                                  *)
(*                                                                         *)
(* Partitions share no record, so the module is about one partition and    *)
(* the processes that consume it: its owner in the consumer group and the  *)
(* processes that owned it before a rebalance and still hold a record or   *)
(* the rest of a batch.  A process that dies is restarted by docker; the   *)
(* cancellation of a task because its sibling failed is Crash here.        *)
(*                                                                         *)
(* The module is not a specification by itself: a stage extends it, adds   *)
(* its handler (the steps between "handle" and "commit") and its rows.     *)
(***************************************************************************)
EXTENDS Naturals, Sequences

CONSTANTS
  Workers,      \* the processes of the consumer group
  Records,      \* what a Kafka record can carry
  Attempts,     \* attempt ids (uuid4)
  NoAttempt,    \* no attempt id
  HandlerSteps, \* the steps of the stage's handler after its first one
  RetryMax,     \* settings.retry_max_attempts
  MaxPause      \* settings.max_pause_cycles

ASSUME LoopAssumption ==
  /\ Workers # {}
  /\ NoAttempt \notin Attempts
  /\ RetryMax \in Nat
  /\ MaxPause \in Nat

VARIABLES
  log,        \* the partition, in order
  committed,  \* the group's committed offset: records 1..committed are done
  owner,      \* the process the partition is assigned to
  pc,         \* where each process is in _process_with_retry
  pos,        \* the record in hand, or the last one finished when "idle"
  fetched,    \* the last record of the batch getmany returned
  attempt,    \* attempt_id of the record in hand
  tries,      \* `attempt`: how often the handler was called in this cycle
  pauses,     \* `pause_cycles`
  hold,       \* dlq_hold_deadline is set
  paused,     \* the process has paused the partition in its consumer
  dlq         \* the records with a row in notification_worker_dlq

inHandVars == <<pos, fetched, attempt>>
retryVars  == <<tries, pauses, hold, paused>>
taskVars   == <<pc, pos, fetched, attempt, tries, pauses, hold, paused>>
kafkaVars  == <<log, committed, owner>>
loopVars   == <<log, committed, owner, pc, pos, fetched, attempt, tries, pauses,
                hold, paused, dlq>>

LoopSteps == {"idle", "handle", "pausing", "giveUp", "holding", "commit", "commitSkip"}

LoopTypeOK ==
  /\ log \in Seq(Records)
  /\ committed \in 0..Len(log)
  /\ owner \in Workers
  /\ pc \in [Workers -> LoopSteps \cup HandlerSteps]
  /\ pos \in [Workers -> Nat]
  /\ fetched \in [Workers -> Nat]
  /\ attempt \in [Workers -> Attempts \cup {NoAttempt}]
  /\ tries \in [Workers -> 0..(RetryMax + 1)]
  /\ pauses \in [Workers -> 0..(MaxPause + 1)]
  /\ hold \in [Workers -> BOOLEAN]
  /\ paused \in [Workers -> BOOLEAN]
  /\ dlq \subseteq Records

LoopInit ==
  /\ log = <<>>
  /\ committed = 0
  /\ owner \in Workers
  /\ pc = [w \in Workers |-> "idle"]
  /\ pos = [w \in Workers |-> 0]
  /\ fetched = [w \in Workers |-> 0]
  /\ attempt = [w \in Workers |-> NoAttempt]
  /\ tries = [w \in Workers |-> 0]
  /\ pauses = [w \in Workers |-> 0]
  /\ hold = [w \in Workers |-> FALSE]
  /\ paused = [w \in Workers |-> FALSE]
  /\ dlq = {}

Busy(w) == pc[w] # "idle"
InHand(w) == log[pos[w]]

Goto(w, step) == pc' = [pc EXCEPT ![w] = step]

-----------------------------------------------------------------------------
(* What the steps are made of. *)

\* A database call can be done, fail before it takes effect, or take effect
\* and lose its answer (a dropped connection, command_timeout).
DbOutcomes == {"done", "lost", "failed"}

\* main: the loop ended, so the process ends; Docker starts it again, with
\* nothing in hand.
Exit(w) ==
  /\ Goto(w, "idle")
  /\ pos' = [pos EXCEPT ![w] = 0]
  /\ fetched' = [fetched EXCEPT ![w] = 0]
  /\ attempt' = [attempt EXCEPT ![w] = NoAttempt]
  /\ tries' = [tries EXCEPT ![w] = 0]
  /\ pauses' = [pauses EXCEPT ![w] = 0]
  /\ hold' = [hold EXCEPT ![w] = FALSE]
  /\ paused' = [paused EXCEPT ![w] = FALSE]

Exhausted(w) == tries[w] > RetryMax
Surrenders(w) == Exhausted(w) /\ pauses[w] >= MaxPause

FailForEver(w) == \* mutant: no limit on the pause cycles
  /\ Goto(w, IF Exhausted(w) THEN "pausing" ELSE "handle")
  /\ tries' = [tries EXCEPT ![w] = IF Exhausted(w) THEN @ ELSE @ + 1]
  /\ paused' = [paused EXCEPT ![w] = @ \/ Exhausted(w)]
  /\ UNCHANGED <<inHandVars, pauses, hold>>

\* `except Exception`: call the handler again, or pause the partition, or
\* give the record up once the pauses are used up too. consumer.pause raises
\* when the process knows that the partition is no longer its own, and that
\* ends the process.
NextTry(w) ==
  /\ Goto(w, IF Surrenders(w) THEN "giveUp"
             ELSE IF Exhausted(w) THEN "pausing" ELSE "handle")
  /\ tries' = [tries EXCEPT ![w] = IF Exhausted(w) THEN @ ELSE @ + 1]
  /\ pauses' = [pauses EXCEPT ![w] = IF Exhausted(w) /\ @ <= MaxPause THEN @ + 1 ELSE @]
  /\ paused' = [paused EXCEPT ![w] = IF Exhausted(w) /\ ~Surrenders(w) THEN TRUE ELSE @]
  /\ UNCHANGED <<inHandVars, hold>>

Fail(w) ==
  \/ NextTry(w)
  \/ Exhausted(w) /\ ~Surrenders(w) /\ owner # w /\ Exit(w)

\* _process_with_retry returns: the `finally` resumes a paused partition.
Finish(w) ==
  /\ Goto(w, "idle")
  /\ attempt' = [attempt EXCEPT ![w] = NoAttempt]
  /\ tries' = [tries EXCEPT ![w] = 0]
  /\ pauses' = [pauses EXCEPT ![w] = 0]
  /\ hold' = [hold EXCEPT ![w] = FALSE]
  /\ paused' = [paused EXCEPT ![w] = FALSE]
  /\ UNCHANGED <<pos, fetched>>

\* A step inside the handler that changes nothing of the loop but the step.
Advance(w, step) ==
  /\ Goto(w, step)
  /\ UNCHANGED <<inHandVars, retryVars>>

\* The DLQ is unavailable: keep the record and pause the partition.
Keep(w) ==
  /\ Goto(w, "holding")
  /\ hold' = [hold EXCEPT ![w] = TRUE]
  /\ paused' = [paused EXCEPT ![w] = TRUE]
  /\ UNCHANGED <<inHandVars, tries, pauses>>

Hold(w) == Keep(w) \/ (owner # w /\ ~paused[w] /\ Exit(w))

-----------------------------------------------------------------------------
(* The steps of the loop itself. *)

\* getmany: from the committed offset, any prefix of what the topic holds. A
\* paused partition yields nothing.
GetMany(w) ==
  /\ pc[w] = "idle" /\ pos[w] = fetched[w]
  /\ owner = w /\ ~paused[w]
  /\ \E last \in (committed + 1)..Len(log) :
       /\ pos' = [pos EXCEPT ![w] = committed]
       /\ fetched' = [fetched EXCEPT ![w] = last]
  /\ UNCHANGED <<kafkaVars, pc, attempt, retryVars, dlq>>

\* The next record of the batch enters _process_with_retry under attempt id a.
Begin(w, a) ==
  /\ pc[w] = "idle" /\ pos[w] < fetched[w]
  /\ Goto(w, "handle")
  /\ pos' = [pos EXCEPT ![w] = @ + 1]
  /\ attempt' = [attempt EXCEPT ![w] = a]
  /\ tries' = [tries EXCEPT ![w] = 1]
  /\ UNCHANGED <<kafkaVars, fetched, pauses, hold, paused, dlq>>

\* The pause is over: resume the partition and start a new cycle.
Resume(w) ==
  /\ pc[w] = "pausing"
  /\ Goto(w, "handle")
  /\ tries' = [tries EXCEPT ![w] = 1]
  /\ paused' = [paused EXCEPT ![w] = FALSE]
  /\ UNCHANGED <<kafkaVars, inHandVars, pauses, hold, dlq>>

\* _give_up: only a row in the DLQ lets the offset go. Without it the record
\* is held, the partition is paused and the deadline starts to run.
GiveUpRegardless(w) == \* mutant: a failed write to the DLQ is swallowed
  /\ pc[w] = "giveUp"
  /\ \E o \in DbOutcomes :
       dlq' = IF o = "failed" THEN dlq ELSE dlq \cup {InHand(w)}
  /\ Advance(w, "commitSkip")
  /\ UNCHANGED kafkaVars

GiveUp(w) ==
  /\ pc[w] = "giveUp"
  /\ \E o \in DbOutcomes :
       /\ dlq' = IF o = "failed" THEN dlq ELSE dlq \cup {InHand(w)}
       /\ IF o = "done" THEN Advance(w, "commitSkip") ELSE Hold(w)
  /\ UNCHANGED kafkaVars

\* After the sleep of a held record: a new cycle, with the partition paused.
TryAgain(w) ==
  /\ pc[w] = "holding"
  /\ Goto(w, "handle")
  /\ tries' = [tries EXCEPT ![w] = 1]
  /\ UNCHANGED <<kafkaVars, inHandVars, pauses, hold, paused, dlq>>

\* The deadline is looked at where each iteration begins; DlqUnavailableError
\* ends the process and the offset stays uncommitted.
DeadlineExpires(w) ==
  /\ pc[w] = "handle" /\ hold[w]
  /\ Exit(w)
  /\ UNCHANGED <<kafkaVars, dlq>>

\* consumer.commit, accepted from the owner of the partition only.
CommitAccepted(w) ==
  /\ owner = w
  /\ committed' = pos[w]
  /\ UNCHANGED <<log, owner>>

\* The handler returned: a commit that raises is retried like the handler.
Commit(w) ==
  /\ pc[w] = "commit"
  /\ \/ CommitAccepted(w) /\ Finish(w)
     \/ (CommitAccepted(w) \/ UNCHANGED kafkaVars) /\ Fail(w)
  /\ UNCHANGED dlq

\* After PermanentProcessingError or _give_up a commit that raises escapes.
CommitSkip(w) ==
  /\ pc[w] = "commitSkip"
  /\ \/ CommitAccepted(w) /\ Finish(w)
     \/ (CommitAccepted(w) \/ UNCHANGED kafkaVars) /\ Exit(w)
  /\ UNCHANGED dlq

\* The process dies anywhere, with what it had fetched.
Crash(w) ==
  /\ Busy(w) \/ pos[w] < fetched[w]
  /\ Exit(w)
  /\ UNCHANGED <<kafkaVars, dlq>>

\* The group gives the partition to another process; the one that held it
\* goes on with its record and the rest of its batch.
Rebalance(w) ==
  /\ owner # w
  /\ owner' = w
  /\ UNCHANGED <<log, committed, taskVars, dlq>>

\* A producer appends a record to the partition.
Append1(r) ==
  /\ log' = Append(log, r)
  /\ UNCHANGED <<committed, owner, taskVars, dlq>>

=============================================================================
