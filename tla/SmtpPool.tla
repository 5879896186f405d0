------------------------------ MODULE SmtpPool ------------------------------
(***************************************************************************)
(* The pool of SMTP connections shared by the partition tasks of one       *)
(* email_sender process (notification_worker/src/clients/email_client.py). *)
(* The tasks run in one event loop: a step is the code between two awaits. *)
(*                                                                         *)
(* `members` stands for the set of id(client), so the identity of a client *)
(* that nobody refers to any more can come back as that of a new one.      *)
(***************************************************************************)
EXTENDS Integers, Sequences, FiniteSets

CONSTANTS
  Tasks,  \* the tasks that send emails
  Conns,  \* identities of clients
  None,   \* no client, no task
  Size    \* settings.smtp_pool_size

ASSUME PoolAssumption ==
  /\ IsFiniteSet(Tasks) /\ IsFiniteSet(Conns)
  /\ None \notin Tasks \cup Conns
  /\ Size \in Nat \ {0}

VARIABLES
  at,       \* where each task is in send_email
  holds,    \* the client each task refers to
  pool,     \* _pool
  members,  \* _members
  created,  \* _created
  lock,     \* the task inside _lock
  open      \* the clients whose transport is connected

poolVars == <<at, holds, pool, members, created, lock, open>>

Waiting == {"lockWait", "connecting", "poolWait"}  \* under asyncio.wait_for
Discards == {"discardStale", "discardBroken"}
Steps == {"idle", "extra", "check", "using", "replaceStale", "replaceBroken"}
           \cup Waiting \cup Discards

Pooled == {pool[i] : i \in 1..Len(pool)}
Held == {holds[t] : t \in Tasks} \ {None}

PoolTypeOK ==
  /\ at \in [Tasks -> Steps]
  /\ holds \in [Tasks -> Conns \cup {None}]
  /\ pool \in Seq(Conns)
  /\ members \subseteq Conns
  /\ created \in 0..Size
  /\ lock \in Tasks \cup {None}
  /\ open \subseteq Pooled \cup Held

PoolInit ==
  /\ at = [t \in Tasks |-> "idle"]
  /\ holds = [t \in Tasks |-> None]
  /\ pool = <<>>
  /\ members = {}
  /\ created = 0
  /\ lock = None
  /\ open = {}

GoOn(t, step) == at' = [at EXCEPT ![t] = step]
TakeHold(t, c) == holds' = [holds EXCEPT ![t] = c]

\* A new client has an identity that no referenced client has.
Fresh == Conns \ (Pooled \cup Held)

-----------------------------------------------------------------------------
(* acquire *)

PeekPool(t) == \* mutant: the client handed out stays in the queue
  /\ pool # <<>>
  /\ TakeHold(t, Head(pool)) /\ GoOn(t, "check")
  /\ UNCHANGED <<pool, members, created, lock, open>>

\* get_nowait, or pool.get that has a client to return.
TakeFromPool(t) ==
  /\ pool # <<>>
  /\ TakeHold(t, Head(pool)) /\ pool' = Tail(pool)
  /\ GoOn(t, "check")
  /\ UNCHANGED <<members, created, lock, open>>

Acquire(t) ==
  /\ at[t] = "idle"
  /\ \/ TakeFromPool(t)
     \/ /\ pool = <<>>
        /\ GoOn(t, "lockWait")
        /\ UNCHANGED <<holds, pool, members, created, lock, open>>

\* Inside the lock: reserve a slot and connect while holding the lock, or
\* leave it and wait for a client to come back.
EnterLock(t) ==
  /\ at[t] = "lockWait" /\ lock = None
  /\ \/ /\ created < Size
        /\ created' = created + 1 /\ lock' = t
        /\ GoOn(t, "connecting")
        /\ UNCHANGED <<holds, pool, members, open>>
     \/ created >= Size /\ TakeFromPool(t)
     \/ /\ created >= Size /\ pool = <<>>
        /\ GoOn(t, "poolWait")
        /\ UNCHANGED <<holds, pool, members, created, lock, open>>

PoolGet(t) == at[t] = "poolWait" /\ TakeFromPool(t)

\* _connect_member under the lock. A failure is the caller's transient error;
\* the slot it reserved stays reserved.
ConnectMember(t) ==
  /\ at[t] = "connecting"
  /\ lock' = None
  /\ \/ \E c \in Fresh :
          /\ TakeHold(t, c)
          /\ members' = members \cup {c} /\ open' = open \cup {c}
          /\ GoOn(t, "check")
     \/ GoOn(t, "idle") /\ UNCHANGED <<holds, members, open>>
  /\ UNCHANGED <<pool, created>>

TimeoutKeepsLock(t) == \* mutant: a cancelled connect leaves the lock taken
  /\ at[t] \in Waiting
  /\ GoOn(t, "extra")
  /\ UNCHANGED <<holds, pool, members, created, lock, open>>

\* wait_for cancels the wait or the connect and the lock is left; a connection
\* beyond the pool follows.
Timeout(t) ==
  /\ at[t] \in Waiting
  /\ lock' = IF lock = t THEN None ELSE lock
  /\ GoOn(t, "extra")
  /\ UNCHANGED <<holds, pool, members, created, open>>

ConnectExtra(t) ==
  /\ at[t] = "extra"
  /\ \/ \E c \in Fresh :
          TakeHold(t, c) /\ open' = open \cup {c} /\ GoOn(t, "using")
     \/ GoOn(t, "idle") /\ UNCHANGED <<holds, open>>
  /\ UNCHANGED <<pool, members, created, lock>>

\* _discard up to its lock: the id is forgotten first.
Discard(t, next) ==
  /\ members' = members \ {holds[t]}
  /\ GoOn(t, next)
  /\ UNCHANGED <<holds, pool, created, lock, open>>

\* is_connected and a live NOOP; a NOOP can fail on a connection that looks
\* open.
Check(t) ==
  /\ at[t] = "check"
  /\ \/ /\ holds[t] \in open
        /\ GoOn(t, "using")
        /\ UNCHANGED <<holds, pool, members, created, lock, open>>
     \/ Discard(t, "discardStale")

\* The rest of _discard: give the slot back under the lock, then quit.
DiscardLocked(t) ==
  /\ at[t] \in Discards /\ lock = None
  /\ created' = IF created = 0 THEN 0 ELSE created - 1
  /\ open' = open \ {holds[t]} /\ TakeHold(t, None)
  /\ GoOn(t, IF at[t] = "discardStale" THEN "replaceStale" ELSE "replaceBroken")
  /\ UNCHANGED <<pool, members, lock>>

\* _connect_member again, outside the lock and without reserving a slot.
ReplaceStale(t) ==
  /\ at[t] = "replaceStale"
  /\ \/ \E c \in Fresh :
          /\ TakeHold(t, c) /\ GoOn(t, "using")
          /\ members' = members \cup {c} /\ open' = open \cup {c}
     \/ GoOn(t, "idle") /\ UNCHANGED <<holds, members, open>>
  /\ UNCHANGED <<pool, created, lock>>

-----------------------------------------------------------------------------
(* release *)

Release(t) ==
  /\ at[t] = "using"
  /\ IF holds[t] \notin open /\ holds[t] \in members
       THEN Discard(t, "discardBroken")
       ELSE /\ TakeHold(t, None) /\ GoOn(t, "idle")
            /\ IF holds[t] \in members
                 THEN pool' = Append(pool, holds[t]) /\ open' = open
                 ELSE pool' = pool /\ open' = open \ {holds[t]}
            /\ UNCHANGED <<members, created, lock>>

ReplaceBroken(t) ==
  /\ at[t] = "replaceBroken"
  /\ \/ \E c \in Fresh :
          /\ pool' = Append(pool, c)
          /\ members' = members \cup {c} /\ open' = open \cup {c}
     \/ UNCHANGED <<pool, members, open>>
  /\ GoOn(t, "idle")
  /\ UNCHANGED <<holds, created, lock>>

\* The server, or the way to it, ends a connection at any time.
Drop(c) ==
  /\ c \in open
  /\ open' = open \ {c}
  /\ UNCHANGED <<at, holds, pool, members, created, lock>>

Step(t) ==
  \/ Acquire(t) \/ EnterLock(t) \/ PoolGet(t) \/ ConnectMember(t) \/ Timeout(t)
  \/ ConnectExtra(t) \/ Check(t) \/ DiscardLocked(t) \/ ReplaceStale(t)
  \/ Release(t) \/ ReplaceBroken(t)

PoolNext == (\E t \in Tasks : Step(t)) \/ \E c \in Conns : Drop(c)

PoolSpec == PoolInit /\ [][PoolNext]_poolVars

\* Connects and NOOPs have timeouts, wait_for cancels what is too slow, and
\* asyncio.Lock serves its waiters in order. A task need not send again.
Resolves(t) ==
  \/ Timeout(t) \/ ConnectMember(t) \/ ConnectExtra(t) \/ Check(t)
  \/ ReplaceStale(t) \/ Release(t) \/ ReplaceBroken(t)

FairPoolSpec ==
  PoolSpec /\ \A t \in Tasks : WF_poolVars(Resolves(t)) /\ SF_poolVars(DiscardLocked(t))

-----------------------------------------------------------------------------
\* A connection is in one place: two tasks never write to the same SMTP
\* session, and a pooled one is in nobody's hands (SmtpPool.acquire, release).
Exclusive ==
  /\ \A t, u \in Tasks : holds[t] = holds[u] /\ holds[t] # None => t = u
  /\ Pooled \cap Held = {}
  /\ Cardinality(Pooled) = Len(pool)

\* _members names the clients in use and no other, so a later client that is
\* given a dead one's id is not taken for a member; and a connection beyond
\* the pool never enters it (_members, release).
MembersInUse == members \subseteq Pooled \cup Held /\ Pooled \subseteq members

\* The pool cannot grow without limit, although _created falls below the
\* number of members with every stale connection that is replaced: whatever
\* fails or times out, the process keeps no more connections than it has tasks.
NoMoreThanTasks == Cardinality(Pooled \cup Held) <= Cardinality(Tasks)

\* A task that asks for a connection gets one, or an error to retry on: no
\* wait for the lock or for the pool is for ever (acquire's wait_for).
AcquireEnds ==
  \A t \in Tasks : at[t] = "lockWait" ~> at[t] \in {"idle", "using"}

\* _created is "the number of permanent connections": when nobody is between
\* two steps of acquire or release, it counts the members.
CreatedCountsMembers ==
  (\A t \in Tasks : at[t] \in {"idle", "using"}) => created = Cardinality(members)
=============================================================================
