------------------------------- MODULE UgcRatings -------------------------------
(***************************************************************************)
(* ugc_service: the ratings of one film (collection `likes`) and their     *)
(* statistics, cached in Redis: a writer changes the collection and then   *)
(* deletes the entry; a reader that misses it aggregates and stores it     *)
(* with a TTL.                                                             *)
(***************************************************************************)
EXTENDS Integers, FiniteSets, FiniteSetsExt

CONSTANTS
  Raters,    \* users who rate the film
  Scores,    \* ratings they give, of 0..10
  Writers,   \* requests that add or remove a rating
  Readers,   \* requests for the statistics
  NoRating,  \* the user has no document in `likes`
  NoStats,   \* no entry, or nothing aggregated
  NoWork     \* a writer without a request

Requests == [at : {"update", "delete", "invalidate"}, user : Raters, score : Scores]

ASSUME RatingsAssumption == Scores \subseteq 0..10 /\ NoWork \notin Requests

VARIABLES
  ratings,  \* the collection `likes`
  stats,    \* the entry film_stats:{film_id}
  writer,   \* the requests that write
  reader,   \* where each reader is
  summary,  \* what a reader has aggregated
  rested    \* nobody rates and nothing fails any more

ratingVars == <<ratings, stats, writer, reader, summary, rested>>

\* The pipeline of get_film_like_stats.  The average is the sum over the total.
Aggregated(likes) ==
  LET rated == {u \in Raters : likes[u] # NoRating}
  IN [total    |-> Cardinality(rated),
      sum      |-> MapThenSumSet(LAMBDA u : likes[u], rated),
      likes    |-> Cardinality({u \in rated : likes[u] > 5}),
      dislikes |-> Cardinality({u \in rated : likes[u] < 3})]
Statistics == Aggregated(ratings)

\* `late`: an invalidation that should have removed the value missed it.
RatingsTypeOK ==
  /\ ratings \in [Raters -> Scores \cup {NoRating}]
  /\ stats = NoStats \/ stats.late \in BOOLEAN
  /\ writer \in [Writers -> {NoWork} \cup Requests]
  /\ reader \in [Readers -> {"idle", "aggregate", "store"}]
  /\ \A q \in Readers : summary[q] = NoStats <=> reader[q] # "store"
  /\ rested \in BOOLEAN

RatingsInit ==
  /\ ratings = [u \in Raters |-> NoRating]
  /\ stats = NoStats
  /\ writer = [w \in Writers |-> NoWork]
  /\ reader = [q \in Readers |-> "idle"]
  /\ summary = [q \in Readers |-> NoStats]
  /\ rested = FALSE

-----------------------------------------------------------------------------
(* Writers. *)

Set(w, at, u, s) == writer' = [writer EXCEPT ![w] = [at |-> at, user |-> u, score |-> s]]

\* add_or_update_like: an insert, which a rating of the same _id refuses; then
\* that one is updated, if it is still there.
AddLike(w, u, s) ==
  /\ ~rested /\ writer[w] = NoWork
  /\ \/ /\ ratings[u] = NoRating
        /\ ratings' = [ratings EXCEPT ![u] = s]
        /\ Set(w, "invalidate", u, s)
     \/ /\ ratings[u] # NoRating
        /\ Set(w, "update", u, s)
        /\ UNCHANGED ratings
  /\ UNCHANGED <<stats, reader, summary, rested>>

UpdateLike(w) ==
  /\ writer[w] # NoWork /\ writer[w].at = "update"
  /\ LET u == writer[w].user IN
     /\ ratings' = [ratings EXCEPT ![u] = IF @ = NoRating THEN @ ELSE writer[w].score]
     /\ Set(w, "invalidate", u, writer[w].score)
  /\ UNCHANGED <<stats, reader, summary, rested>>

\* remove_like; without a rating it answers 404.
RemoveLike(w, u) ==
  /\ ~rested /\ writer[w] = NoWork /\ ratings[u] # NoRating
  /\ Set(w, "delete", u, ratings[u])
  /\ UNCHANGED <<ratings, stats, reader, summary, rested>>

DeleteLikeOnly(w) == \* mutant: no invalidation
  /\ writer[w] # NoWork /\ writer[w].at = "delete"
  /\ ratings' = [ratings EXCEPT ![writer[w].user] = NoRating]
  /\ writer' = [writer EXCEPT ![w] = NoWork]
  /\ UNCHANGED <<stats, reader, summary, rested>>
DeleteLike(w) ==
  /\ writer[w] # NoWork /\ writer[w].at = "delete"
  /\ ratings' = [ratings EXCEPT ![writer[w].user] = NoRating]
  /\ Set(w, "invalidate", writer[w].user, writer[w].score)
  /\ UNCHANGED <<stats, reader, summary, rested>>

\* What a DEL comes too early for, or does not reach, lacks its write for good.
Outdate ==
  summary' = [q \in Readers |-> IF summary[q] = NoStats THEN NoStats
                                ELSE [summary[q] EXCEPT !.late = TRUE]]

\* invalidate_film_stats_cache: a failure of Redis is logged and passed over.
InvalidateStats(w) ==
  /\ writer[w] # NoWork /\ writer[w].at = "invalidate"
  /\ \/ stats' = NoStats
     \/ /\ ~rested
        /\ stats' = IF stats = NoStats THEN stats ELSE [stats EXCEPT !.late = TRUE]
  /\ Outdate
  /\ writer' = [writer EXCEPT ![w] = NoWork]
  /\ UNCHANGED <<ratings, reader, rested>>

-----------------------------------------------------------------------------
(* Readers: get_film_like_stats.  One that finds the entry answers at once. *)

ReadStats(q) ==
  /\ reader[q] = "idle"
  /\ stats = NoStats \/ ~rested \* the second when Redis fails
  /\ reader' = [reader EXCEPT ![q] = "aggregate"]
  /\ UNCHANGED <<ratings, stats, writer, summary, rested>>

Aggregate(q) ==
  /\ reader[q] = "aggregate"
  /\ summary' = [summary EXCEPT ![q] = [value |-> Statistics, late |-> FALSE]]
  /\ reader' = [reader EXCEPT ![q] = "store"]
  /\ UNCHANGED <<ratings, stats, writer, rested>>

\* setex, best effort.
StoreStats(q) ==
  /\ reader[q] = "store"
  /\ stats' = summary[q] \/ (~rested /\ stats' = stats)
  /\ reader' = [reader EXCEPT ![q] = "idle"]
  /\ summary' = [summary EXCEPT ![q] = NoStats]
  /\ UNCHANGED <<ratings, writer, rested>>

StatsStay == FALSE /\ UNCHANGED ratingVars \* mutant: SET without an expiry

\* film_stats_cache_ttl has passed.
ExpireStats ==
  /\ stats # NoStats
  /\ stats' = NoStats
  /\ UNCHANGED <<ratings, writer, reader, summary, rested>>

\* What properties about the end assume: nobody rates and nothing fails from now.
Rest ==
  /\ ~rested /\ rested' = TRUE
  /\ UNCHANGED <<ratings, stats, writer, reader, summary>>

RatingsNext ==
  \/ \E w \in Writers :
       \/ \E u \in Raters : (\E s \in Scores : AddLike(w, u, s)) \/ RemoveLike(w, u)
       \/ UpdateLike(w) \/ DeleteLike(w) \/ InvalidateStats(w)
  \/ \E q \in Readers : ReadStats(q) \/ Aggregate(q) \/ StoreStats(q)
  \/ ExpireStats
  \/ Rest

\* A request that is handled goes on, and Redis expires what is due.
RatingsFairness ==
  /\ \A w \in Writers : WF_ratingVars(UpdateLike(w) \/ DeleteLike(w) \/ InvalidateStats(w))
  /\ \A q \in Readers : WF_ratingVars(Aggregate(q) \/ StoreStats(q))
  /\ WF_ratingVars(ExpireStats)

-----------------------------------------------------------------------------
\* The cached statistics of a film are those of its ratings, or there is a
\* reason: the writer has yet to invalidate, Redis failed an invalidation, or a
\* reader stored what it had aggregated before a write and the DEL after it.
StaleStatsHaveACause ==
  stats # NoStats /\ stats.value # Statistics =>
    stats.late \/ \E w \in Writers : writer[w] # NoWork /\ writer[w].at = "invalidate"

\* No stale entry is for good: when the ratings rest and Redis answers, what is
\* cached becomes and stays the statistics of the ratings, thanks to the TTL.
StatsHeal == rested ~> [](stats # NoStats => stats.value = Statistics)
=============================================================================
