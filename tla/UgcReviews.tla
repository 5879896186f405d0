------------------------------- MODULE UgcReviews -------------------------------
(***************************************************************************)
(* ugc_service: the reviews of one film and the votes on them.             *)
(*                                                                         *)
(* A review is one document, with the counters of its votes inside; votes  *)
(* are documents of their own.  Every handler reads the review and goes on *)
(* in several awaits.  The collections are sharded, by film_id and by      *)
(* review_id, and save() of Beanie is a findAndModify by _id only, which   *)
(* mongos refuses (ShardKeyNotFound): what a request has written before    *)
(* it stays.  Inserts, and deletions by _id or by review_id, go through.   *)
(***************************************************************************)
EXTENDS Integers, FiniteSets

CONSTANTS
  Authors,     \* users who write reviews
  Voters,      \* users who vote
  Calls,       \* requests the service handles at once
  MaxReviews,  \* bound: reviews ever inserted; their _ids are 1..MaxReviews
  MaxCalls,    \* bound: requests ever received
  NoReview,    \* there is no such document
  Idle         \* no request is handled

VARIABLES
  reviews,  \* the collection `reviews`
  votes,    \* the collection `review_votes`
  made,     \* reviews ever inserted
  asked,    \* requests ever received
  call,     \* the requests being handled
  cut,      \* reviews on which a request was lost between two of its writes
  late      \* votes that were inserted when their review was gone

reviewVars == <<reviews, votes, made, asked, call, cut, late>>

Ids     == 1..MaxReviews
Opinion == {"like", "dislike"}
Reviews == [author : Authors, likes : Nat, dislikes : Nat]

\* What a request does next, and for which review.  What it has read of the
\* review goes into a save() and nowhere else.
Edits     == [at : {"save"}, id : Ids]
Deletions == [at : {"delete", "purge"}, id : Ids]
Votings   == [at : {"insert", "existing", "revote", "count"}, id : Ids,
              voter : Voters, is : Opinion]
Works     == Edits \cup Deletions \cup Votings

ASSUME UgcReviewsAssumption ==
  /\ MaxReviews \in Nat /\ MaxCalls \in Nat
  /\ NoReview \notin Reviews /\ Idle \notin Works

ReviewsTypeOK ==
  /\ reviews \in [Ids -> Reviews \cup {NoReview}]
  /\ votes \in [Ids \X Voters -> Opinion \cup {"none"}]
  /\ made \in 0..MaxReviews /\ asked \in 0..MaxCalls
  /\ call \in [Calls -> Works \cup {Idle}]
  /\ cut \subseteq Ids /\ late \subseteq Ids \X Voters

ReviewsInit ==
  /\ reviews = [i \in Ids |-> NoReview]
  /\ votes = [k \in Ids \X Voters |-> "none"]
  /\ made = 0 /\ asked = 0
  /\ call = [c \in Calls |-> Idle]
  /\ cut = {} /\ late = {}

-----------------------------------------------------------------------------
(* Steps of the handlers. *)

Receive == asked < MaxCalls /\ asked' = asked + 1

\* Every handler but the first begins with Review.get; without a document it
\* answers 404.
Take(c, i, work) ==
  /\ Receive
  /\ call[c] = Idle /\ reviews[i] # NoReview
  /\ call' = [call EXCEPT ![c] = work]
  /\ UNCHANGED <<reviews, votes, made, cut, late>>

Goto(c, at) == call' = [call EXCEPT ![c].at = at]
End(c)      == call' = [call EXCEPT ![c] = Idle]

\* save(), of a review or of a vote: refused, and the request answers 500.
SaveRefused(c) == End(c) /\ UNCHANGED <<reviews, votes, made, asked, cut, late>>

\* create_review: one insert, which the unique index refuses to a second review.
CreateReview(u) ==
  /\ Receive
  /\ made < MaxReviews
  /\ \A i \in Ids : reviews[i] # NoReview => reviews[i].author # u
  /\ reviews' = [reviews EXCEPT ![made + 1] =
                   [author |-> u, likes |-> 0, dislikes |-> 0]]
  /\ made' = made + 1
  /\ UNCHANGED <<votes, call, cut, late>>

\* update_review, of the author only.
UpdateReview(c, i) == Take(c, i, [at |-> "save", id |-> i])
SaveUpdate(c) == call[c] # Idle /\ call[c].at = "save" /\ SaveRefused(c)

\* delete_review, of the author only: the document, then its votes.
DeleteReview(c, i) == Take(c, i, [at |-> "delete", id |-> i])

DeleteDocumentOnly(c) == \* mutant: the votes stay
  /\ call[c] # Idle /\ call[c].at = "delete"
  /\ reviews' = [reviews EXCEPT ![call[c].id] = NoReview]
  /\ End(c)
  /\ UNCHANGED <<votes, made, asked, cut, late>>

DeleteDocument(c) ==
  /\ call[c] # Idle /\ call[c].at = "delete"
  /\ reviews' = [reviews EXCEPT ![call[c].id] = NoReview]
  /\ Goto(c, "purge")
  /\ UNCHANGED <<votes, made, asked, cut, late>>

DeleteVotes(c) ==
  /\ call[c] # Idle /\ call[c].at = "purge"
  /\ votes' = [k \in DOMAIN votes |-> IF k[1] = call[c].id THEN "none" ELSE votes[k]]
  /\ End(c)
  /\ UNCHANGED <<reviews, made, asked, cut, late>>

\* vote_on_review: the _id of a vote is made of the user and the review, so a
\* second vote is met as DuplicateKeyError.
VoteOnReview(c, i, v, is) == Take(c, i, [at |-> "insert", id |-> i, voter |-> v, is |-> is])
Ballot(c) == <<call[c].id, call[c].voter>>

InsertVote(c) ==
  /\ call[c] # Idle /\ call[c].at = "insert"
  /\ \/ /\ votes[Ballot(c)] = "none"
        /\ votes' = [votes EXCEPT ![Ballot(c)] = call[c].is]
        /\ late' = IF reviews[call[c].id] = NoReview THEN late \cup {Ballot(c)} ELSE late
        /\ Goto(c, "count")
     \/ /\ votes[Ballot(c)] # "none"
        /\ Goto(c, "existing")
        /\ UNCHANGED <<votes, late>>
  /\ UNCHANGED <<reviews, made, asked, cut>>

\* A vote that is gone by now is counted as a new one.
FindVote(c) ==
  /\ call[c] # Idle /\ call[c].at = "existing"
  /\ Goto(c, IF votes[Ballot(c)] = "none" THEN "count" ELSE "revote")
  /\ UNCHANGED <<reviews, votes, made, asked, cut, late>>

\* existing.save(), before any counter.
ChangeVote(c) == call[c] # Idle /\ call[c].at = "revote" /\ SaveRefused(c)

\* review.save() with one vote more; the vote itself is in.
CountVote(c) == call[c] # Idle /\ call[c].at = "count" /\ SaveRefused(c)

\* A worker dies, or MongoDB fails it: with half of its writes made, if it has
\* made any.
LoseCall(c) ==
  /\ call[c] # Idle
  /\ cut' = IF call[c].at \in {"count", "purge"} THEN cut \cup {call[c].id} ELSE cut
  /\ End(c)
  /\ UNCHANGED <<reviews, votes, made, asked, late>>

ReviewsNext ==
  \/ \E u \in Authors : CreateReview(u)
  \/ \E c \in Calls :
       \/ \E i \in Ids : \/ UpdateReview(c, i) \/ DeleteReview(c, i)
                         \/ \E v \in Voters, is \in Opinion : VoteOnReview(c, i, v, is)
       \/ SaveUpdate(c) \/ DeleteDocument(c) \/ DeleteVotes(c)
       \/ InsertVote(c) \/ FindVote(c) \/ ChangeVote(c) \/ CountVote(c)
       \/ LoseCall(c)

-----------------------------------------------------------------------------
\* A vote outlives its review only if it was inserted when the document was gone
\* already, by a request that had read it before; or a deletion was lost before
\* it got to the votes, or has still to get there (delete_review deletes the
\* document first, so that no request begins to vote on it while votes go).
OrphanHasACause ==
  \A i \in Ids, v \in Voters :
    reviews[i] = NoReview /\ votes[<<i, v>>] # "none" =>
      \/ <<i, v>> \in late \/ i \in cut
      \/ \E c \in Calls : call[c] # Idle /\ call[c].at = "purge" /\ call[c].id = i

\* Once no request is at work on a review, and none was lost on it half way, its
\* counters are the numbers of its votes, as vote_on_review means them to be.
CountsMatchVotes ==
  \A i \in Ids \ cut :
    reviews[i] # NoReview /\ (\A c \in Calls : call[c] = Idle \/ call[c].id # i) =>
      LET number(is) == Cardinality({v \in Voters : votes[<<i, v>>] = is})
      IN reviews[i].likes = number("like") /\ reviews[i].dislikes = number("dislike")
=============================================================================
