----------------------------- MODULE FilmPageProofs -----------------------------
(***************************************************************************)
(* What the page of a film shows, for any number of requests, users and    *)
(* ticks: a card is not older than its entry may live and a request may    *)
(* take (ContentCache), a stale statistic has a cause (UgcRatings), whom   *)
(* an administrator was shown is audited (Profiles), and a vote that has   *)
(* outlived its review has a cause (UgcReviews).                           *)
(***************************************************************************)
EXTENDS FilmPage, TLAPS

-----------------------------------------------------------------------------
(* ContentCache: whatever is out of date is younger than what it stands in. *)

\* Only a person has films.
OnePart == kind # "person" => source[2] = Absent

\* A request holds what was true when it asked: what it has of it by now.
HeldIsRecent ==
  \A c \in Holding :
    \/ since <= card[c].age
    \/ card[c].at = "store" /\ card[c].value = source
    \/ card[c].at = "films" /\ card[c].value[1] = source[1]

\* An entry got what a request held.
EntryIsRecent ==
  entry # NoEntry => entry.value = source \/ since + entry.left <= Ttl[kind] + Patience

CacheInv == CacheTypeOK /\ OnePart /\ HeldIsRecent /\ EntryIsRecent /\ ShownIsRecent

LEMMA CacheStart == ContentCacheAssumption /\ CacheInit => CacheInv
  BY DEF ContentCacheAssumption, CacheInit, CacheInv, CacheTypeOK, OnePart, HeldIsRecent,
         EntryIsRecent, ShownIsRecent, Kinds, Holding, Forever, Absent, Values

LEMMA CacheTypeStep ==
  ASSUME ContentCacheAssumption, CacheInv, CacheNext
  PROVE  CacheTypeOK'
<1> USE DEF ContentCacheAssumption, CacheInv, CacheTypeOK, Kinds, Forever, Values, Absent, Refused,
            Leave, Show, Holding
<1>1. ASSUME NEW c \in Cards, Hit(c) \/ Miss(c) \/ FindNothing(c) \/ GiveUp(c)
      PROVE  CacheTypeOK'
  BY <1>1 DEF Hit, Miss, FindNothing, GiveUp
<1>2. ASSUME NEW c \in Cards, FetchDocument(c) PROVE CacheTypeOK'
  BY <1>2 DEF FetchDocument, Found
<1>3. ASSUME NEW c \in Cards, FetchFilms(c) PROVE CacheTypeOK'
  <2>0. card[c] \in [at : {"films", "store"}, value : Values, age : 0..Patience]
    BY <1>3 DEF FetchFilms
  <2>1. PICK films \in -1..MaxEdits + 1 :
          /\ card' = [card EXCEPT ![c].at = "store", ![c].value = <<@[1], films>>]
          /\ since' \in {since, 0} /\ UNCHANGED <<kind, source, edits, entry, shown>>
    BY <1>3 DEF FetchFilms
  <2>2. [card[c] EXCEPT !.at = "store", !.value = <<card[c].value[1], films>>]
          \in [at : {"films", "store"}, value : Values, age : 0..Patience]
    BY <2>0
  <2>3. card' = [card EXCEPT ![c] = [card[c] EXCEPT !.at = "store", !.value = <<card[c].value[1], films>>]]
    BY <2>0, <2>1
  <2> QED  BY <2>1, <2>2, <2>3
<1>4. ASSUME NEW c \in Cards, Store(c) PROVE CacheTypeOK'
  <2>1. entry' = entry \/ entry' \in [value : Values, left : 1..Ttl[kind]]
    BY <1>4 DEF Store
  <2> QED  BY <1>4, <2>1 DEF Store
<1>5. ASSUME NEW part1 \in 1..2, NEW value \in 0..MaxEdits + 1, Edit(part1, value) PROVE CacheTypeOK'
  BY <1>5 DEF Edit
<1>6. CASE Tick
  <2>0. Ttl[kind] \in Nat \ {0} /\ kind' = kind
    BY <1>6 DEF Tick
  <2>1. since' \in 0..Forever'
    <3>1. Forever \in Nat /\ Forever' = Forever /\ since \in 0..Forever
      BY <2>0
    <3> HIDE DEF ContentCacheAssumption, CacheInv, CacheTypeOK, Forever
    <3>2. since' = IF since = Forever THEN since ELSE since + 1
      BY <1>6 DEF Tick
    <3> QED  BY <3>1, <3>2
  <2>2. entry' = NoEntry \/ entry' \in [value : Values, left : 1..Ttl[kind]]
    BY <1>6 DEF Tick
  <2>3. card' \in [Cards -> {NoCard, Waiting} \cup
                       [at : {"films", "store"}, value : Values, age : 0..Patience]]
    BY <1>6 DEF Tick
  <2> QED  BY <1>6, <2>1, <2>2, <2>3 DEF Tick
<1> QED  BY <1>1, <1>2, <1>3, <1>4, <1>5, <1>6 DEF CacheNext

\* An answer, as old as what it is made of.
LEMMA ShownStep ==
  ASSUME ContentCacheAssumption, CacheInv, CacheNext
  PROVE  ShownIsRecent'
<1> USE DEF ContentCacheAssumption, CacheInv, CacheTypeOK, Kinds, Forever, ShownIsRecent, Show
<1>1. ASSUME NEW c \in Cards, Hit(c) PROVE ShownIsRecent'
  BY <1>1 DEF Hit, EntryIsRecent
<1>2. ASSUME NEW c \in Cards, Store(c) PROVE ShownIsRecent'
  <2>1. card[c].value = source \/ since <= card[c].age
    BY <1>2 DEF Store, HeldIsRecent
  <2>2. card[c].age <= Patience /\ card[c].age \in Nat
    BY <1>2 DEF Store, Holding
  <2> QED  BY <1>2, <2>1, <2>2 DEF Store
<1>3. ASSUME NEW c \in Cards, Miss(c) \/ FindNothing(c) \/ FetchDocument(c) \/ FetchFilms(c) \/ GiveUp(c)
      PROVE  ShownIsRecent'
  BY <1>3 DEF Miss, FindNothing, FetchDocument, FetchFilms, GiveUp
<1>4. CASE (\E p \in 1..2, value \in 0..MaxEdits + 1 : Edit(p, value)) \/ Tick
  BY <1>4 DEF Edit, Tick
<1> QED  BY <1>1, <1>2, <1>3, <1>4 DEF CacheNext

\* The clock ages what is held and what is cached with what is true.
LEMMA TickStep ==
  ASSUME ContentCacheAssumption, CacheInv, Tick
  PROVE  HeldIsRecent' /\ EntryIsRecent'
<1> USE DEF ContentCacheAssumption, CacheInv, CacheTypeOK, Kinds, Forever, Tick
<1>0. Ttl[kind] \in Nat \ {0} /\ since \in Nat
  OBVIOUS
<1>1. since = Forever => since' = since
  OBVIOUS
<1>2. since # Forever => since' = since + 1
  OBVIOUS
<1>3. ASSUME NEW c \in Holding PROVE
        /\ card[c] \in [at : {"films", "store"}, value : Values, age : 0..Patience]
        /\ card[c].age \in Nat /\ card[c].age < Patience /\ card'[c] = [card[c] EXCEPT !.age = @ + 1]
        /\ card'[c].age = card[c].age + 1 /\ card'[c].at = card[c].at /\ card'[c].value = card[c].value
  BY DEF Holding
<1>4. Holding' \subseteq Holding
  BY DEF Holding
<1>5. HeldIsRecent'
  <2>1. ASSUME NEW c \in Holding, since <= card[c].age PROVE since' <= card[c].age + 1
    <3>1. card[c].age \in Nat /\ card[c].age < Patience
      BY <1>3
    <3>2. since # Forever
      BY <1>0, <2>1, <3>1
    <3> QED  BY <1>0, <1>2, <2>1, <3>1, <3>2
  <2>2. source' = source
    OBVIOUS
  <2>3. ASSUME NEW c \in Holding
        PROVE  \/ since' <= card'[c].age
               \/ card'[c].at = "store" /\ card'[c].value = source'
               \/ card'[c].at = "films" /\ card'[c].value[1] = source'[1]
    <3>1. CASE since <= card[c].age
      <4>1. since' <= card[c].age + 1 /\ card'[c].age = card[c].age + 1
        BY <3>1, <2>1, <1>3
      <4> QED  BY <4>1
    <3>2. CASE card[c].at = "store" /\ card[c].value = source
      BY <3>2, <1>3, <2>2
    <3>3. CASE card[c].at = "films" /\ card[c].value[1] = source[1]
      BY <3>3, <1>3, <2>2
    <3> QED  BY <3>1, <3>2, <3>3 DEF HeldIsRecent
  <2> QED  BY <1>4, <2>3 DEF HeldIsRecent
<1>6. EntryIsRecent'
  BY <1>1, <1>2 DEF EntryIsRecent
<1> QED  BY <1>5, <1>6

LEMMA CacheStep ==
  ASSUME ContentCacheAssumption, CacheInv, CacheNext
  PROVE  CacheInv'
<1> USE DEF ContentCacheAssumption, CacheInv
<1>t. CacheTypeOK' /\ ShownIsRecent'
  BY CacheTypeStep, ShownStep
<1>1. OnePart'
  <2>1. ASSUME NEW p \in 1..2, NEW value \in 0..MaxEdits + 1, Edit(p, value) PROVE OnePart'
    BY <2>1 DEF Edit, OnePart, Absent, CacheTypeOK, Values
  <2> QED  BY <2>1 DEF CacheNext, Hit, Miss, FindNothing, FetchDocument, FetchFilms, Store, GiveUp, Tick,
             OnePart
<1>2. HeldIsRecent' /\ EntryIsRecent'
  <2> USE DEF HeldIsRecent, EntryIsRecent, CacheTypeOK, Kinds, Forever, Holding, Leave
  <2>1. ASSUME NEW c \in Cards, Hit(c) \/ Miss(c) \/ FindNothing(c) \/ GiveUp(c)
        PROVE  HeldIsRecent' /\ EntryIsRecent'
    BY <2>1 DEF Hit, Miss, FindNothing, GiveUp
  <2>2. ASSUME NEW c \in Cards, FetchDocument(c) PROVE HeldIsRecent' /\ EntryIsRecent'
    <3>1. kind # "person" => Found = source
      BY DEF Found, OnePart, Values
    <3>2. Found[1] = source[1]
      BY DEF Found
    <3> QED  BY <2>2, <3>1, <3>2 DEF FetchDocument
  <2>3. ASSUME NEW c \in Cards, FetchFilms(c) PROVE HeldIsRecent' /\ EntryIsRecent'
    <3>0. card[c] \in [at : {"films", "store"}, value : Values, age : 0..Patience]
      BY <2>3 DEF FetchFilms
    <3>1. PICK films \in {source[2], Refused} :
            /\ card' = [card EXCEPT ![c].at = "store", ![c].value = <<@[1], films>>]
            /\ (films = source[2] /\ since' = since) \/ since' = 0
            /\ UNCHANGED <<kind, source, edits, entry, shown>>
      BY <2>3 DEF FetchFilms
    <3>2. /\ \A d \in Cards \ {c} : card'[d] = card[d]
          /\ card'[c].at = "store" /\ card'[c].age = card[c].age
          /\ card'[c].value = <<card[c].value[1], films>>
      BY <3>0, <3>1
    <3>3. since' <= since /\ since' >= 0
      BY <3>1
    <3>4. HeldIsRecent'
      <4>1. since' <= card'[c].age \/ card'[c].value = source
        <5>0. card[c].age \in Nat /\ since \in Nat /\ since' \in Nat
          BY <3>0, <3>3, <3>1
        <5>1. CASE since <= card[c].age
          BY <5>0, <3>2, <3>3, <5>1
        <5>2. CASE card[c].value[1] = source[1] /\ films = source[2]
          BY <3>2, <5>2 DEF Values
        <5>3. CASE since' = 0
          BY <5>0, <3>2, <5>3
        <5> QED  BY <3>1, <5>1, <5>2, <5>3, <2>3 DEF FetchFilms
      <4>2. ASSUME NEW d \in Holding \ {c}, since <= card[d].age PROVE since' <= card'[d].age
        <5>1. card[d].age \in Nat /\ since \in Nat /\ since' \in Nat /\ card'[d] = card[d]
          BY <3>1, <3>2, <3>3
        <5> QED  BY <5>1, <4>2, <3>3
      <4> QED  BY <3>1, <3>2, <4>1, <4>2
    <3>5. EntryIsRecent'
      BY <3>1, <3>3
    <3> QED  BY <3>4, <3>5
  <2>4. ASSUME NEW c \in Cards, Store(c) PROVE HeldIsRecent' /\ EntryIsRecent'
    <3>1. card[c].value = source \/ since <= card[c].age
      BY <2>4 DEF Store
    <3>2. card[c].age <= Patience /\ card[c].age \in Nat
      BY <2>4 DEF Store
    <3> QED  BY <2>4, <3>1, <3>2 DEF Store
  <2>5. ASSUME NEW p \in 1..2, NEW value \in 0..MaxEdits + 1, Edit(p, value)
        PROVE  HeldIsRecent' /\ EntryIsRecent'
    <3>1. /\ since' = 0 /\ UNCHANGED <<kind, entry, card>>
      BY <2>5 DEF Edit
    <3> QED  BY <3>1
  <2> QED  BY <2>1, <2>2, <2>3, <2>4, <2>5, TickStep DEF CacheNext
<1> QED  BY <1>t, <1>1, <1>2

-----------------------------------------------------------------------------
(* UgcRatings: an entry, or what a reader has aggregated, is missing a write *)
(* only when the invalidation behind that write is still to come, or came    *)
(* too early for it.                                                         *)

Coming == \E w \in Writers : writer[w] # NoWork /\ writer[w].at = "invalidate"

Excused(found) == found # NoStats => found.value = Statistics \/ found.late \/ Coming

IsEntry(found) == found = NoStats \/ \E v, l : found = [value |-> v, late |-> l]

RatingsInv ==
  /\ ratings \in [Raters -> Scores \cup {NoRating}]
  /\ writer \in [Writers -> {NoWork} \cup Requests]
  /\ DOMAIN reader = Readers /\ summary = [q \in Readers |-> summary[q]]
  /\ IsEntry(stats) /\ Excused(stats)
  /\ \A q \in Readers : IsEntry(summary[q]) /\ Excused(summary[q])

LEMMA RatingsStart == RatingsInit => RatingsInv
  BY DEF RatingsInit, RatingsInv, IsEntry, Excused

LEMMA SameStatistics == ratings' = ratings => Statistics' = Statistics
  BY DEF Statistics

\* What a writer does that does not invalidate; if it writes, it will.
LEMMA WriterStep ==
  ASSUME RatingsAssumption, RatingsInv, NEW w \in Writers,
         \/ \E u \in Raters : (\E s \in Scores : AddLike(w, u, s)) \/ RemoveLike(w, u)
         \/ UpdateLike(w) \/ DeleteLike(w)
  PROVE  RatingsInv'
<1> USE DEF RatingsInv, RatingsAssumption
<1> DEFINE Writes(r) ==
      /\ writer' = [writer EXCEPT ![w] = r]
      /\ \/ ratings' = ratings /\ (writer[w] = NoWork \/ writer[w].at # "invalidate")
         \/ ratings' \in [Raters -> Scores \cup {NoRating}] /\ r.at = "invalidate"
      /\ UNCHANGED <<stats, reader, summary>>
<1>1. PICK r \in Requests : Writes(r)
  <2>1. ASSUME NEW u \in Raters, NEW s \in Scores, AddLike(w, u, s) PROVE \E r \in Requests : Writes(r)
    <3>1. CASE ratings[u] = NoRating
      <4>1. Writes([at |-> "invalidate", user |-> u, score |-> s])
        BY <2>1, <3>1 DEF AddLike, Set
      <4> QED  BY <4>1 DEF Requests
    <3>2. CASE ratings[u] # NoRating
      <4>1. Writes([at |-> "update", user |-> u, score |-> s])
        BY <2>1, <3>2 DEF AddLike, Set
      <4> QED  BY <4>1 DEF Requests
    <3> QED  BY <3>1, <3>2
  <2>2. ASSUME NEW u \in Raters, RemoveLike(w, u) PROVE \E r \in Requests : Writes(r)
    <3>1. Writes([at |-> "delete", user |-> u, score |-> ratings[u]])
      BY <2>2 DEF RemoveLike, Set
    <3> QED  BY <2>2, <3>1 DEF Requests, RemoveLike
  <2>3. CASE UpdateLike(w)
    <3>1. writer[w].user \in Raters /\ writer[w].score \in Scores
      BY <2>3 DEF UpdateLike, Requests
    <3>2. Writes([at |-> "invalidate", user |-> writer[w].user, score |-> writer[w].score])
      BY <2>3, <3>1 DEF UpdateLike, Set
    <3> QED  BY <3>1, <3>2 DEF Requests
  <2>4. CASE DeleteLike(w)
    <3>1. writer[w].user \in Raters /\ writer[w].score \in Scores
      BY <2>4 DEF DeleteLike, Requests
    <3>2. Writes([at |-> "invalidate", user |-> writer[w].user, score |-> writer[w].score])
      BY <2>4, <3>1 DEF DeleteLike, Set
    <3> QED  BY <3>1, <3>2 DEF Requests
  <2> QED  BY <2>1, <2>2, <2>3, <2>4
<1>2. Coming \/ ratings' # ratings => Coming'
  <2>1. r # NoWork /\ writer'[w] = r
    BY <1>1
  <2>2. CASE r.at = "invalidate"
    BY <2>1, <2>2 DEF Coming
  <2>3. CASE r.at # "invalidate"
    <3>1. ratings' = ratings /\ (writer[w] = NoWork \/ writer[w].at # "invalidate")
      BY <1>1, <2>3
    <3> QED  BY <1>1, <3>1 DEF Coming
  <2> QED  BY <2>2, <2>3
<1>3. \A found : Excused(found) => Excused(found)'
  BY <1>2, SameStatistics DEF Excused
<1> QED  BY <1>1, <1>3

\* A DEL that fails, or that a reader has overtaken, is what `late` is for.
LEMMA InvalidateStep ==
  ASSUME RatingsInv, NEW w \in Writers, InvalidateStats(w)
  PROVE  RatingsInv'
<1> USE DEF InvalidateStats, RatingsInv
<1>1. ASSUME NEW found, IsEntry(found), found # NoStats, NEW new, new = [found EXCEPT !.late = TRUE]
      PROVE  IsEntry(new) /\ new.late
  BY <1>1 DEF IsEntry
<1>2. IsEntry(stats)' /\ Excused(stats)'
  BY <1>1 DEF IsEntry, Excused
<1>3. ASSUME NEW q \in Readers PROVE IsEntry(summary[q])' /\ Excused(summary[q])'
  BY <1>1 DEF IsEntry, Excused, Outdate
<1>4. summary' = [q \in Readers |-> summary'[q]]
  BY DEF Outdate
<1> QED  BY <1>2, <1>3, <1>4

LEMMA RatingsStep ==
  ASSUME RatingsAssumption, RatingsInv, RatingsNext
  PROVE  RatingsInv'
<1> USE DEF RatingsInv
<1>1. ASSUME UNCHANGED <<ratings, writer>>
      PROVE  \A found : Excused(found) => Excused(found)'
  BY <1>1, SameStatistics DEF Excused, Coming
<1>2. ASSUME NEW q \in Readers, ReadStats(q) PROVE RatingsInv'
  BY <1>1, <1>2 DEF ReadStats
<1>3. ASSUME NEW q \in Readers, Aggregate(q) PROVE RatingsInv'
  <2>1. Statistics' = Statistics
    BY <1>3, SameStatistics DEF Aggregate
  <2>2. IsEntry(summary'[q]) /\ Excused(summary[q])'
    BY <1>3, <2>1 DEF Aggregate, IsEntry, Excused
  <2> QED  BY <1>1, <1>3, <2>2 DEF Aggregate
<1>4. ASSUME NEW q \in Readers, StoreStats(q) PROVE RatingsInv'
  <2>1. UNCHANGED <<ratings, writer>> /\ DOMAIN reader' = Readers
    BY <1>4 DEF StoreStats
  <2>2. summary' = [summary EXCEPT ![q] = NoStats]
    BY <1>4 DEF StoreStats
  <2>3. stats' = summary[q] \/ stats' = stats
    BY <1>4 DEF StoreStats
  <2>4. IsEntry(stats)' /\ Excused(stats)'
    <3>1. CASE stats' = summary[q]
      <4>1. IsEntry(summary[q]) /\ Excused(summary[q])
        OBVIOUS
      <4> QED  BY <1>1, <2>1, <3>1, <4>1 DEF IsEntry, Excused
    <3>2. CASE stats' = stats
      BY <1>1, <2>1, <3>2 DEF IsEntry, Excused
    <3> QED  BY <2>3, <3>1, <3>2
  <2>5. \A p \in Readers : summary'[p] = summary[p] \/ summary'[p] = NoStats
    BY <2>2
  <2>6. ASSUME NEW p \in Readers PROVE IsEntry(summary[p])' /\ Excused(summary[p])'
    <3>1. CASE summary'[p] = summary[p]
      <4>1. IsEntry(summary[p]) /\ Excused(summary[p])
        OBVIOUS
      <4> QED  BY <1>1, <2>1, <3>1, <4>1 DEF IsEntry, Excused
    <3>2. CASE summary'[p] = NoStats
      BY <3>2 DEF IsEntry, Excused
    <3> QED  BY <2>5, <3>1, <3>2
  <2>7. summary' = [p \in Readers |-> summary'[p]]
    BY <2>2
  <2> QED  BY <2>1, <2>4, <2>6, <2>7
<1>5. CASE ExpireStats
  BY <1>1, <1>5 DEF ExpireStats, IsEntry, Excused
<1>6. CASE Rest
  BY <1>1, <1>6 DEF Rest
<1> QED  BY <1>2, <1>3, <1>4, <1>5, <1>6, WriterStep, InvalidateStep DEF RatingsNext

-----------------------------------------------------------------------------
(* Profiles: the rows of the audit are written before the answer, and for    *)
(* the page that was read, whatever has become of the profiles since.        *)

ViewsAreAudited ==
  \A v \in Views : view[v] # NoView /\ view[v].at \in {"summary", "answer"} =>
    view[v].page \subseteq audited \cup unaudited

Shape ==
  view \in [Views -> {NoView} \cup
              [at : {"audit", "summary", "answer"}, page : SUBSET People, full : BOOLEAN]]

AuditInv == Shape /\ ViewsAreAudited /\ SeenIsAudited

LEMMA AuditStart == ProfilesInit => AuditInv
  BY DEF ProfilesInit, AuditInv, Shape, ViewsAreAudited, SeenIsAudited

LEMMA AuditStep ==
  ASSUME AuditInv, ProfilesNext
  PROVE  AuditInv'
<1> USE DEF AuditInv, Shape, ViewsAreAudited, SeenIsAudited
<1>1. CASE \E u \in People : \/ \E p \in Phones : CreateProfile(u, p) \/ UpdateProfile(u, p)
                             \/ DeleteProfile(u)
  BY <1>1 DEF CreateProfile, UpdateProfile, SetPhone, DeleteProfile
<1>2. ASSUME NEW v \in Views, NEW page \in SUBSET People, ListProfiles(v, page) PROVE AuditInv'
  BY <1>2 DEF ListProfiles
<1>3. ASSUME NEW v \in Views, NEW u \in People, NEW full \in BOOLEAN, GetProfile(v, u, full)
      PROVE  AuditInv'
  BY <1>3 DEF GetProfile
<1>4. ASSUME NEW v \in Views, RecordViews(v) PROVE AuditInv'
  BY <1>4 DEF RecordViews
<1>5. ASSUME NEW v \in Views, GetSummary(v) \/ Answer(v) \/ LoseView(v) PROVE AuditInv'
  BY <1>5 DEF GetSummary, Answer, LoseView
<1> QED  BY <1>1, <1>2, <1>3, <1>4, <1>5 DEF ProfilesNext

-----------------------------------------------------------------------------
(* UgcReviews: the votes of a review that is gone. *)

\* Somebody has still to delete the votes of review i.
Purging(i) == \E c \in Calls : call[c] # Idle /\ call[c].at = "purge" /\ call[c].id = i

ReviewsInv == ReviewsTypeOK /\ OrphanHasACause

LEMMA WorkParts ==
  ASSUME NEW w \in Works
  PROVE  /\ w.id \in Ids /\ w # Idle
         /\ w.at \in {"save", "delete", "purge", "insert", "existing", "revote", "count"}
         /\ w.at \in {"delete", "purge"} => w \in Deletions
         /\ w.at \in {"insert", "existing", "revote", "count"} => w \in Votings
         /\ w \in Votings => w.voter \in Voters /\ w.is \in Opinion
<1>1. w # Idle
  BY UgcReviewsAssumption
<1> QED  BY <1>1 DEF Works, Edits, Deletions, Votings

LEMMA CallMoves ==
  ASSUME ReviewsTypeOK, NEW c \in Calls, NEW at, call[c] # Idle, Goto(c, at),
         \/ call[c] \in Deletions /\ at \in {"delete", "purge"}
         \/ call[c] \in Votings /\ at \in {"insert", "existing", "revote", "count"}
  PROVE  call' \in [Calls -> Works \cup {Idle}]
<1>1. [call[c] EXCEPT !.at = at] \in Works
  BY DEF Works, Deletions, Votings
<1>2. call' = [call EXCEPT ![c] = [call[c] EXCEPT !.at = at]]
  BY DEF Goto
<1> QED  BY <1>1, <1>2 DEF ReviewsTypeOK

\* A request that ends, is refused or goes on elsewhere leaves the orphans their
\* cause, unless it was about to delete votes.
LEMMA OthersKeepPurging ==
  ASSUME ReviewsTypeOK, NEW c \in Calls, NEW i \in Ids, Purging(i),
         call'[c] = call[c] \/ call[c] = Idle \/ call[c].at # "purge" \/ call[c].id # i,
         \A d \in Calls \ {c} : call'[d] = call[d]
  PROVE  Purging(i)'
<1>1. PICK d \in Calls : call[d] # Idle /\ call[d].at = "purge" /\ call[d].id = i
  BY DEF Purging
<1>2. call'[d] = call[d]
  BY <1>1
<1> QED  BY <1>1, <1>2 DEF Purging

\* No vote and no document comes or goes.
LEMMA OrphansRest ==
  ASSUME ReviewsInv, NEW c \in Calls, cut \subseteq cut', UNCHANGED <<votes, late>>,
         \A i \in Ids : reviews'[i] = NoReview => reviews[i] = NoReview,
         \/ call'[c] = call[c] \/ call[c] = Idle \/ call[c].at # "purge"
         \/ call[c].id \in cut',
         \A d \in Calls \ {c} : call'[d] = call[d]
  PROVE  OrphanHasACause'
<1> SUFFICES ASSUME NEW i \in Ids, NEW v \in Voters, reviews'[i] = NoReview,
                    votes'[<<i, v>>] # "none"
             PROVE  <<i, v>> \in late' \/ i \in cut' \/ Purging(i)'
  BY DEF OrphanHasACause, Purging
<1>1. <<i, v>> \in late \/ i \in cut \/ Purging(i)
  BY DEF ReviewsInv, OrphanHasACause, Purging
<1>2. ASSUME Purging(i) PROVE i \in cut' \/ Purging(i)'
  BY <1>2, OthersKeepPurging DEF ReviewsInv
<1> QED  BY <1>1, <1>2

LEMMA TakeStep ==
  ASSUME ReviewsInv, NEW c \in Calls, NEW i \in Ids, NEW work \in Works, Take(c, i, work)
  PROVE  ReviewsInv'
<1>1. ReviewsTypeOK'
  BY UgcReviewsAssumption DEF Take, Receive, ReviewsInv, ReviewsTypeOK
<1>2. OrphanHasACause'
  BY OrphansRest DEF Take, ReviewsInv, ReviewsTypeOK
<1> QED  BY <1>1, <1>2 DEF ReviewsInv

LEMMA CreateStep ==
  ASSUME ReviewsInv, NEW u \in Authors, CreateReview(u) PROVE ReviewsInv'
<1> DEFINE new == [author |-> u, likes |-> 0, dislikes |-> 0]
<1>1. made + 1 \in Ids /\ new \in Reviews /\ new # NoReview
  BY UgcReviewsAssumption DEF CreateReview, ReviewsInv, ReviewsTypeOK, Ids, Reviews
<1>2. reviews' = [reviews EXCEPT ![made + 1] = new]
  BY DEF CreateReview
<1> HIDE DEF new
<1>3. ReviewsTypeOK'
  BY <1>1, <1>2, UgcReviewsAssumption DEF CreateReview, Receive, ReviewsInv, ReviewsTypeOK, Ids
<1>4. \A i \in Ids : reviews'[i] = NoReview => reviews[i] = NoReview
  BY <1>1, <1>2 DEF ReviewsInv, ReviewsTypeOK
<1>5. OrphanHasACause'
  BY <1>4 DEF CreateReview, ReviewsInv, OrphanHasACause
<1> QED  BY <1>3, <1>5 DEF ReviewsInv

\* A request is refused a save, or is lost.
LEMMA EndStep ==
  ASSUME ReviewsInv, NEW c \in Calls, call[c] # Idle, End(c),
         UNCHANGED <<reviews, votes, made, asked, late>>,
         cut' = cut \/ cut' = cut \cup {call[c].id},
         call[c].at = "purge" => call[c].id \in cut'
  PROVE  ReviewsInv'
<1>1. call[c] \in Works
  BY DEF ReviewsInv, ReviewsTypeOK
<1>2. ReviewsTypeOK'
  BY <1>1, WorkParts DEF End, ReviewsInv, ReviewsTypeOK
<1>3. OrphanHasACause'
  BY OrphansRest DEF End, ReviewsInv, ReviewsTypeOK
<1> QED  BY <1>2, <1>3 DEF ReviewsInv

\* The document goes; its votes are orphans with a cause.
LEMMA DeleteDocumentStep ==
  ASSUME ReviewsInv, NEW c \in Calls, DeleteDocument(c) PROVE ReviewsInv'
<1>1. call[c] \in Works /\ call[c] # Idle /\ call[c].at = "delete" /\ Goto(c, "purge")
  BY DEF DeleteDocument, ReviewsInv, ReviewsTypeOK
<1>2. call[c] \in Deletions /\ call[c].id \in Ids
  BY <1>1, WorkParts
<1>3. call' \in [Calls -> Works \cup {Idle}]
  BY <1>1, <1>2, CallMoves DEF ReviewsInv
<1>4. ReviewsTypeOK'
  BY <1>2, <1>3 DEF DeleteDocument, ReviewsInv, ReviewsTypeOK
<1>5. call'[c] = [call[c] EXCEPT !.at = "purge"] /\ \A d \in Calls \ {c} : call'[d] = call[d]
  BY <1>1 DEF Goto, ReviewsInv, ReviewsTypeOK
<1>6. call'[c] \in Works /\ call'[c].at = "purge" /\ call'[c].id = call[c].id
  BY <1>2, <1>5 DEF Works, Deletions
<1>7. call'[c] # Idle
  BY <1>6, WorkParts
<1>8. Purging(call[c].id)'
  BY <1>6, <1>7 DEF Purging
<1>9. ASSUME NEW i \in Ids, NEW v \in Voters, reviews'[i] = NoReview, votes'[<<i, v>>] # "none"
      PROVE  <<i, v>> \in late' \/ i \in cut' \/ Purging(i)'
  <2>1. UNCHANGED <<votes, late, cut>>
    BY DEF DeleteDocument
  <2>2. CASE i = call[c].id
    BY <1>6, <1>7, <2>2 DEF Purging
  <2>3. CASE i # call[c].id
    <3>1. reviews[i] = NoReview
      BY <1>9, <2>3 DEF DeleteDocument, ReviewsInv, ReviewsTypeOK
    <3>2. <<i, v>> \in late \/ i \in cut \/ Purging(i)
      BY <1>9, <2>1, <3>1 DEF ReviewsInv, OrphanHasACause, Purging
    <3>3. Purging(i) => Purging(i)'
      BY <1>1, <1>5, OthersKeepPurging DEF ReviewsInv
    <3> QED  BY <2>1, <3>2, <3>3
  <2> QED  BY <2>2, <2>3
<1> QED  BY <1>4, <1>9 DEF ReviewsInv, OrphanHasACause, Purging

LEMMA DeleteVotesStep ==
  ASSUME ReviewsInv, NEW c \in Calls, DeleteVotes(c) PROVE ReviewsInv'
<1>1. call[c] # Idle /\ End(c) /\ UNCHANGED <<reviews, made, asked, cut, late>>
  BY DEF DeleteVotes
<1>2. \A i \in Ids, v \in Voters :
        votes'[<<i, v>>] = IF i = call[c].id THEN "none" ELSE votes[<<i, v>>]
  BY DEF DeleteVotes, ReviewsInv, ReviewsTypeOK
<1>3. ReviewsTypeOK'
  BY DEF DeleteVotes, End, ReviewsInv, ReviewsTypeOK
<1>4. ASSUME NEW i \in Ids, NEW v \in Voters, reviews'[i] = NoReview, votes'[<<i, v>>] # "none"
      PROVE  <<i, v>> \in late' \/ i \in cut' \/ Purging(i)'
  <2>1. i # call[c].id /\ votes[<<i, v>>] # "none" /\ reviews[i] = NoReview
    BY <1>1, <1>2, <1>4
  <2>2. <<i, v>> \in late \/ i \in cut \/ Purging(i)
    BY <2>1 DEF ReviewsInv, OrphanHasACause, Purging
  <2>3. Purging(i) => Purging(i)'
    BY <1>1, <2>1, OthersKeepPurging DEF ReviewsInv, ReviewsTypeOK, End
  <2> QED  BY <1>1, <2>2, <2>3
<1> QED  BY <1>3, <1>4 DEF ReviewsInv, OrphanHasACause, Purging

\* A vote comes: late if there is no document to vote on.
LEMMA InsertVoteStep ==
  ASSUME ReviewsInv, NEW c \in Calls, InsertVote(c) PROVE ReviewsInv'
<1>1. call[c] \in Works /\ call[c] # Idle /\ call[c].at = "insert"
  BY DEF InsertVote, ReviewsInv, ReviewsTypeOK
<1>2. /\ call[c] \in Votings /\ call[c].id \in Ids /\ call[c].voter \in Voters
      /\ call[c].is \in Opinion
  BY <1>1, WorkParts
<1>3. PICK at \in {"count", "existing"} : Goto(c, at)
  BY DEF InsertVote
<1>4. call' \in [Calls -> Works \cup {Idle}]
  BY <1>1, <1>2, <1>3, CallMoves DEF ReviewsInv
<1>5. Ballot(c) \in Ids \X Voters
  BY <1>2 DEF Ballot
<1>6. ReviewsTypeOK'
  <2>1. votes' \in [Ids \X Voters -> Opinion \cup {"none"}] /\ late' \subseteq Ids \X Voters
    BY <1>2, <1>5 DEF InsertVote, ReviewsInv, ReviewsTypeOK
  <2> QED  BY <1>4, <2>1 DEF InsertVote, ReviewsInv, ReviewsTypeOK
<1>7. \A d \in Calls \ {c} : call'[d] = call[d]
  BY <1>3 DEF Goto, ReviewsInv, ReviewsTypeOK
<1>8. ASSUME NEW i \in Ids, NEW v \in Voters, reviews'[i] = NoReview, votes'[<<i, v>>] # "none"
      PROVE  <<i, v>> \in late' \/ i \in cut' \/ Purging(i)'
  <2>1. reviews' = reviews /\ cut' = cut /\ late \subseteq late'
    BY DEF InsertVote
  <2>2. CASE votes[<<i, v>>] # "none"
    <3>1. <<i, v>> \in late \/ i \in cut \/ Purging(i)
      BY <1>8, <2>1, <2>2 DEF ReviewsInv, OrphanHasACause, Purging
    <3>2. Purging(i) => Purging(i)'
      BY <1>1, <1>7, OthersKeepPurging DEF ReviewsInv
    <3> QED  BY <2>1, <3>1, <3>2
  <2>3. CASE votes[<<i, v>>] = "none"
    <3>1. <<i, v>> = Ballot(c)
      BY <1>8, <2>3 DEF InsertVote, ReviewsInv, ReviewsTypeOK
    <3>2. i = call[c].id
      BY <3>1 DEF Ballot
    <3> QED  BY <1>8, <2>1, <2>3, <3>1, <3>2 DEF InsertVote
  <2> QED  BY <2>2, <2>3
<1> QED  BY <1>6, <1>8 DEF ReviewsInv, OrphanHasACause, Purging

LEMMA FindVoteStep ==
  ASSUME ReviewsInv, NEW c \in Calls, FindVote(c) PROVE ReviewsInv'
<1>1. call[c] \in Works /\ call[c] # Idle /\ call[c].at = "existing"
  BY DEF FindVote, ReviewsInv, ReviewsTypeOK
<1>2. call[c] \in Votings
  BY <1>1, WorkParts
<1>3. PICK at \in {"count", "revote"} : Goto(c, at)
  BY DEF FindVote
<1>4. call' \in [Calls -> Works \cup {Idle}]
  BY <1>1, <1>2, <1>3, CallMoves DEF ReviewsInv
<1>5. ReviewsTypeOK'
  BY <1>4 DEF FindVote, ReviewsInv, ReviewsTypeOK
<1>6. \A d \in Calls \ {c} : call'[d] = call[d]
  BY <1>3 DEF Goto, ReviewsInv, ReviewsTypeOK
<1>7. OrphanHasACause'
  BY <1>1, <1>6, OrphansRest DEF FindVote
<1> QED  BY <1>5, <1>7 DEF ReviewsInv

LEMMA ReviewsStart == ReviewsInit => ReviewsInv
  BY UgcReviewsAssumption DEF ReviewsInit, ReviewsInv, ReviewsTypeOK, OrphanHasACause

LEMMA ReviewsStep == ReviewsInv /\ ReviewsNext => ReviewsInv'
<1> SUFFICES ASSUME ReviewsInv, ReviewsNext PROVE ReviewsInv'
  OBVIOUS
<1>1. ASSUME NEW u \in Authors, CreateReview(u) PROVE ReviewsInv'
  BY <1>1, CreateStep
<1>2. ASSUME NEW c \in Calls, NEW i \in Ids, UpdateReview(c, i) \/ DeleteReview(c, i)
      PROVE  ReviewsInv'
  <2>1. [at |-> "save", id |-> i] \in Works /\ [at |-> "delete", id |-> i] \in Works
    BY DEF Works, Edits, Deletions
  <2> QED  BY <1>2, <2>1, TakeStep DEF UpdateReview, DeleteReview
<1>3. ASSUME NEW c \in Calls, NEW i \in Ids, NEW v \in Voters, NEW is \in Opinion,
             VoteOnReview(c, i, v, is)
      PROVE  ReviewsInv'
  <2>1. [at |-> "insert", id |-> i, voter |-> v, is |-> is] \in Works
    BY DEF Works, Votings
  <2> QED  BY <1>3, <2>1, TakeStep DEF VoteOnReview
<1>4. ASSUME NEW c \in Calls, SaveUpdate(c) \/ ChangeVote(c) \/ CountVote(c) PROVE ReviewsInv'
  <2>1. call[c] # Idle /\ call[c].at # "purge" /\ SaveRefused(c)
    BY <1>4 DEF SaveUpdate, ChangeVote, CountVote
  <2> QED  BY <2>1, EndStep DEF SaveRefused
<1>5. ASSUME NEW c \in Calls, LoseCall(c) PROVE ReviewsInv'
  BY <1>5, EndStep DEF LoseCall
<1> QED  BY <1>1, <1>2, <1>3, <1>4, <1>5, DeleteDocumentStep, DeleteVotesStep, InsertVoteStep,
            FindVoteStep DEF ReviewsNext

LEMMA ReviewsRest == ReviewsInv /\ UNCHANGED reviewVars => ReviewsInv'
  BY DEF ReviewsInv, ReviewsTypeOK, OrphanHasACause, reviewVars

-----------------------------------------------------------------------------
(* The theorems. *)

Inv == CacheInv /\ RatingsInv /\ AuditInv /\ ReviewsInv

\* Each part keeps its own invariant, whichever of them takes the step.
THEOREM Invariant == Spec => []Inv
<1>1. Init => Inv
  BY CacheStart, RatingsStart, AuditStart, ReviewsStart, ContentCacheAssumption DEF Init, Inv
<1>2. Inv /\ [Next]_vars => Inv'
  <2> SUFFICES ASSUME Inv, [Next]_vars PROVE Inv'
    OBVIOUS
  <2>1. CacheInv /\ UNCHANGED cacheVars => CacheInv'
    BY DEF cacheVars, CacheInv, CacheTypeOK, OnePart, HeldIsRecent, EntryIsRecent, ShownIsRecent,
           Holding, Forever
  <2>2. RatingsInv /\ UNCHANGED ratingVars => RatingsInv'
    BY SameStatistics DEF ratingVars, RatingsInv, IsEntry, Excused, Coming
  <2>3. AuditInv /\ UNCHANGED profileVars => AuditInv'
    BY DEF profileVars, AuditInv, Shape, ViewsAreAudited, SeenIsAudited
  <2>4. CacheInv' /\ RatingsInv' /\ AuditInv' /\ ReviewsInv'
    BY <2>1, <2>2, <2>3, CacheStep, RatingsStep, AuditStep, ReviewsStep,
       ReviewsRest, ContentCacheAssumption, RatingsAssumption
    DEF Inv, Next, vars, ReviewStep, RatingStep, ContentStep, ProfileStep
  <2> QED  BY <2>4 DEF Inv
<1>3. Spec => Init /\ [][Next]_vars
  BY DEF Spec
<1> QED  BY <1>1, <1>2, <1>3, PTL

\* No card is older than its TTL and the patience of one request allow, for any
\* TTL and any number of requests that fill the entry at once.
THEOREM CardsAreRecent == Spec => []ShownIsRecent
<1>1. Inv => ShownIsRecent
  BY DEF Inv, CacheInv
<1> QED  BY <1>1, Invariant, PTL

\* Cached statistics that are not those of the ratings have one of the causes
\* named, for any number of raters, writers and readers.
THEOREM StaleStatsAreExplained == Spec => []StaleStatsHaveACause
<1>1. Inv => StaleStatsHaveACause
  BY DEF Inv, RatingsInv, Excused, Coming, StaleStatsHaveACause
<1> QED  BY <1>1, Invariant, PTL

\* Nobody's data reaches an administrator unaudited, unless the audit failed.
THEOREM ViewsLeaveTraces == Spec => []SeenIsAudited
<1>1. Inv => SeenIsAudited
  BY DEF Inv, AuditInv
<1> QED  BY <1>1, Invariant, PTL

\* A vote that has outlived its review came after it, or its deletion was lost
\* half way or is not over.
THEOREM OrphansAreExplained == Spec => []OrphanHasACause
<1>1. Inv => OrphanHasACause
  BY DEF Inv, ReviewsInv
<1> QED  BY <1>1, Invariant, PTL
=============================================================================
