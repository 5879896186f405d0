------------------------------ MODULE ContentCache ------------------------------
(***************************************************************************)
(* async_api: what a card shows from its cache in Redis.  Four kinds of    *)
(* entries are filled on a miss, never deleted, and left to their TTL:     *)
(*   film    a document of an index (BaseService.get_by_id);               *)
(*   list    the hits of a search (FilmService.get_list and search);       *)
(*   person  a document of the index of persons and, by a second search,   *)
(*           the films it takes part in (PersonService.get_by_id);         *)
(*   name    the full name of the author of a review, from user_profiles   *)
(*           (UgcCardService._resolve_names).                              *)
(* Entries share nothing, so a behaviour is about one of them.             *)
(***************************************************************************)
EXTENDS Integers

CONSTANTS
  Cards,     \* requests that show the entry
  Ttl,       \* of each kind, the ticks an entry lives
  Patience,  \* ticks within which the timeouts and retries of a request end it
  MaxEdits,  \* bound: changes of the source
  NoEntry, Waiting, NoCard

Kinds == DOMAIN Ttl

ASSUME ContentCacheAssumption ==
  /\ Kinds \subseteq {"film", "list", "person", "name"} /\ Ttl \in [Kinds -> Nat \ {0}]
  /\ Patience \in Nat \ {0} /\ MaxEdits \in Nat

VARIABLES
  kind,   \* what the entry is of
  source, \* what the stores say: the document, and the films of a person
  edits,  \* changes of the source
  entry,  \* the cached value
  card,   \* the requests
  since,  \* ticks since the source last changed, or last refused to answer
  shown   \* the last answer, with what was true then

cacheVars == <<kind, source, edits, entry, card, since, shown>>

Forever == Ttl[kind] + Patience + 1 \* `since` counts up to here
Absent  == 0                        \* there is no such document
Refused == -1                       \* the films of a search that failed

Values == (0..MaxEdits + 1) \X (-1..MaxEdits + 1)

CacheTypeOK ==
  /\ kind \in Kinds /\ source \in Values /\ edits \in 0..MaxEdits
  /\ entry = NoEntry \/ entry \in [value : Values, left : 1..Ttl[kind]]
  /\ card \in [Cards -> {NoCard, Waiting} \cup
                  [at : {"films", "store"}, value : Values, age : 0..Patience]]
  /\ since \in 0..Forever

CacheInit ==
  /\ kind \in Kinds
  /\ source = <<1, IF kind = "person" THEN 1 ELSE Absent>>
  /\ edits = 0
  /\ entry = NoEntry
  /\ card = [c \in Cards |-> NoCard]
  /\ since = Forever
  /\ shown = [value |-> source, true |-> source, since |-> since]

\* Requests that hold what they have read.
Holding == {c \in Cards : card[c] \notin {NoCard, Waiting}}

Show(value) == shown' = [value |-> value, true |-> source, since |-> since]
Leave(c)    == card' = [card EXCEPT ![c] = NoCard]

-----------------------------------------------------------------------------
HitRearms(c) == \* mutant: a hit renews the expiry
  /\ card[c] = NoCard /\ entry # NoEntry
  /\ Show(entry.value)
  /\ entry' = [entry EXCEPT !.left = Ttl[kind]]
  /\ UNCHANGED <<kind, source, edits, card, since>>

\* A hit is shown as it is.
Hit(c) ==
  /\ card[c] = NoCard /\ entry # NoEntry
  /\ Show(entry.value)
  /\ UNCHANGED <<kind, source, edits, entry, card, since>>

\* There is no entry; or Redis fails, after the retries.
Miss(c) ==
  /\ card[c] = NoCard
  /\ card' = [card EXCEPT ![c] = Waiting]
  /\ UNCHANGED <<kind, source, edits, entry, since, shown>>

\* No document: 404, or an anonymous author; nothing is cached.  But a search
\* without hits is an answer like any other.
Missing == source[1] = Absent /\ kind # "list"
FindNothing(c) ==
  /\ card[c] = Waiting /\ Missing
  /\ Show(source)
  /\ Leave(c)
  /\ UNCHANGED <<kind, source, edits, entry, since>>

\* What one search, or one GET, finds now: a document, or the hits that parse.
Found == <<source[1], Absent>>

FetchDocument(c) ==
  /\ card[c] = Waiting /\ ~Missing
  /\ card' = [card EXCEPT ![c] = [at |-> IF kind = "person" THEN "films" ELSE "store",
                                  value |-> Found, age |-> 0]]
  /\ UNCHANGED <<kind, source, edits, entry, since, shown>>

\* The films of a person.  An answer of Elasticsearch that is an error, other
\* than a lost connection, makes an empty list, and that list is cached.
FetchFilms(c) ==
  /\ c \in Holding /\ card[c].at = "films"
  /\ \/ /\ card' = [card EXCEPT ![c].at = "store", ![c].value = <<@[1], source[2]>>]
        /\ UNCHANGED since
     \/ /\ card' = [card EXCEPT ![c].at = "store", ![c].value = <<@[1], Refused>>]
        /\ since' = 0
  /\ UNCHANGED <<kind, source, edits, entry, shown>>

\* SET with an expiry; a failure of Redis is passed over.  Then the card is shown.
Store(c) ==
  /\ c \in Holding /\ card[c].at = "store"
  /\ \/ entry' = [value |-> card[c].value, left |-> Ttl[kind]]
     \/ UNCHANGED entry
  /\ Show(card[c].value)
  /\ Leave(c)
  /\ UNCHANGED <<kind, source, edits, since>>

\* The store is unreachable: 503, or the card without names.
GiveUp(c) ==
  /\ c \in Holding => card[c].at = "films"
  /\ card[c] # NoCard
  /\ Leave(c)
  /\ UNCHANGED <<kind, source, edits, entry, since, shown>>

\* The document changes (fulltext_search, the owner of the profile); only
\* profiles are deleted, and no document leaves an index; a search may lose its hits.
Edit(part, value) ==
  /\ edits < MaxEdits
  /\ part = 1 \/ kind = "person"
  /\ value = edits + 2 \/ (value = Absent /\ kind \in {"name", "list"})
  /\ source' = [source EXCEPT ![part] = value]
  /\ edits' = edits + 1 /\ since' = 0
  /\ UNCHANGED <<kind, entry, card, shown>>

\* Time passes, for the entry and for the requests, which do not outlive Patience.
Tick ==
  /\ \A c \in Holding : card[c].age < Patience
  /\ card' = [c \in Cards |-> IF c \in Holding THEN [card[c] EXCEPT !.age = @ + 1] ELSE card[c]]
  /\ entry' = IF entry = NoEntry \/ entry.left = 1 THEN NoEntry ELSE [entry EXCEPT !.left = @ - 1]
  /\ since' = IF since = Forever THEN since ELSE since + 1
  /\ UNCHANGED <<kind, source, edits, shown>>

CacheNext ==
  \/ \E c \in Cards : \/ Hit(c) \/ Miss(c) \/ FindNothing(c) \/ FetchDocument(c)
                      \/ FetchFilms(c) \/ Store(c) \/ GiveUp(c)
  \/ \E part \in 1..2, value \in 0..MaxEdits + 1 : Edit(part, value)
  \/ Tick

-----------------------------------------------------------------------------
\* Nothing ever deletes an entry, so what bounds the age of a card is the TTL
\* and the time a request may hold what it has read: an old name (of a renamed
\* or a deleted profile), an old document, films cached as none because a
\* search failed, are shown at most that long after the source changed or
\* refused.
ShownIsRecent == shown.value = shown.true \/ shown.since <= Ttl[kind] + Patience
=============================================================================
