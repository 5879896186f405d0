-------------------------------- MODULE SearchEtl -------------------------------
(***************************************************************************)
(* The way of a film from admin_panel to the search indices: transactions  *)
(* of editors stamp `modified`, fulltext_search reads the changed rows by  *)
(* the cursor (modified, id), loads documents with the bulk API and moves  *)
(* the cursor, which a file keeps over restarts.                           *)
(*                                                                         *)
(* Three jobs of one scheduler share the process: run_etl, for the index   *)
(* of movies, and one for each of the indices of persons and genres.       *)
(***************************************************************************)
EXTENDS Naturals, FiniteSets, Sequences

CONSTANTS
  Films, Persons, Genres, \* ids, which are numbers because uuids are ordered
  Fleets,                 \* bound: sets of jobs, of which one gets the turns
  Loaded,                 \* rows that came with the dump of the database
  Deletable,              \* rows that may be deleted
  MaxOpen,                \* bound: transactions of admin_panel open at once
  EtlBatchSize,           \* ETL_BATCH_SIZE
  MaxClock                \* bound: the last moment at which something is edited

ASSUME SearchEtlAssumption ==
  /\ IsFiniteSet(Films) /\ IsFiniteSet(Persons) /\ IsFiniteSet(Genres)
  /\ (Films \cup Persons \cup Genres) \subseteq Nat
  /\ Films \cap (Persons \cup Genres) = {} /\ Persons \cap Genres = {}
  /\ Fleets \subseteq SUBSET {"movies", "persons", "genres"}
  /\ EtlBatchSize \in Nat \ {0} /\ MaxClock \in Nat \ {0}

VARIABLES
  clock,      \* now, as far as stamps tell moments apart
  modified,   \* of each row, 0 while there is none; it also names what the row says
  links,      \* of each film: rows of person_film_work and genre_film_work
  gone,       \* rows that were deleted
  untitled,   \* films of the dump with a blank title: no form saves one
  recast,     \* persons whose links have changed since their row was last saved
  tx,         \* open transactions
  cursor,     \* State._state, which set_state keeps in the file of JsonFileStorage
  job,        \* where each job is
  movieIndex, \* the index `movies`
  parts,      \* the indices `persons` and `genres`
  credits,    \* the films in the documents of the index `persons`
  late,       \* <<c, r>>: a read by cursor c fell between the stamp of r and its commit
  torn,       \* <<c, m>>: the new cursor_modified was left beside the old cursor_id
  quiet       \* nothing fails any more and nobody edits

db  == <<clock, modified, links, gone, untitled, recast, tx, late>>
etl == <<cursor, job, movieIndex, parts, credits, torn>>
searchVars == <<db, etl, quiet>>

Parts   == Persons \cup Genres
AllRows    == Films \cup Parts
Watched == <<"film_work", "person", "genre">>
Jobs    == DOMAIN job
Cursors == {"film_work", "person", "genre", "persons_index", "genres_index"}
Stamps  == 0..MaxClock
Origin  == [m |-> 0, id |-> 0] \* _MIN_DATETIME and _MIN_UUID
NoJob   == [at |-> 1, rows |-> {}, says |-> <<>>, end |-> Origin]
NoFilm  == [at |-> 0, names |-> [p \in Parts |-> 0]]

\* What the batch a job works on was read to say: nothing for run_etl.
Sayings   == {<<>>} \cup UNION {[b -> Stamps] : b \in SUBSET AllRows}
JobStates == [at : 1..3, rows : SUBSET AllRows, says : Sayings,
              end : [m : Stamps, id : AllRows \cup {0}]]

SearchTypeOK ==
  /\ clock \in 2..(MaxClock + 1)
  /\ modified \in [AllRows -> Stamps] /\ links \in [Films -> SUBSET Parts] /\ gone \subseteq AllRows
  /\ untitled \subseteq Films /\ recast \subseteq Persons
  /\ tx \subseteq [row : AllRows, at : Stamps, links : SUBSET Parts, seen : SUBSET Cursors]
  /\ cursor \in [Cursors -> [m : Stamps, id : AllRows \cup {0}]]
  /\ \E fleet \in Fleets : job \in [fleet -> JobStates]
  /\ movieIndex \in [Films -> [at : Stamps, names : [Parts -> Stamps]]]
  /\ parts \in [Parts -> Stamps] /\ credits \in [Persons -> SUBSET Films]
  /\ late \subseteq Cursors \X AllRows /\ torn \subseteq Cursors \X Stamps
  /\ quiet \in BOOLEAN

SearchInit ==
  /\ clock = 2
  /\ modified = [r \in AllRows |-> IF r \in Loaded THEN 1 ELSE 0] /\ gone = {}
  /\ links \in [Films -> SUBSET (Parts \cap Loaded)]
  /\ \A f \in Films \ Loaded : links[f] = {}
  /\ untitled \in SUBSET (Films \cap Loaded) /\ recast = {}
  /\ tx = {}
  /\ cursor = [c \in Cursors |-> Origin]
  /\ \E fleet \in Fleets : job = [j \in fleet |-> NoJob]
  /\ movieIndex = [f \in Films |-> NoFilm] /\ parts = [p \in Parts |-> 0]
  /\ credits = [p \in Persons |-> {}]
  /\ late = {} /\ torn = {} /\ quiet = FALSE

-----------------------------------------------------------------------------
(* admin_panel: one form is one transaction. *)

\* auto_now stamps the row when the form is saved; a film's inlines follow.  A row
\* is in one open transaction: a second one waits for its lock.
Save(r, l) ==
  /\ Cardinality(tx) < MaxOpen /\ clock <= MaxClock
  /\ r \notin gone /\ modified[r] < clock
  /\ l \subseteq {p \in Parts : modified[p] > 0} /\ (r \in Parts => l = {})
  /\ \A t \in tx : t.row # r
  /\ tx' = tx \cup {[row |-> r, at |-> clock, links |-> l, seen |-> {}]}
  /\ UNCHANGED <<clock, modified, links, gone, untitled, recast, late>>

CreditsOf(p) == {f \in Films : p \in links[f]}

Recast == {p \in Persons : CreditsOf(p)' # CreditsOf(p)}

\* The rows become visible.  An inline stamps no person, and the form wants a title.
CommitForm(t) ==
  /\ IF t.row \in gone
     THEN UNCHANGED <<modified, links, untitled, recast, late>>
     ELSE /\ modified' = [modified EXCEPT ![t.row] = t.at]
          /\ links' = IF t.row \in Films THEN [links EXCEPT ![t.row] = t.links \ gone] ELSE links
          /\ untitled' = untitled \ {t.row}
          /\ recast' = (recast \ {t.row}) \cup Recast
          /\ late' = {x \in late : x[2] # t.row} \cup (t.seen \X {t.row})
  /\ tx' = tx \ {t}
  /\ UNCHANGED <<clock, gone>>

\* The form is given up, or its transaction fails.
Rollback(t) ==
  /\ tx' = tx \ {t}
  /\ UNCHANGED <<clock, modified, links, gone, untitled, recast, late>>

\* on_delete=CASCADE takes the links; no other row is stamped.
Delete(r) ==
  /\ r \in Deletable /\ modified[r] > 0
  /\ modified' = [modified EXCEPT ![r] = 0]
  /\ links' = [f \in Films |-> IF f = r THEN {} ELSE links[f] \ {r}]
  /\ gone' = gone \cup {r} /\ untitled' = untitled \ {r}
  /\ recast' = (recast \cup Recast) \ {r}
  /\ UNCHANGED <<clock, tx, late>>

-----------------------------------------------------------------------------
(* fulltext_search *)

RowsOf(t) == CASE t = "film_work" -> Films
               [] t \in {"person", "persons_index"} -> Persons
               [] t \in {"genre", "genres_index"} -> Genres

CursorOf(j) == CASE j = "movies" -> Watched[job[j].at]
                 [] j = "persons" -> "persons_index"
                 [] j = "genres" -> "genres_index"

AfterStamp(r, c) == modified[r] > c.m \* mutant: the cursor is the stamp alone

\* (modified, id) > (%s, %s)
After(r, c) == modified[r] > c.m \/ (modified[r] = c.m /\ r > c.id)
Before(q, r) == modified[q] < modified[r] \/ (modified[q] = modified[r] /\ q < r)

\* WHERE ... ORDER BY modified, id LIMIT batch_size
Changed(c) == {r \in RowsOf(c) : modified[r] > 0 /\ After(r, cursor[c])}
Batch(c) == {r \in Changed(c) : Cardinality({q \in Changed(c) : Before(q, r)}) < EtlBatchSize}

SetJob(j, v) == job' = [job EXCEPT ![j] = v]

NextTableStops(j) == \* mutant: after the last table it stays there
  [NoJob EXCEPT !.at = IF j = "movies" /\ job[j].at < Len(Watched) THEN job[j].at + 1 ELSE job[j].at]

\* for table in WATCHED_TABLES; the interval trigger begins with the first again.
NextTable(j) ==
  [NoJob EXCEPT !.at = IF j = "movies" THEN (job[j].at % Len(Watched)) + 1 ELSE 1]

\* The next batch of the generator.  What is stamped after it has a later stamp.
Extract(j) ==
  LET c == CursorOf(j)
      b == Batch(c)
  IN
  /\ job[j].rows = {}
  /\ IF b = {}
     THEN SetJob(j, NextTable(j)) /\ UNCHANGED <<clock, tx>>
     ELSE /\ SetJob(j, [job[j] EXCEPT
               !.rows = b,
               !.says = IF j = "movies" THEN <<>> ELSE [r \in b |-> modified[r]],
               !.end = LET r == CHOOSE r \in b : \A q \in b \ {r} : Before(q, r)
                       IN [m |-> modified[r], id |-> r]])
          /\ clock' = IF clock \in {modified[r] : r \in AllRows} \cup {t.at : t \in tx}
                      THEN clock + 1 ELSE clock
          /\ tx' = {IF t.row \in RowsOf(c) THEN [t EXCEPT !.seen = @ \cup {c}] ELSE t : t \in tx}
  /\ UNCHANGED <<modified, links, gone, untitled, recast, late, cursor, movieIndex, parts, credits, torn>>

DocIdsOfChanged(j) == \* mutant: films of a changed person are looked up by its id
  {r \in (IF j = "movies" THEN Films ELSE Parts) : modified[r] > 0 /\ r \in job[j].rows}

\* The ids whose documents the batch touches: for run_etl the films of the changed
\* rows.  fetch_film_details finds no film that is gone by then.
DocIds(j) ==
  IF j = "movies"
  THEN {f \in Films : modified[f] > 0 /\ (f \in job[j].rows \/ links[f] \cap job[j].rows # {})}
  ELSE job[j].rows

\* The documents the transformer makes: a row that fails validation is logged and
\* left out of the batch, and the cursor passes it with the others.
Transformed(j) == DocIds(j) \ untitled

\* What a document says.
Document(f) == [at |-> modified[f],
                names |-> [p \in Parts |-> IF p \in links[f] THEN modified[p] ELSE 0]]

\* bulk_upsert, of which the index takes the documents `taken`.  Nobody else writes
\* the index or reads the job, so details, transform and bulk are one step here; a
\* row of a person or a genre is as the batch read it, the films of a person are
\* read now.
BulkUpsert(j, taken) ==
  /\ job[j].rows # {} /\ taken \subseteq Transformed(j)
  /\ movieIndex' = IF j = "movies"
                   THEN [f \in Films |-> IF f \in taken THEN Document(f) ELSE movieIndex[f]]
                   ELSE movieIndex
  /\ parts' = IF j = "movies" THEN parts
              ELSE [p \in Parts |-> IF p \in taken THEN job[j].says[p] ELSE parts[p]]
  /\ credits' = IF j = "persons"
                THEN [p \in Persons |-> IF p \in taken THEN CreditsOf(p) ELSE credits[p]]
                ELSE credits

\* All are taken and both set_state calls pass: the cursor moves.  A short batch was
\* the last one of its table.
Load(j) ==
  /\ BulkUpsert(j, Transformed(j))
  /\ cursor' = [cursor EXCEPT ![CursorOf(j)] = job[j].end]
  /\ SetJob(j, IF Cardinality(job[j].rows) < EtlBatchSize THEN NextTable(j)
               ELSE [NoJob EXCEPT !.at = job[j].at])
  /\ UNCHANGED <<db, torn>>

\* Some are not taken, and the request is sent again (no connection) or the run
\* ends (RuntimeError).
LoadFails(j, taken) ==
  /\ BulkUpsert(j, taken)
  /\ UNCHANGED job \/ SetJob(j, NoJob)
  /\ UNCHANGED <<db, cursor, torn>>

\* The pair of the new cursor_modified and the old cursor_id.
HalfSaved(j) ==
  LET c    == CursorOf(j)
      half == [job[j].end EXCEPT !.id = cursor[c].id]
  IN
  /\ BulkUpsert(j, Transformed(j))
  /\ cursor' = [cursor EXCEPT ![c] = half]
  /\ torn' = IF half = job[j].end THEN torn ELSE torn \cup {<<c, half.m>>}
  /\ UNCHANGED db

\* The file cannot be written at the first set_state, which has already changed the
\* dictionary: the run ends.  (A restart that forgets it reads more, not less.)
SaveFails(j) == HalfSaved(j) /\ SetJob(j, NoJob)

Restarted == job' = [j \in Jobs |-> NoJob]

\* The process dies and starts again with what the file says.
RestartEtl == Restarted /\ UNCHANGED <<db, cursor, movieIndex, parts, credits, torn>>

\* It dies between the two set_state calls, or after them while the file still has
\* what another job's dump, made before them, put there.
RestartInSave(j) == HalfSaved(j) /\ Restarted

-----------------------------------------------------------------------------
Edit ==
  \/ \E r \in AllRows, l \in SUBSET Parts : Save(r, l)
  \/ \E r \in AllRows : Delete(r)

Finish == \E t \in tx : CommitForm(t) \/ Rollback(t)

Step(j) == Extract(j) \/ Load(j)

Failure ==
  \/ \E j \in Jobs : \/ \E s \in SUBSET Transformed(j) : LoadFails(j, s)
                     \/ SaveFails(j) \/ RestartInSave(j)
  \/ RestartEtl

Quieten == ~quiet /\ quiet' = TRUE /\ UNCHANGED <<db, etl>>

SearchNext ==
  \/ \E j \in Jobs : Step(j) /\ UNCHANGED quiet
  \/ Finish /\ UNCHANGED <<etl, quiet>>
  \/ ~quiet /\ Edit /\ UNCHANGED <<etl, quiet>>
  \/ ~quiet /\ Failure /\ UNCHANGED quiet
  \/ Quieten

SearchSpec == SearchInit /\ [][SearchNext]_searchVars

\* The scheduler starts every job again and again, a form is saved or given up,
\* and a call that does not fail returns.
FairSearchSpec ==
  /\ SearchSpec
  /\ \A j \in UNION Fleets : WF_searchVars(j \in Jobs /\ Step(j) /\ UNCHANGED quiet)
  /\ WF_searchVars(Finish /\ UNCHANGED <<etl, quiet>>)

-----------------------------------------------------------------------------
\* What excuses cursor c for having passed a row that the index has not.
Excused(c, r) ==
  \/ <<c, r>> \in late
  \/ <<c, modified[r]>> \in torn

HasPassed(c, r) == r \in RowsOf(c) /\ modified[r] > 0 /\ ~After(r, cursor[c])

\* A row the cursor has passed is in its index as it was last saved, unless it was
\* committed behind the cursor, shares its stamp with the end of a batch between
\* whose two set_state calls the run broke, or is a film of the dump without a title,
\* which the transformer drops.
PassedIsIndexed ==
  /\ \A f \in Films \ untitled :
       HasPassed("film_work", f) => movieIndex[f].at = modified[f] \/ Excused("film_work", f)
  /\ \A c \in {"persons_index", "genres_index"}, p \in Parts :
       HasPassed(c, p) => parts[p] = modified[p] \/ Excused(c, p)

\* The document of a film says of the persons and genres it lists what their rows
\* say, once their cursors have passed them: a rename reaches the films.
NamesFollow ==
  \A f \in Films, c \in {"person", "genre"} : \A p \in links[f] :
    HasPassed(c, p) /\ modified[f] > 0 /\ movieIndex[f].at = modified[f]
      => movieIndex[f].names[p] = modified[p] \/ Excused(c, p)

\* The indices agree with the tables in everything nothing excuses.
FilmAgrees(f) ==
  \/ modified[f] = 0 \/ f \in untitled \/ Excused("film_work", f)
  \/ /\ movieIndex[f].at = modified[f]
     /\ \A p \in Parts \ gone, c \in {"person", "genre"} :
          p \in RowsOf(c) =>
            \/ movieIndex[f].names[p] = (IF p \in links[f] THEN modified[p] ELSE 0)
            \/ Excused(c, p)

\* The films of a person's document are those of the time of its load: it need not
\* have what was linked or unlinked since the person was last saved.
PartAgrees(c, p) ==
  \/ modified[p] = 0 \/ Excused(c, p)
  \/ /\ parts[p] = modified[p]
     /\ p \in Persons \ recast => credits[p] = CreditsOf(p)

Agree ==
  /\ "movies" \in Jobs => \A f \in Films : FilmAgrees(f)
  /\ "persons" \in Jobs => \A p \in Persons : PartAgrees("persons_index", p)
  /\ "genres" \in Jobs => \A p \in Genres : PartAgrees("genres_index", p)

\* When nothing fails any more and the editors rest, the index comes to agree for good.
IndexCatchesUp == quiet ~> []Agree
=============================================================================
