----------------------------- MODULE MovieCatalog -----------------------------
(***************************************************************************)
(* The imports of movies from Radarr and from Jellyfin: each takes one     *)
(* answer, a list of items, finds the movie of every item by its own id or *)
(* by the external ids, fills the ids the movie lacks or creates a movie,  *)
(* and commits everything at the end, or rolls everything back.            *)
(*                                                                         *)
(* The imports are jobs of their own, so they overlap.  A run sees what is *)
(* committed and what it has changed itself (the session flushes before    *)
(* each query).  The queries for an item and the update they lead to are   *)
(* one step.  Titles, dates, posters and ratings are left out.             *)
(***************************************************************************)
EXTENDS Naturals, Sequences, SequencesExt, FiniteSets

CONSTANTS
  Slots,    \* the ids movies may get; a set of naturals, which bounds their number
  Values,   \* identifiers
  NoId,
  Answers,  \* Answers[c]: what the service with own column c may answer
  Runs,     \* the import runs that may overlap
  NoRun,    \* the run is not live
  Faults    \* may an import fail for another reason than its data?

OwnColumns == {"radarr", "jellyfin"}
External == {"tmdb", "imdb"}
Columns == OwnColumns \cup External

\* The identifiers of a movie, or of an item; each is a unique column of movies.
Record == [Columns -> Values \cup {NoId}]

Blank == [c \in Columns |-> NoId]

\* In an answer, items with one id of the service are one item, perhaps repeated.
ASSUME MovieCatalogAssumption ==
  /\ IsFiniteSet(Slots) /\ Slots \subseteq Nat
  /\ NoId \notin Values
  /\ \A c \in OwnColumns : \A items \in Answers[c] :
       /\ items \in Seq(Record)
       /\ \A x, y \in Range(items) : x[c] = y[c] /\ x[c] # NoId => x = y
       /\ \A x \in Range(items) : \A d \in OwnColumns \ {c} : x[d] = NoId
  /\ Faults \in BOOLEAN

VARIABLES
  movies,  \* movies[i]: the identifiers of movie i, committed; Blank if there is none
  run      \* run[r]: the state of run r

vars == <<movies, run>>

Live(r) == run[r] # NoRun

\* The table as run r sees it: what is committed under what r has changed.
Overlay(base, mine) ==
  [i \in Slots |-> [c \in Columns |-> IF mine[i][c] # NoId THEN mine[i][c] ELSE base[i][c]]]

View(r) == Overlay(movies, run[r].mine)

Unique(table) ==
  \A i, j \in Slots, c \in Columns : table[i][c] = table[j][c] /\ table[i][c] # NoId => i = j

-----------------------------------------------------------------------------
(* What an import does with one item.  Plausible bugs, which no             *)
(* specification uses, stand before the definitions they spoil.             *)

Exists(table, i) == table[i] # Blank

Matches(table, cols, item) ==
  {i \in Slots : \E c \in cols : item[c] # NoId /\ table[i][c] = item[c]}

\* find_movie_by_radarr_id, find_movie_by_jellyfin_id
ByOwnId(table, item) == Matches(table, OwnColumns, item)

\* find_movie_by_external_ids: one query, tmdb_id = ... OR imdb_id = ...
ByExternalIds(table, item) == Matches(table, External, item)

\* Bug: the identifiers of the item replace those of the movie.
FilledOver(record, item) ==
  [c \in Columns |-> IF item[c] # NoId THEN item[c] ELSE record[c]]

\* Bug: elif instead of if, so that an update sets one identifier only.
FilledOnce(record, item) ==
  LET missing == {c \in Columns : record[c] = NoId /\ item[c] # NoId}
  IN  IF missing = {} THEN record
      ELSE LET c == CHOOSE c \in missing : TRUE IN [record EXCEPT ![c] = item[c]]

\* update_existing_movie: an identifier is set only where there is none.
Filled(record, item) == [c \in Columns |-> IF record[c] = NoId THEN item[c] ELSE record[c]]

Candidates(table, item) ==
  IF ByOwnId(table, item) # {} THEN ByOwnId(table, item) ELSE ByExternalIds(table, item)

\* scalar_one_or_none raises MultipleResultsFound.
Ambiguous(table, item) == Cardinality(Candidates(table, item)) > 1

\* A free id for a new movie; ids are drawn from a sequence that all runs share.
Free(table) == {i \in Slots : ~Exists(table, i)}

\* The table after an item whose movie is found.
Updated(table, item) ==
  LET m == CHOOSE m \in Candidates(table, item) : TRUE
  IN  [table EXCEPT ![m] = Filled(@, item)]

\* create_new_movie
Created(table, i, item) == [table EXCEPT ![i] = item]

-----------------------------------------------------------------------------
(* The runs.                                                                *)

Start(r, c, items) ==
  /\ ~Live(r)
  /\ run' = [run EXCEPT ![r] =
       [todo |-> items, done |-> <<>>, mine |-> [i \in Slots |-> Blank], raced |-> FALSE]]
  /\ UNCHANGED movies

Change(r, table) ==
  run' = [run EXCEPT
    ![r].todo = Tail(@), ![r].done = Append(@, Head(run[r].todo)),
    ![r].mine = [i \in Slots |-> [c \in Columns |->
      IF table[i][c] # View(r)[i][c] THEN table[i][c] ELSE @[i][c]]]]

Taken == {i \in Slots : \E q \in Runs : Live(q) /\ run[q].mine[i] # Blank}

Process(r) ==
  /\ Live(r) /\ run[r].todo # <<>>
  /\ LET item == Head(run[r].todo) IN
     /\ ~Ambiguous(View(r), item)
     /\ \/ item = Blank /\ Change(r, View(r))
        \/ /\ item # Blank /\ Candidates(View(r), item) # {}
           /\ Unique(Updated(View(r), item))
           /\ Change(r, Updated(View(r), item))
        \/ /\ item # Blank /\ Candidates(View(r), item) = {}
           /\ \E i \in Free(View(r)) \ Taken :
                /\ \A j \in Free(View(r)) \ Taken : i <= j
                /\ Change(r, Created(View(r), i, item))
  /\ UNCHANGED movies

\* The search raises, the unique index refuses the new ids (at once, or at the
\* commit if another run has committed them meanwhile), or something else fails.
MayFail(r) ==
  \/ Faults
  \/ ~Unique(View(r))
  \/ /\ run[r].todo # <<>>
     /\ LET item == Head(run[r].todo) IN
        \/ Ambiguous(View(r), item)
        \/ /\ Candidates(View(r), item) # {}
           /\ ~Unique(Updated(View(r), item))

\* Bug: what was done until the exception is saved.
FailsWithoutRollback(r) ==
  /\ Live(r)
  /\ MayFail(r)
  /\ movies' = IF Unique(View(r)) THEN View(r) ELSE movies
  /\ run' = [run EXCEPT ![r] = NoRun]

\* The run rolls back and ends.
Fails(r) ==
  /\ Live(r)
  /\ MayFail(r)
  /\ run' = [run EXCEPT ![r] = NoRun]
  /\ UNCHANGED movies

Commit(r) ==
  /\ Live(r) /\ run[r].todo = <<>>
  /\ Unique(View(r))
  /\ movies' = View(r)
  /\ run' = [q \in Runs |->
       IF q = r THEN NoRun ELSE IF Live(q) THEN [run[q] EXCEPT !.raced = TRUE] ELSE NoRun]

-----------------------------------------------------------------------------
Init ==
  /\ movies = [i \in Slots |-> Blank]
  /\ run = [r \in Runs |-> NoRun]

Next ==
  \E r \in Runs :
    \/ \E c \in OwnColumns : \E items \in Answers[c] : Start(r, c, items)
    \/ Process(r) \/ Fails(r) \/ Commit(r)

Spec == Init /\ [][Next]_vars

-----------------------------------------------------------------------------
(* An import is all or nothing: whatever is committed, every item of the     *)
(* answer that has an identifier is found in the table by one of them,       *)
(* unless another import has committed since the run began: a third one may  *)
(* then write over the identifier by which an item was found                 *)
(* (radarr_service.py 36-100, import_jellyfin_movies_service.py 30-85).      *)
CommitsWholeAnswers ==
  [][movies' # movies => \E r \in Runs :
       /\ Live(r) /\ run'[r] = NoRun /\ run[r].todo = <<>>
       /\ run[r].raced \/ \A n \in DOMAIN run[r].done : run[r].done[n] = Blank
            \/ Matches(movies', Columns, run[r].done[n]) # {}
    ]_vars

(* Imports never change an identifier of a movie, unless two overlapping     *)
(* runs both found it missing (movie_utils.py 183-197).                      *)
IdsAreKept ==
  [][\A i \in Slots, c \in Columns : movies[i][c] # NoId /\ movies'[i][c] # movies[i][c] =>
       \E r \in Runs : Live(r) /\ run[r].raced /\ run[r].mine[i][c] # NoId
    ]_vars

(* Importing an answer again changes nothing: no second movie, no new id     *)
(* (radarr_service.py 48-100, import_jellyfin_movies_service.py 45-85).      *)
ReimportSettles ==
  \A r \in Runs : Live(r) /\ ~run[r].raced =>
    \A n \in DOMAIN run[r].done :
      LET item == run[r].done[n] IN
      item = Blank \/
        /\ Candidates(View(r), item) # {}
        /\ ~Ambiguous(View(r), item) => Updated(View(r), item) = View(r)

(* docs/dev/import_radarr_movies.md:22 has a film of Radarr searched by its  *)
(* own id, then by its TMDB id, then by its IMDb id: a search that two movies *)
(* match by different ids still ends in one of them.                         *)
SearchNeverFails ==
  \A r \in Runs : Live(r) /\ run[r].todo # <<>> =>
    LET item == Head(run[r].todo) IN
    item["radarr"] # NoId => ~Ambiguous(View(r), item)
=============================================================================
