------------------------------ MODULE TmdbMovies ------------------------------
(***************************************************************************)
(* update_movies_tmdb_metadata: the movies with a TMDB id are read, their  *)
(* payloads fetched concurrently and applied to the objects read, each as  *)
(* it arrives, and everything is committed at the end.  Radarr's import    *)
(* may update a movie meanwhile.                                           *)
(*                                                                         *)
(* Three columns stand for the rest: the title, which TMDB overwrites (as  *)
(* the release date) and an import does not; the rating (as the status),   *)
(* which both overwrite; and the poster (as the genres), which an import   *)
(* overwrites and TMDB fills in where there is none.  A payload has some    *)
(* of the three, and what it has not leaves its column alone.              *)
(***************************************************************************)
EXTENDS Naturals, FiniteSets

CONSTANTS
  Movies,
  Concurrency,    \* CONCURRENCY_LIMIT, 10 in the code
  PayloadFields,  \* which of the three columns a payload may come with
  Null

ASSUME TmdbMoviesAssumption == Concurrency \in Nat \ {0} /\ Null \notin {"import", "tmdb"}

VARIABLES
  movie,  \* movie[m]: the row, committed; who has set its columns
  job     \* the job: the rows as read and as changed, the fetches, what the
          \* payloads have had, which movies another commit has changed

tmdbMovies == <<movie, job>>

NoJob == [at |-> "idle"]

MoviesInit ==
  /\ movie \in [Movies -> [title : {"import"}, rating : {"import"}, poster : {Null, "import"}]]
  /\ job = NoJob

StartsMovies ==
  /\ job = NoJob
  /\ job' = [at |-> "gather", seen |-> movie, now |-> movie, waiting |-> Movies,
             fetching |-> {}, has |-> [m \in Movies |-> {}], raced |-> {}]
  /\ UNCHANGED movie

\* A fetch gets the semaphore.
Fetches(m) ==
  /\ job.at = "gather" /\ m \in job.waiting
  /\ Cardinality(job.fetching) < Concurrency
  /\ job' = [job EXCEPT !.waiting = @ \ {m}, !.fetching = @ \cup {m}]
  /\ UNCHANGED movie

\* Bug: a poster that is there is replaced.
AppliedOver(row, has) == [c \in DOMAIN row |-> IF c \in has THEN "tmdb" ELSE row[c]]

\* _apply_tmdb_update
Applied(row, has) ==
  [title  |-> IF "title" \in has THEN "tmdb" ELSE row.title,
   rating |-> IF "rating" \in has THEN "tmdb" ELSE row.rating,
   poster |-> IF "poster" \in has /\ row.poster = Null THEN "tmdb" ELSE row.poster]

Answered(m, has) ==
  /\ job.at = "gather" /\ m \in job.fetching
  /\ job' = [job EXCEPT !.fetching = @ \ {m}, !.now[m] = Applied(@, has), !.has[m] = has]
  /\ UNCHANGED movie

\* No such movie, a bridge error, an invalid payload, any exception: counted or
\* swallowed, the others go on.
FetchFails(m) ==
  /\ job.at = "gather" /\ m \in job.fetching
  /\ job' = [job EXCEPT !.fetching = @ \ {m}]
  /\ UNCHANGED movie

\* The commit writes the columns that have changed.
Flush(m) ==
  LET Column(now, seen, held) == IF now # seen THEN now ELSE held IN
  [title |-> Column(job.now[m].title, job.seen[m].title, movie[m].title),
   rating |-> Column(job.now[m].rating, job.seen[m].rating, movie[m].rating),
   poster |-> Column(job.now[m].poster, job.seen[m].poster, movie[m].poster)]

MoviesCommit ==
  /\ job.at = "gather" /\ job.waiting \cup job.fetching = {}
  /\ movie' = [m \in Movies |-> Flush(m)]
  /\ job' = NoJob

\* An import commits what update_existing_movie has overwritten.
ImportWrites(m) ==
  /\ {movie[m].poster, movie[m].rating} # {"import"}
  /\ movie' = [movie EXCEPT ![m].poster = "import", ![m].rating = "import"]
  /\ job' = IF job = NoJob THEN job ELSE [job EXCEPT !.raced = @ \cup {m}]

MoviesNext ==
  \/ StartsMovies \/ MoviesCommit
  \/ \E m \in Movies :
       \/ Fetches(m) \/ FetchFails(m) \/ ImportWrites(m)
       \/ \E has \in PayloadFields : Answered(m, has)

MoviesSpec == MoviesInit /\ [][MoviesNext]_tmdbMovies

\* Of what its payload has had, movie m takes TMDB's title, and its rating unless an
\* import has set one while the job was fetching; and it keeps the poster it has,
\* unless an import has set its first in that time.  The rest of it stays.
UpdatedAlone(m) ==
  LET had == movie[m]
      gets == movie'[m]
  IN  /\ gets.title = IF "title" \in job.has[m] THEN "tmdb" ELSE had.title
      /\ \/ gets.rating = IF "rating" \in job.has[m] THEN "tmdb" ELSE had.rating
         \/ m \in job.raced /\ gets.rating = had.rating
      /\ IF "poster" \in job.has[m]
         THEN /\ gets.poster # Null
              /\ had.poster \in {Null, gets.poster}
                   \/ (m \in job.raced /\ job.seen[m].poster = Null)
         ELSE gets.poster = had.poster

\* A movie whose fetch fails costs the others nothing and keeps what it has, as does
\* a column that a payload comes without; one that an import has committed while the
\* job was fetching is written over only where both set it
\* (update_tmdb_metadata_service.py:36).
MoviesUpdateAlone ==
  [][job # NoJob /\ job' = NoJob => \A m \in Movies : UpdatedAlone(m)]_tmdbMovies
=============================================================================
