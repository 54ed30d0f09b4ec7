----------------------------- MODULE MovieWatches -----------------------------
(***************************************************************************)
(* sync_jellyfin_watched_movies: the watch_history rows of every user are  *)
(* brought in line with the movies Jellyfin lists for that user, one user, *)
(* and one transaction, after the other, in a single database session.     *)
(*                                                                         *)
(* Runs may overlap (JobRuns shows how), and imports set jellyfin_ids      *)
(* meanwhile.  Between the reads for a user and the commit, a run computes *)
(* in memory; at the commit it writes what it changed of what it had read. *)
(*                                                                         *)
(* Left out: playback ticks and watched_at, which follow the status, and   *)
(* is_manual, which no code of the repository ever sets.                   *)
(***************************************************************************)
EXTENDS Naturals, Sequences

CONSTANTS
  Users,      \* the users with a jellyfin_user_id
  Movies,     \* the rows of movies
  NoMovie,
  Ids,        \* Jellyfin item ids
  NoId,       \* no identifier of some kind
  Tmdb, Imdb, \* Tmdb[m], Imdb[m]: the external identifiers of m, or NoId
  Statuses,   \* what Jellyfin can say of a movie: PLANNED, WATCHING, WATCHED
  Watched,    \* WatchStatus.WATCHED
  Dropped,    \* WatchStatus.DROPPED
  Libraries,  \* the answers Jellyfin may give: sequences of items
  MaxRows,    \* bound: no run starts once a user has more rows than this
  Runs,       \* the sync runs that may overlap
  NoRun,      \* the run is not live
  Faults      \* may a fetch, a read or a commit fail?

Item == [id : Ids, tmdb : {Tmdb[m] : m \in Movies} \cup {NoId},
         imdb : {Imdb[m] : m \in Movies} \cup {NoId}, status : Statuses]

\* External identifiers are unique columns of movies.
UniqueColumn(column) ==
  \A m, n \in Movies : column[m] = column[n] /\ column[m] # NoId => m = n

ASSUME MovieWatchesAssumption ==
  /\ NoMovie \notin Movies
  /\ NoId \notin Ids
  /\ DOMAIN Tmdb = Movies /\ UniqueColumn(Tmdb)
  /\ DOMAIN Imdb = Movies /\ UniqueColumn(Imdb)
  /\ Watched \in Statuses /\ Dropped \notin Statuses
  /\ Libraries \subseteq Seq(Item)
  /\ MaxRows \in Nat
  /\ Faults \in BOOLEAN

VARIABLES
  jid,     \* jid[m]: the jellyfin_id of m, or NoId; a unique column
  rows,    \* rows[u]: the watch_history rows of u, in order of insertion
  run,     \* run[r]: the state of run r
  doubled  \* history: the users for whom a run has committed although another
           \* commit raced it, or although two of its items were one movie

vars == <<jid, rows, run, doubled>>

WatchRow == [media : Movies, status : Statuses \cup {Dropped}]

NoPick == [m \in Movies |-> 0]
NoIds == [m \in Movies |-> NoId]

AnyUser == CHOOSE u \in Users : TRUE

\* A run between two users; open says whether its session is in a transaction.
Between(left, open) ==
  [at |-> "between", left |-> left, open |-> open, user |-> AnyUser,
   items |-> <<>>, pick |-> NoPick, loaded |-> <<>>, ids |-> NoIds, raced |-> FALSE]

Live(r) == run[r] # NoRun
At(r, place) == Live(r) /\ run[r].at = place

\* History: a commit races the runs that have begun to read for a user.
Raced(q) == IF Live(q) /\ run[q].at # "between" THEN [run[q] EXCEPT !.raced = TRUE] ELSE run[q]

-----------------------------------------------------------------------------
(* What one user's pass computes.  Plausible bugs, which no specification   *)
(* uses, stand before the definitions they spoil.                           *)

TheMovie(found) == IF found = {} THEN NoMovie ELSE CHOOSE m \in found : TRUE

ByTmdb(item) == TheMovie({m \in Movies : item.tmdb # NoId /\ Tmdb[m] = item.tmdb})
ByImdb(item) == TheMovie({m \in Movies : item.imdb # NoId /\ Imdb[m] = item.imdb})

\* movies_by_jellyfin_id, built from the jellyfin_ids as they were read.
IndexById(ids) == [x \in Ids |-> TheMovie({m \in Movies : ids[m] = x})]

\* Bug: the TMDB id is looked up before the Jellyfin id.
ResolveTmdbFirst(item, byId) ==
  IF ByTmdb(item) # NoMovie THEN ByTmdb(item) ELSE byId[item.id]

\* resolve_movie_from_indexes
Resolve(item, byId) ==
  IF byId[item.id] # NoMovie THEN byId[item.id]
  ELSE IF ByTmdb(item) # NoMovie THEN ByTmdb(item) ELSE ByImdb(item)

\* Bug: a movie found by its TMDB id is healed with that id.
ProcessedWrongId(pick, acc, item) ==
  LET m == Resolve(item, acc.byId) IN
  IF m = NoMovie THEN acc ELSE [acc EXCEPT !.ids[m] = item.tmdb]

\* One turn of the loop over the items: the movie is resolved, its jellyfin_id
\* healed, its row updated, or a row added if current_watches has none.  (An
\* added row does not enter current_watches.)
Processed(pick, acc, item) ==
  LET m == Resolve(item, acc.byId) IN
  IF m = NoMovie THEN acc
  ELSE [acc EXCEPT
    !.ids[m] = item.id,
    !.byId[item.id] = m,
    !.status[m] = IF pick[m] # 0 THEN item.status ELSE @,
    !.added = IF pick[m] # 0 THEN @ ELSE Append(@, [media |-> m, status |-> item.status])]

\* pick[m]: the row current_watches holds for m, or 0; loaded, ids: as read.
BeforeItems(pick, loaded, ids) ==
  [ids |-> ids, byId |-> IndexById(ids), added |-> <<>>,
   status |-> [m \in Movies |-> IF pick[m] = 0 THEN Dropped ELSE loaded[pick[m]].status]]

\* What there is after n turns, as a function of n.
Turns(pick, loaded, ids, items) ==
  LET after[n \in 0..Len(items)] ==
        IF n = 0 THEN BeforeItems(pick, loaded, ids)
        ELSE Processed(pick, after[n - 1], items[n])
  IN  after

AfterItems(pick, loaded, ids, items) == Turns(pick, loaded, ids, items)[Len(items)]

\* Bug: the exception for WATCHED rows is forgotten.
AfterDropsEvenWatched(acc, items) ==
  LET listed == {Resolve(items[n], acc.byId) : n \in DOMAIN items}
  IN  [acc EXCEPT !.status = [m \in Movies |-> IF m \notin listed THEN Dropped ELSE @[m]]]

\* Dropped detection: what Jellyfin no longer lists, unless it was watched.
AfterDrops(acc, items) ==
  LET listed == {Resolve(items[n], acc.byId) : n \in DOMAIN items}
  IN  [acc EXCEPT !.status = [m \in Movies |->
         IF m \notin listed /\ @[m] # Watched THEN Dropped ELSE @[m]]]

\* Bug: dropped detection knows movies by the jellyfin_id they had before.
OutcomeListedById(pick, loaded, ids, items) ==
  LET acc == AfterItems(pick, loaded, ids, items)
      listed == {IndexById(ids)[items[n].id] : n \in DOMAIN items}
  IN  [acc EXCEPT !.status = [m \in Movies |->
         IF m \notin listed /\ @[m] # Watched THEN Dropped ELSE @[m]]]

Outcome(pick, loaded, ids, items) == AfterDrops(AfterItems(pick, loaded, ids, items), items)

RunOutcome(r) == Outcome(run[r].pick, run[r].loaded, run[r].ids, run[r].items)

\* Bug: existing rows are not written.
WrittenRowsAddedOnly(now, pick, loaded, acc) == now \o acc.added

\* The flush writes what differs from what was read.
WrittenRows(now, pick, loaded, acc) ==
  [n \in DOMAIN now |->
     LET m == now[n].media IN
     IF pick[m] = n /\ acc.status[m] # loaded[n].status
     THEN [now[n] EXCEPT !.status = acc.status[m]] ELSE now[n]] \o acc.added

WrittenIds(now, ids, acc) ==
  [m \in Movies |-> IF acc.ids[m] # ids[m] THEN acc.ids[m] ELSE now[m]]

\* The unique index on movies.jellyfin_id refuses the flush.
Clashing(r) == ~UniqueColumn(WrittenIds(jid, run[r].ids, RunOutcome(r)))

\* The choices of current_watches: a dict keeps the last row of a movie, in
\* the order in which the database happens to return the rows.
Picks(seq) ==
  {p \in [Movies -> 0..Len(seq)] : \A m \in Movies :
     IF p[m] = 0 THEN \A n \in DOMAIN seq : seq[n].media # m ELSE seq[p[m]].media = m}

\* Two items of one answer are the same movie, which gets a row for each.
Twins(r) ==
  \E a, b \in DOMAIN run[r].items :
    LET byId == RunOutcome(r).byId IN
    /\ a < b
    /\ Resolve(run[r].items[a], byId) = Resolve(run[r].items[b], byId)
    /\ Resolve(run[r].items[a], byId) # NoMovie

-----------------------------------------------------------------------------
(* The steps of a run: the code between two awaits.                         *)

Start(r) ==
  /\ ~Live(r)
  /\ \A u \in Users : Len(rows[u]) <= MaxRows
  /\ run' = [run EXCEPT ![r] = Between(Users, TRUE)]
  /\ UNCHANGED <<jid, rows, doubled>>

Finish(r) ==
  /\ At(r, "between")
  /\ run[r].left = {}
  /\ run' = [run EXCEPT ![r] = NoRun]
  /\ UNCHANGED <<jid, rows, doubled>>

\* Jellyfin lists no movies: the user is passed over, rows and all.
FetchNothing(r, u) ==
  /\ At(r, "between")
  /\ u \in run[r].left
  /\ <<>> \in Libraries
  /\ run' = [run EXCEPT ![r].left = @ \ {u}]
  /\ UNCHANGED <<jid, rows, doubled>>

Fetch(r, u, items) ==
  /\ At(r, "between")
  /\ u \in run[r].left
  /\ items # <<>>
  /\ run' = [run EXCEPT ![r].at = "fetched", ![r].user = u, ![r].left = @ \ {u},
                        ![r].items = items, ![r].raced = FALSE]
  /\ UNCHANGED <<jid, rows, doubled>>

\* Bug: the query leaves out DROPPED rows.
ReadWatchesNotDropped(r) ==
  /\ At(r, "fetched")
  /\ \E p \in Picks(rows[run[r].user]) :
       run' = [run EXCEPT ![r].at = "watches", ![r].open = TRUE, ![r].loaded = rows[run[r].user],
         ![r].pick = [m \in Movies |->
           IF p[m] # 0 /\ rows[run[r].user][p[m]].status = Dropped THEN 0 ELSE p[m]]]
  /\ UNCHANGED <<jid, rows, doubled>>

ReadWatches(r) ==
  /\ At(r, "fetched")
  /\ \E p \in Picks(rows[run[r].user]) :
       run' = [run EXCEPT ![r].at = "watches", ![r].open = TRUE,
                          ![r].pick = p, ![r].loaded = rows[run[r].user]]
  /\ UNCHANGED <<jid, rows, doubled>>

\* The queries for the three indexes, taken as one.
ReadMovies(r) ==
  /\ At(r, "watches")
  /\ run' = [run EXCEPT ![r].at = "ready", ![r].ids = jid]
  /\ UNCHANGED <<jid, rows, doubled>>

Commit(r) ==
  /\ At(r, "ready")
  /\ ~Clashing(r)
  /\ LET u == run[r].user
         acc == RunOutcome(r)
     IN  /\ rows' = [rows EXCEPT ![u] = WrittenRows(@, run[r].pick, run[r].loaded, acc)]
         /\ jid' = WrittenIds(jid, run[r].ids, acc)
         /\ doubled' = IF run[r].raced \/ Twins(r) THEN doubled \cup {u} ELSE doubled
  /\ run' = [q \in Runs |-> IF q = r THEN Between(run[r].left, FALSE) ELSE Raced(q)]

\* An exception while a user is processed: rollback, a line in the log, and on
\* to the next user.  But the rollback of an open transaction expires every
\* object of the session, and the log line reads user.username: the lazy load
\* raises MissingGreenlet in the handler itself, and the whole run ends.
FetchFails(r, u) ==
  /\ Faults
  /\ At(r, "between")
  /\ u \in run[r].left
  /\ run' = [run EXCEPT ![r] = IF @.open THEN NoRun ELSE Between(@.left \ {u}, FALSE)]
  /\ UNCHANGED <<jid, rows, doubled>>

\* A read or the commit raises; either has opened a transaction.
PassFails(r) ==
  /\ Live(r) /\ run[r].at # "between"
  /\ Faults \/ (At(r, "ready") /\ Clashing(r))
  /\ run' = [run EXCEPT ![r] = NoRun]
  /\ UNCHANGED <<jid, rows, doubled>>

\* An import gives its jellyfin_id to a movie that has none (update_existing_movie).
Import(m, x) ==
  /\ jid[m] = NoId
  /\ \A n \in Movies : jid[n] # x
  /\ jid' = [jid EXCEPT ![m] = x]
  /\ run' = [q \in Runs |-> Raced(q)]
  /\ UNCHANGED <<rows, doubled>>

-----------------------------------------------------------------------------
Init ==
  /\ jid = NoIds
  /\ rows = [u \in Users |-> <<>>]
  /\ run = [r \in Runs |-> NoRun]
  /\ doubled = {}

Next ==
  \/ \E r \in Runs :
       \/ Start(r) \/ Finish(r)
       \/ ReadWatches(r) \/ ReadMovies(r)
       \/ Commit(r) \/ PassFails(r)
       \/ \E u \in Users :
            \/ FetchNothing(r, u) \/ FetchFails(r, u)
            \/ \E items \in Libraries : Fetch(r, u, items)
  \/ \E m \in Movies, x \in Ids : Import(m, x)

Spec == Init /\ [][Next]_vars

-----------------------------------------------------------------------------
Pass ==
  [at : {"between", "fetched", "watches", "ready"}, left : SUBSET Users, open : BOOLEAN,
   user : Users \cup {AnyUser}, items : Libraries \cup {<<>>}, pick : [Movies -> Nat],
   loaded : Seq(WatchRow), ids : [Movies -> Ids \cup {NoId}], raced : BOOLEAN]

TypeOK ==
  /\ jid \in [Movies -> Ids \cup {NoId}]
  /\ rows \in [Users -> Seq(WatchRow)]
  /\ doubled \subseteq Users
  /\ run \in [Runs -> {NoRun} \cup Pass]
  /\ \A r \in Runs : Live(r) =>
       /\ At(r, "between") \/ run[r].user \in Users
       /\ run[r].pick \in Picks(run[r].loaded) \cup {NoPick}

(* Healing a jellyfin_id never trips the unique index, so that a commit      *)
(* fails on it only if another commit raced the run: an id another movie     *)
(* holds resolves to that movie (movie_utils.py 231-232, sync 147-155).      *)
HealsNeverCollide ==
  \A r \in Runs : At(r, "ready") /\ ~run[r].raced => ~Clashing(r)

(* A user has one row per movie, unless a run committed for the user while   *)
(* another commit raced it, or two items of one answer were the same movie;  *)
(* nothing in the schema forbids such rows, and no run removes them          *)
(* (sync 62-69 and 191-207).                                                 *)
OneRowPerMovie ==
  \A u \in Users \ doubled : \A a, b \in DOMAIN rows[u] :
    rows[u][a].media = rows[u][b].media => a = b

(* A row says WATCHED until Jellyfin says otherwise: it turns from WATCHED   *)
(* to DROPPED only under a run that another commit raced, and which had read *)
(* the row before it was WATCHED (sync 228-236).                             *)
WatchedIsNotDropped ==
  [][\A u \in Users : \A n \in DOMAIN rows[u] :
       rows[u][n].status = Watched /\ rows'[u][n].status = Dropped =>
         \E r \in Runs : At(r, "ready") /\ run[r].user = u /\ run[r].raced
    ]_vars

(* A sync settles: the rows and ids it leaves are not changed by a second    *)
(* sync with the same answer, unless a movie has two rows or two of the      *)
(* items are the same movie (sync 127-236).                                  *)
SyncSettles ==
  \A r \in Runs :
    At(r, "ready") /\ ~run[r].raced /\ ~Twins(r) /\ run[r].user \notin doubled =>
    LET done == RunOutcome(r)
        first == WrittenRows(run[r].loaded, run[r].pick, run[r].loaded, done)
    IN  \A p \in Picks(first) :
          LET again == Outcome(p, first, done.ids, run[r].items) IN
          /\ WrittenRows(first, p, first, again) = first
          /\ again.ids = done.ids

(* After the commit of a run that nothing raced, the user's rows mirror      *)
(* Jellyfin: a movie it lists has a row with the status of its last item,    *)
(* and every other movie a row that is WATCHED, as before, or DROPPED        *)
(* (sync 127-239).                                                           *)
Mirror(items, ids, before, after) ==
  LET byId == IndexById(ids)
      itemsOf(m) == {n \in DOMAIN items : Resolve(items[n], byId) = m}
      rowsOf(seq, m) == {n \in DOMAIN seq : seq[n].media = m}
      latest(S) == CHOOSE n \in S : \A k \in S : k <= n
  IN  \A m \in Movies :
        IF itemsOf(m) # {}
        THEN \E n \in rowsOf(after, m) : after[n].status = items[latest(itemsOf(m))].status
        ELSE \A n \in rowsOf(after, m) :
               \/ after[n].status = Dropped
               \/ after[n].status = Watched /\ n \in DOMAIN before /\ before[n].status = Watched

RowsMirrorJellyfin ==
  [][\A r \in Runs :
       /\ At(r, "ready") /\ ~run[r].raced /\ run[r].user \notin doubled'
       /\ run'[r] # NoRun /\ run'[r].at = "between"
       => Mirror(run[r].items, jid', rows[run[r].user], rows'[run[r].user])
    ]_vars

(* What goes wrong for one user costs that user's sync only: a run ends when *)
(* it has taken every user (sync 249-252: "continue").                       *)
FailureCostsOneUser ==
  [][\A r \in Runs : Live(r) /\ run'[r] = NoRun => run[r].left = {}]_vars
=============================================================================
