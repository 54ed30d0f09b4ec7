----------------------------- MODULE SeriesTables -----------------------------
(***************************************************************************)
(* The tables of the series catalogue, series, seasons and episodes, and   *)
(* the watch_history rows that point at episodes: what four jobs read and  *)
(* write, each in a database session of its own.                           *)
(*                                                                         *)
(* A job sees what is committed under what it has changed itself, and      *)
(* writes at its commit the columns it has changed (READ COMMITTED; the    *)
(* session flushes before each query).  Columns that identify nothing      *)
(* (titles, dates, ratings, posters) are left out.                         *)
(***************************************************************************)
EXTENDS Naturals, Sequences, SequencesExt, FiniteSets, FiniteSetsExt, TLC

CONSTANTS
  Slots,     \* Slots[t]: the row ids of table t; disjoint sets of naturals,
             \* which bound the number of rows
  Null,
  Users,     \* the users with a jellyfin_user_id
  Statuses,  \* what Jellyfin can say of an episode: PLANNED, WATCHING, WATCHED
  Watched,   \* WatchStatus.WATCHED
  Dropped,   \* WatchStatus.DROPPED
  Runs,      \* job runs that may overlap
  NoRun,     \* the run is not live
  Faults,    \* may a job fail for another reason than its data or its answers?
  Bounded,   \* do the bounds of MayStart hold? The theorems need none
  MaxShared  \* bound: at so many episodes runs overlap, or start after a race

Tables == {"series", "seasons", "episodes"}

External == {"tmdb", "imdb", "tvdb"}

Columns == [series   |-> External \cup {"sonarr", "jellyfin"},
            seasons  |-> {"series", "number", "jellyfin", "tmdb"},
            episodes |-> {"season", "number", "sonarr", "jellyfin", "tmdb"}]

\* The columns with a unique index.  The number of a season or of an episode
\* has none.
Indexed == [series   |-> Columns.series,
            seasons  |-> {"jellyfin", "tmdb"},
            episodes |-> {"sonarr", "jellyfin", "tmdb"}]

ASSUME SeriesTablesAssumption ==
  /\ DOMAIN Slots = Tables
  /\ \A t \in Tables : /\ Slots[t] \subseteq Nat \ {0}
                        /\ \E n \in Slots[t] \cup {0} : Slots[t] \subseteq 1..n
  /\ \A t, u \in Tables : t # u => Slots[t] \cap Slots[u] = {}
  /\ Null \notin Nat
  /\ Watched \in Statuses /\ Dropped \notin Statuses
  /\ Faults \in BOOLEAN /\ Bounded \in BOOLEAN

VARIABLES
  db,      \* db[t][i]: row i of table t, committed; a row without values is free
  watch,   \* watch[u]: the watch_history rows of u with an episode
  run,     \* run[r]: the state of run r
  crossed  \* history: has a run been committed although another commit raced it?

vars == <<db, watch, run, crossed>>

Blank(t) == [c \in Columns[t] |-> Null]

\* No rows, or no changes to any.
Nothing == [t \in Tables |-> [i \in Slots[t] |-> Blank(t)]]

\* A row of table t with the given columns.
Row(t, values) ==
  [c \in Columns[t] |-> IF c \in DOMAIN values THEN values[c] ELSE Null]

Exists(view, t, i) == \E c \in Columns[t] : view[t][i][c] # Null

Existing(view, t) == {i \in Slots[t] : Exists(view, t, i)}

\* base under the columns that mine sets.
Overlay(base, mine) ==
  [t \in Tables |-> [i \in Slots[t] |-> [c \in Columns[t] |->
     IF mine[t][i][c] # Null THEN mine[t][i][c] ELSE base[t][i][c]]]]

\* The columns in which view differs from base.
Changes(base, view) ==
  [t \in Tables |-> [i \in Slots[t] |-> [c \in Columns[t] |->
     IF view[t][i][c] # base[t][i][c] THEN view[t][i][c] ELSE Null]]]

\* f, with the value y for x.
Also(f, x, y) == [z \in {x} \cup DOMAIN f |-> IF z = x THEN y ELSE f[z]]

\* view with another row i of table t, or with another value in one column of it.
PutRow(view, t, i, row) == Also(view, t, Also(view[t], i, row))
Put(view, t, i, c, x) == PutRow(view, t, i, Also(view[t][i], c, x))

\* Does no unique index refuse these rows of table t?
UniqueIn(rows, t) ==
  \A c \in Indexed[t] : \A i, j \in Slots[t] :
    rows[i][c] # Null /\ rows[i][c] = rows[j][c] => i = j

Unique(view) == \A t \in Tables : UniqueIn(view[t], t)

\* The rows of t whose column c is the value x, which is not NULL.
With(view, t, c, x) == {i \in Slots[t] : x # Null /\ view[t][i][c] = x}

SeasonsOf(view, s) == With(view, "seasons", "series", s)

EpisodesOf(view, s) == UNION {With(view, "episodes", "season", n) : n \in SeasonsOf(view, s)}

\* A season, an episode, by its number.
Numbered(view, t, parent, p, n) ==
  {i \in With(view, t, parent, p) : view[t][i].number = n}

NumberedSeasons(view, s, n) == Numbered(view, "seasons", "series", s, n)
NumberedEpisodes(view, p, n) == Numbered(view, "episodes", "season", p, n)

\* Rows that share their parent and their number.
TwinEpisodes(view) ==
  {i \in Existing(view, "episodes") :
     NumberedEpisodes(view, view.episodes[i].season, view.episodes[i].number) # {i}}

TwinSeasons(view) ==
  {i \in Existing(view, "seasons") :
     NumberedSeasons(view, view.seasons[i].series, view.seasons[i].number) # {i}}

\* A dictionary keyed by numbers keeps, of twins, the one that the query returns
\* last.  Which one that is, the database decides: late has one of each.
Lates(view) ==
  LET twins == TwinEpisodes(view) \cup TwinSeasons(view)
      alike(i) == IF i \in Slots.episodes
                  THEN NumberedEpisodes(view, view.episodes[i].season, view.episodes[i].number)
                  ELSE NumberedSeasons(view, view.seasons[i].series, view.seasons[i].number)
  IN  {late \in SUBSET twins : \A i \in twins : Cardinality(alike(i) \cap late) = 1}

LastOf(S, late) == IF S \cap late = {} THEN Max(S) ELSE Max(S \cap late)

-----------------------------------------------------------------------------
Live(r) == run[r] # NoRun

\* Runs may start and overlap at any time.  Bounds: a run starts beside another
\* only while there are few episodes and before a raced run has committed; after
\* that runs start one at a time, and only while there are few episodes.
MayStart(r) ==
  /\ ~Live(r)
  /\ Bounded =>
       LET few == Cardinality(Existing(db, "episodes")) <= MaxShared IN
       /\ \A q \in Runs : Live(q) => few /\ ~run[q].raced /\ ~crossed
       /\ crossed => few

At(r, place) == Live(r) /\ run[r].at = place

View(r) == Overlay(db, run[r].mine)

\* The rows that run r may add to table t.  Row ids come from a sequence that
\* all sessions share.
Room(r, t) ==
  {i \in Slots[t] : /\ ~Exists(db, t, i)
                    /\ \A q \in Runs \ {r} : Live(q) => ~Exists(run[q].mine, t, i)}

\* session.add: acc.view with one more row, acc.new.  Where the bound Slots
\* leaves no room, acc.full is set, and no step is taken.
Added(acc, t, values, room) ==
  LET free == {i \in room[t] : ~Exists(acc.view, t, i)} IN
  IF free = {} THEN [acc EXCEPT !.full = TRUE]
  ELSE [acc EXCEPT !.view = PutRow(acc.view, t, Min(free), Row(t, values)), !.new = Min(free)]

\* Has the run read nothing yet of what it will use?
Unread(r) == At(r, "listed") \/ At(r, "users")

\* A commit races every other live run that has read something.
Committed(r, next) ==
  [q \in Runs |-> IF q = r THEN next
                  ELSE IF Live(q) /\ ~Unread(q) THEN [run[q] EXCEPT !.raced = TRUE]
                  ELSE run[q]]
=============================================================================
