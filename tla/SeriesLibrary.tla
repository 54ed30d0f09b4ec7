----------------------------- MODULE SeriesLibrary -----------------------------
(***************************************************************************)
(* The series library: the imports from Sonarr and Jellyfin, the TMDB      *)
(* update and the watch sync over the same tables, in overlapping runs.    *)
(***************************************************************************)
EXTENDS SeriesImports, SeriesTmdb, SeriesWatches

Init ==
  /\ db = Nothing
  /\ watch = [u \in Users |-> <<>>]
  /\ run = [r \in Runs |-> NoRun]
  /\ crossed = FALSE

Next ==
  \E r \in Runs :
    \/ \E kind \in ImportKinds :
         \/ StartImport(r, kind)
         \/ \E item \in Items[kind] : ImportSkips(r, item) \/ ImportSeries(r, item)
    \/ ImportEpisodes(r) \/ ImportCommits(r) \/ ImportFails(r)
    \/ StartTmdb(r) \/ TmdbCommits(r) \/ TmdbFails(r)
    \/ StartWatch(r)
    \/ \E u \in Users : ListsNothing(r, u) \/ ReadsLibrary(r, u) \/ ListingFails(r, u)
    \/ ReadsRows(r) \/ WatchCommits(r) \/ WatchFails(r)

Spec == Init /\ [][Next]_vars

-----------------------------------------------------------------------------
(* Types.                                                                   *)

\* Rows have values only in slots of their table, a season or an episode always
\* has its parent, and a live run is of a known kind.
TypeOK ==
  /\ \A t \in Tables : \A i \in Slots[t] : DOMAIN db[t][i] = Columns[t]
  /\ \A i \in Existing(db, "seasons") : db.seasons[i].series \in Existing(db, "series")
  /\ \A i \in Existing(db, "episodes") : db.episodes[i].season \in Existing(db, "seasons")
  /\ \A u \in Users : \A n \in DOMAIN watch[u] :
       watch[u][n] \in [episode : Existing(db, "episodes"), status : Statuses \cup {Dropped}]
  /\ \A r \in Runs : Live(r) => /\ run[r].kind \in ImportKinds \cup {"tmdb", "watch"}
                                /\ run[r].raced \in BOOLEAN
  /\ crossed \in BOOLEAN

-----------------------------------------------------------------------------
(* What the jobs promise each other.  A run that another commit raced works *)
(* on what is no longer there, and is left out.                             *)

\* The step is one of r, which nothing has raced.
Steps(r) == Live(r) /\ ~run[r].raced /\ run'[r] \notin {run[r], [run[r] EXCEPT !.raced = TRUE]}

\* An id that the answer has twice.
ListsTwice(episodes) ==
  \E m, n \in DOMAIN episodes : m # n /\ episodes[m].id = episodes[n].id

\* Three jobs create seasons and episodes, each with ids of its own.  None
\* creates a season that the series has under its number already, and
\* neither Jellyfin nor TMDB such an episode (test_save_jellyfin_series.py:186
\* and :235, test_tmdb_metadata_update_job.py:559), unless Jellyfin lists one
\* episode under two numbers; Sonarr, which looks for the sonarr_id alone, does.
CreatesOnlyMissing ==
  [][\A r \in Runs : Steps(r) =>
       LET before == View(r)
           after == Overlay(db', IF run'[r] = NoRun THEN Nothing ELSE run'[r].mine)
           new(t) == Existing(after, t) \ Existing(before, t)
           twice == run[r].at = "episodes" /\ ListsTwice(run[r].item.episodes)
       IN  /\ new("seasons") \cap TwinSeasons(after) = {}
           /\ run[r].kind # "sonarr" /\ ~twice => \A i \in new("episodes") :
                NumberedEpisodes(before, after.episodes[i].season, after.episodes[i].number) = {}]_vars

\* What one job has identified, no other re-identifies: an id, once set, is only
\* changed by the watch sync, which heals Jellyfin's.  Rows move only to follow
\* their own source: an episode gets another number from Sonarr or Jellyfin,
\* another season from Sonarr.
LibraryIdsAreKept ==
  [][\A r \in Runs : Steps(r) =>
       \A t \in Tables : \A i \in Existing(db, t) : \A c \in Columns[t] :
         \/ db[t][i][c] \in {Null, db'[t][i][c]}
         \/ run[r].kind = "watch" /\ c = "jellyfin"
         \/ t = "episodes" /\ <<run[r].kind, c>> \in
              {<<"sonarr", "season">>, <<"sonarr", "number">>, <<"jellyfin", "number">>}]_vars

\* The episodes that stand where ep says.
EpisodesAt(view, s, ep) ==
  UNION {NumberedEpisodes(view, p, ep.number) : p \in NumberedSeasons(view, s, ep.season)}

\* No two rows stand in one place.
NoTwins(view) == TwinEpisodes(view) \cup TwinSeasons(view) = {}

\* Does Jellyfin have an episode that the library knows by its id elsewhere?
\* The import looks an episode up under the number it had before
\* (import_jellyfin_series_service.py:122).
Moved(view, s, episodes) ==
  \E n \in DOMAIN episodes :
    ~(With(view, "episodes", "jellyfin", episodes[n].id) \subseteq EpisodesAt(view, s, episodes[n]))

\* Does the import know where each episode of the answer belongs?
Consistent(view, kind, s, episodes) ==
  /\ ~ListsTwice(episodes)
  /\ kind = "jellyfin" => ~Moved(view, s, episodes)

\* Is each episode of the item that run r has in hand where its source puts it?
\* Sonarr's, of the seasons it lists, has its sonarr_id there.  Jellyfin's has a
\* jellyfin_id there: its own, that of another version listed for the same place,
\* or an older one.
HoldsListed(r, after) ==
  LET item == run[r].item
      eps == item.episodes
      s == run[r].series
      versions(ep) == {eps[n].id : n \in {n \in DOMAIN eps :
                         eps[n].season = ep.season /\ eps[n].number = ep.number}}
  IN  \A n \in DOMAIN eps :
        \/ run[r].kind = "sonarr" /\ (item.ids.sonarr = Null \/ eps[n].season \notin item.seasons)
        \/ \E i \in EpisodesAt(after, s, eps[n]) :
             IF run[r].kind = "sonarr" THEN after.episodes[i].sonarr = eps[n].id
             ELSE after.episodes[i].jellyfin \in
                    (versions(eps[n]) \cup {View(r).episodes[i].jellyfin}) \ {Null}

\* Every episode of an item ends where its source puts it: no import leaves one
\* out, or in the season or under the number it had before, unless Jellyfin has
\* moved its ids.
ListedEpisodesAreHeld ==
  \A r \in Runs : At(r, "episodes") /\ ~run[r].raced =>
    (Consistent(View(r), run[r].kind, run[r].series, run[r].item.episodes) =>
       \A late \in Lates(View(r)) : LET after == EpisodesImported(r, late) IN
         ~after.full => HoldsListed(r, after.view))

\* An item taken a second time.
Reimported(view, kind, item, s, late, room) ==
  LET filled == FilledSeries(view, kind, s, item.ids)
      seasons == AddedSeasons(filled, s, item.seasons, late, room)
  IN  IF kind = "jellyfin" THEN AfterJellyfin(filled, s, item.episodes, late, room)
      ELSE IF item.ids.sonarr = Null THEN Bare(filled)
      ELSE AfterSonarr(seasons.view, SeasonsByNumber(seasons.view, s, late), item.episodes, room)

\* Does the import come back to the rows it has left?  An answer that lists an id
\* twice is left out.  Sonarr's import, which looks for the sonarr_id alone, does
\* unless two seasons share a number.  Jellyfin's, which looks for numbers too,
\* does unless two rows share one, or the answer has ids that the library had
\* elsewhere: of <<y at 1, x at 2>>, with x at 1, the first import moves x and
\* has no row for y, the second makes one
\* (import_jellyfin_series_service.py:113-124).
Steady(r, after) ==
  LET item == run[r].item IN
  /\ ~ListsTwice(item.episodes)
  /\ run[r].kind = "sonarr" => TwinSeasons(after) = {}
  /\ run[r].kind = "jellyfin" =>
       NoTwins(after) /\ ~Moved(View(r), run[r].series, item.episodes)

\* Does the item that run r has in hand, taken again, change nothing?
SettlesItem(r, after) ==
  \A again \in Lates(after) :
    Reimported(after, run[r].kind, run[r].item, run[r].series, again,
               [t \in Tables |-> Room(r, t)]).view = after

\* The imports run every few hours on an unchanged list.  The second import of an
\* item finds the series of the first, whatever the answer, and changes nothing
\* if the first can be committed and is steady.
ReimportSettles ==
  \A r \in Runs : At(r, "episodes") /\ ~run[r].raced =>
    \A late \in Lates(View(r)) : LET after == EpisodesImported(r, late) IN
      ~after.full =>
        /\ Candidates(after.view, run[r].kind, run[r].item.ids) = {run[r].series}
        /\ Unique(after.view) /\ Steady(r, after.view) => SettlesItem(r, after.view)

-----------------------------------------------------------------------------
(* What a pass of the watch sync does, at the point where all that it       *)
(* depends on is read: for every way it may go from here.                   *)

Decided(r) == At(r, "rows") /\ ~run[r].raced

\* Where the answer puts an item, if the series of both are known.
Place(of, item) == <<of[item.series], item.season, item.number>>

\* An id of the answer that the library, or the answer itself, has elsewhere.
Misplaced(seen, listing, of) ==
  LET items == {item \in Range(listing.episodes) : item.series \in DOMAIN of} IN
  \E item \in items :
    \/ ~(With(seen, "episodes", "jellyfin", item.id) \subseteq
            EpisodesAt(seen, of[item.series], item))
    \/ ~(With(seen, "seasons", "jellyfin", item.of) \subseteq
            NumberedSeasons(seen, of[item.series], item.season))
    \/ \E other \in items :
         \/ item.id = other.id /\ Place(of, item) # Place(of, other)
         \/ /\ item.of = other.of /\ item.of # Null
            /\ <<of[item.series], item.season>> # <<of[other.series], other.season>>

\* One refused heal loses the pass and all users after it.  It takes an id that
\* Jellyfin has moved, or two rows for one episode.
HealsCollideOnlyWhenMoved ==
  \A r \in Runs : Decided(r) => \A p \in Passes(r) :
    Refused(r, PassOutcome(r, p)) =>
      \/ ~NoTwins(db)
      \/ Misplaced(db, p.listing, SeriesHealed(db, p.listing, p.order).of)

OneEach(seq) == \A m, n \in DOMAIN seq : seq[m].episode = seq[n].episode => m = n

\* The rows after a pass: of an episode that the answer has, the answer's status,
\* in a row that is there only if it was, or the episode has been begun; of any
\* other, WATCHED if it was, else DROPPED.  And no episode gets a second row,
\* whatever the sync has dropped and taken up again: watch_history has no unique
\* constraint.  Jellyfin may list two versions of one episode as two items; then
\* each adds a row (sync_jellyfin_watched_series_service.py:264).
RowsFollowJellyfin ==
  \A r \in Runs :
    Decided(r) /\ NoTwins(db) /\ OneEach(watch[run[r].user]) =>
    \A p \in Passes(r) :
      LET acc == PassOutcome(r, p)
          of == SeriesHealed(db, p.listing, p.order).of
          before == watch[run[r].user]
          after == RowsWritten(before, p.pick, run[r].loaded, acc)
          statuses(rows, i) == {rows[n].status : n \in {n \in DOMAIN rows : rows[n].episode = i}}
          items(i) == {n \in DOMAIN p.listing.episodes : LET ep == p.listing.episodes[n] IN
                         ep.series \in DOMAIN of /\ i \in EpisodesAt(db, of[ep.series], ep)}
          listed(i) == {p.listing.episodes[n].status : n \in items(i)}
      IN  (\A i \in Slots.episodes : \A m, n \in items(i) : m = n) =>
            /\ OneEach(after)
            /\ \A i \in Slots.episodes :
                 statuses(after, i) =
                   IF listed(i) # {}
                   THEN IF statuses(before, i) # {} THEN listed(i) ELSE listed(i) \cap Begun
                   ELSE {IF st = Watched THEN st ELSE Dropped : st \in statuses(before, i)}

-----------------------------------------------------------------------------
\* What a TMDB update comes to, for every answer: only an episode id that is
\* taken can lose the job, and a series is brought up to its payload unless a
\* season id of it is taken.
TmdbLosesOnlyDuplicates ==
  \A r \in Runs : At(r, "fetch") /\ ~run[r].raced =>
    \A payload \in TmdbAnswers(db) : \A order \in SetToSeqs(Named(db)) : \A late \in Lates(db) :
      LET acc == TmdbOutcome(db, payload, order, late, [t \in Tables |-> Room(r, t)])
          after == Flushed(acc, db)
      IN  ~acc.full =>
            /\ Unique([after EXCEPT !.episodes =
                          [i \in Slots.episodes |-> [after.episodes[i] EXCEPT !.tmdb = Null]]])
            /\ \A s \in DOMAIN payload \ acc.hurt : payload[s] # NoPayload =>
                 \A season \in Range(payload[s]) : \A ep \in Range(season.episodes) :
                   EpisodesAt(after, s, [season |-> season.number, number |-> ep.number]) # {}
=============================================================================
