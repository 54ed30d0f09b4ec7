----------------------------- MODULE SeriesImports -----------------------------
(***************************************************************************)
(* The imports of series from Sonarr and from Jellyfin.  Each takes one    *)
(* list of series.  A series is found by the own id of the service or by   *)
(* the external ids, filled or created, and its episodes are fetched and   *)
(* brought in line; the whole list is one transaction.                     *)
(*                                                                         *)
(* The services know episodes differently: Sonarr by sonarr_id alone,      *)
(* Jellyfin by jellyfin_id or by number.                                   *)
(*                                                                         *)
(* An item of a list has the identifiers of a series, the season numbers   *)
(* Sonarr lists for it, and its episodes, with the Jellyfin ids of their   *)
(* seasons (of).  Items and episodes that the code skips because a title   *)
(* or a number is missing are left out.                                    *)
(***************************************************************************)
EXTENDS SeriesTables

CONSTANTS
  Items,    \* Items[kind]: what the list of a service may hold
  MaxItems  \* bound: the length of a list

ImportKinds == {"sonarr", "jellyfin"}  \* each is the column of its own id as well

\* What the code does not skip has a number and an id.
ASSUME SeriesImportsAssumption ==
  /\ MaxItems \in Nat
  /\ \A kind \in ImportKinds : \A item \in Items[kind] :
       /\ DOMAIN item.ids = Columns.series
       /\ IsFiniteSet(item.seasons) /\ Null \notin item.seasons
       /\ item.episodes \in Seq(Range(item.episodes))
       /\ \A ep \in Range(item.episodes) : Null \notin {ep.id, ep.season, ep.number}

\* The identifiers each import writes; Sonarr's tmdbId serves the search only.
Fills == [sonarr   |-> {"sonarr", "tvdb", "imdb"},
          jellyfin |-> {"jellyfin"} \cup External]

-----------------------------------------------------------------------------
(* The series of an item.  Plausible bugs, which no specification uses,     *)
(* stand before the definitions they spoil.                                 *)

Matching(view, cols, ids) == UNION {With(view, "series", c, ids[c]) : c \in cols}

\* _find_series_by_sonarr_id, _find_series_by_jellyfin_id, and then
\* find_series_by_external_ids, one query with OR.
Candidates(view, kind, ids) ==
  IF Matching(view, {kind}, ids) # {} THEN Matching(view, {kind}, ids)
  ELSE Matching(view, External, ids)

\* scalar_one_or_none raises MultipleResultsFound.
Ambiguous(view, kind, ids) == Cardinality(Candidates(view, kind, ids)) > 1

\* Bug: the identifiers of the item replace those of the series.
FilledSeriesOver(view, kind, s, ids) ==
  PutRow(view, "series", s, [c \in Columns.series |->
    IF c \in Fills[kind] /\ ids[c] # Null THEN ids[c] ELSE view.series[s][c]])

\* update_existing_series sets an identifier only where there is none;
\* create_new_series does the same to a blank row.
FilledSeries(view, kind, s, ids) ==
  PutRow(view, "series", s, [c \in Columns.series |->
    IF c \in Fills[kind] /\ view.series[s][c] = Null THEN ids[c] ELSE view.series[s][c]])

Nameless(kind, ids) == \A c \in Fills[kind] : ids[c] = Null

\* The season rows by number, as the dictionary of a query has them.
SeasonsByNumber(view, s, late) ==
  [n \in {view.seasons[i].number : i \in SeasonsOf(view, s)} |->
     LastOf(NumberedSeasons(view, s, n), late)]

Bare(view) == [view |-> view, full |-> FALSE, new |-> 0]

\* What there is after each turn of the loop that adds seasons.
SeasonTurns(view, s, numbers, room) ==
  LET acc[n \in 0..Len(numbers)] ==
        IF n = 0 THEN Bare(view)
        ELSE Added(acc[n - 1], "seasons", [series |-> s, number |-> numbers[n]], room)
  IN  acc

AfterSeasons(view, s, numbers, room) == SeasonTurns(view, s, numbers, room)[Len(numbers)]

\* Bug: the seasons are not looked up first.
AddedSeasonsAll(view, s, numbers, late, room) ==
  AfterSeasons(view, s, SetToSeq(numbers), room)

\* Sonarr's import adds the seasons that the series lacks.
AddedSeasons(view, s, numbers, late, room) ==
  AfterSeasons(view, s, SetToSeq(numbers \ DOMAIN SeasonsByNumber(view, s, late)), room)

-----------------------------------------------------------------------------
(* The episodes of an item.                                                 *)

\* Bug: an episode refers to its season by number.
SonarrEpisodeBySeasonNumber(acc, ep, seasons, room) ==
  IF ep.season \notin DOMAIN seasons \/ With(acc.view, "episodes", "sonarr", ep.id) # {} THEN acc
  ELSE Added(acc, "episodes",
         [season |-> ep.season, number |-> ep.number, sonarr |-> ep.id], room)

\* Bug: a known episode stays in the season it was in.
SonarrEpisodeStays(acc, ep, seasons, room) ==
  LET known == With(acc.view, "episodes", "sonarr", ep.id) IN
  IF ep.season \notin DOMAIN seasons THEN acc
  ELSE IF known = {}
  THEN Added(acc, "episodes",
         [season |-> seasons[ep.season], number |-> ep.number, sonarr |-> ep.id], room)
  ELSE [acc EXCEPT !.view = Put(acc.view, "episodes", Min(known), "number", ep.number)]

\* Sonarr: known by sonarr_id, in whichever season it is, or new.
SonarrEpisode(acc, ep, seasons, room) ==
  LET known == With(acc.view, "episodes", "sonarr", ep.id) IN
  IF ep.season \notin DOMAIN seasons THEN acc
  ELSE IF known = {}
  THEN Added(acc, "episodes",
         [season |-> seasons[ep.season], number |-> ep.number, sonarr |-> ep.id], room)
  ELSE [acc EXCEPT !.view = Put(Put(acc.view, "episodes", Min(known), "season", seasons[ep.season]),
                                "episodes", Min(known), "number", ep.number)]

SonarrTurns(view, seasons, episodes, room) ==
  LET acc[n \in 0..Len(episodes)] ==
        IF n = 0 THEN Bare(view) ELSE SonarrEpisode(acc[n - 1], episodes[n], seasons, room)
  IN  acc

AfterSonarr(view, seasons, episodes, room) ==
  SonarrTurns(view, seasons, episodes, room)[Len(episodes)]

\* Jellyfin: the three dictionaries, of the seasons that the first one keeps.
JellyfinIndexes(view, s, late) ==
  LET seasons == SeasonsByNumber(view, s, late)
      kept == {seasons[n] : n \in DOMAIN seasons}
      loaded == {i \in Existing(view, "episodes") : view.episodes[i].season \in kept}
      tagged == {i \in loaded : view.episodes[i].jellyfin # Null}
      place(i) == <<view.episodes[i].season, view.episodes[i].number>>
  IN  [view |-> view, full |-> FALSE, new |-> 0, seasons |-> seasons,
       byId |-> [x \in {view.episodes[i].jellyfin : i \in tagged} |->
                   Min({i \in tagged : view.episodes[i].jellyfin = x})],
       byNumber |-> [p \in {place(i) : i \in loaded} |->
                       LastOf({i \in loaded : place(i) = p}, late)]]

\* The season of an episode: created, or its jellyfin_id filled.
JellyfinSeason(acc, s, ep, room) ==
  IF acc.full THEN acc
  ELSE IF ep.season \in DOMAIN acc.seasons
  THEN IF acc.view.seasons[acc.seasons[ep.season]].jellyfin = Null
       THEN [acc EXCEPT !.view = Put(acc.view, "seasons", acc.seasons[ep.season], "jellyfin", ep.of)]
       ELSE acc
  ELSE LET more == Added(acc, "seasons",
                     [series |-> s, number |-> ep.season, jellyfin |-> ep.of], room)
       IN  IF more.full THEN more
           ELSE [more EXCEPT !.seasons = Also(more.seasons, ep.season, more.new)]

\* Bug: episodes are looked up by their jellyfin_id only.
JellyfinEpisodeById(before, s, ep, room) ==
  LET acc == JellyfinSeason(before, s, ep, room)
      new == Added(acc, "episodes",
               [season |-> acc.seasons[ep.season], number |-> ep.number, jellyfin |-> ep.id], room)
  IN  IF acc.full \/ ep.id \in DOMAIN acc.byId THEN acc
      ELSE [new EXCEPT !.byId = Also(new.byId, ep.id, new.new)]

\* The episode: known by its id, else by its number, or new.  byNumber keeps an
\* episode under the number it had.
JellyfinEpisode(before, s, ep, room) ==
  LET acc == JellyfinSeason(before, s, ep, room)
      place == <<acc.seasons[ep.season], ep.number>>
      i == IF ep.id \in DOMAIN acc.byId THEN acc.byId[ep.id] ELSE acc.byNumber[place]
      fills == acc.view.episodes[i].jellyfin = Null
      new == Added(acc, "episodes",
               [season |-> place[1], number |-> ep.number, jellyfin |-> ep.id], room)
  IN  IF acc.full THEN acc
      ELSE IF ep.id \in DOMAIN acc.byId \/ place \in DOMAIN acc.byNumber
      THEN [acc EXCEPT
              !.view = Put(IF fills THEN Put(acc.view, "episodes", i, "jellyfin", ep.id)
                           ELSE acc.view, "episodes", i, "number", ep.number),
              !.byId = IF fills THEN Also(acc.byId, ep.id, i) ELSE acc.byId]
      ELSE [new EXCEPT !.byId = Also(new.byId, ep.id, new.new),
                       !.byNumber = Also(new.byNumber, place, new.new)]

JellyfinTurns(view, s, episodes, late, room) ==
  LET acc[n \in 0..Len(episodes)] ==
        IF n = 0 THEN JellyfinIndexes(view, s, late)
        ELSE JellyfinEpisode(acc[n - 1], s, episodes[n], room)
  IN  acc

AfterJellyfin(view, s, episodes, late, room) ==
  JellyfinTurns(view, s, episodes, late, room)[Len(episodes)]

-----------------------------------------------------------------------------
(* The steps of a run.  What the unique indexes refuse at a flush is        *)
(* refused here at the commit: in between, nobody else sees it.             *)

StartImport(r, kind) ==
  /\ MayStart(r)
  /\ run' = [run EXCEPT ![r] =
       [kind |-> kind, at |-> "listed", done |-> <<>>, mine |-> Nothing, raced |-> FALSE]]
  /\ UNCHANGED <<db, watch, crossed>>

\* The list was fetched at the start; an item is drawn where the loop comes to it.
NextItem(r, item) ==
  /\ At(r, "listed") \/ At(r, "series")
  /\ item \in Items[run[r].kind]
  /\ Len(run[r].done) < MaxItems

\* On to the next item.
ItemDone(r, item, view) ==
  [kind |-> run[r].kind, at |-> "series", done |-> Append(run[r].done, item),
   mine |-> Changes(db, view), raced |-> run[r].raced]

\* An item that is not found and has no identifier the import writes.
ImportSkips(r, item) ==
  /\ NextItem(r, item)
  /\ Candidates(View(r), run[r].kind, item.ids) = {}
  /\ Nameless(run[r].kind, item.ids)
  /\ run' = [run EXCEPT ![r] = ItemDone(r, item, View(r))]
  /\ UNCHANGED <<db, watch, crossed>>

\* The series is found or created; Sonarr's seasons as well, unless Sonarr gave
\* the series no id.  Then the episodes are fetched.
ImportSeries(r, item) ==
  /\ NextItem(r, item)
  /\ ~Ambiguous(View(r), run[r].kind, item.ids)
  /\ LET kind == run[r].kind
         found == Candidates(View(r), kind, item.ids)
         room == [t \in Tables |-> Room(r, t)]
         free == {i \in room.series : ~Exists(View(r), "series", i)}
         listed == kind = "sonarr" /\ item.ids.sonarr # Null
     IN  /\ found # {} \/ (~Nameless(kind, item.ids) /\ free # {})
         /\ \E late \in Lates(View(r)) :
            LET s == IF found # {} THEN Min(found) ELSE Min(free)
                filled == FilledSeries(View(r), kind, s, item.ids)
                after == AddedSeasons(filled, s, IF listed THEN item.seasons ELSE {}, late, room)
            IN  /\ ~after.full
                /\ run' = [run EXCEPT ![r] =
                     [kind |-> kind, at |-> "episodes", done |-> @.done, item |-> item,
                      series |-> s,
                      seasons |-> IF listed THEN SeasonsByNumber(after.view, s, late) ELSE <<>>,
                      mine |-> Changes(db, after.view), raced |-> @.raced]]
  /\ UNCHANGED <<db, watch, crossed>>

\* What the episodes of the item make of the view.
EpisodesImported(r, late) ==
  LET room == [t \in Tables |-> Room(r, t)]
      eps == run[r].item.episodes
  IN  IF run[r].kind = "sonarr" THEN AfterSonarr(View(r), run[r].seasons, eps, room)
      ELSE AfterJellyfin(View(r), run[r].series, eps, late, room)

ImportEpisodes(r) ==
  /\ At(r, "episodes")
  /\ \E late \in Lates(View(r)) : LET after == EpisodesImported(r, late) IN
       /\ ~after.full
       /\ run' = [run EXCEPT ![r] = ItemDone(r, run[r].item, after.view)]
  /\ UNCHANGED <<db, watch, crossed>>

ImportCommits(r) ==
  /\ At(r, "listed") \/ At(r, "series")
  /\ Unique(View(r))
  /\ db' = View(r)
  /\ run' = Committed(r, NoRun)
  /\ crossed' = (crossed \/ run[r].raced)
  /\ UNCHANGED watch

\* The search raises, a unique index refuses a flush, or something else fails:
\* everything is rolled back.
ImportFails(r) ==
  /\ Live(r) /\ run[r].kind \in ImportKinds
  /\ \/ Faults
     \/ ~Unique(View(r))
     \/ \E item \in Items[run[r].kind] :
          NextItem(r, item) /\ Ambiguous(View(r), run[r].kind, item.ids)
  /\ run' = [run EXCEPT ![r] = NoRun]
  /\ UNCHANGED <<db, watch, crossed>>
=============================================================================
