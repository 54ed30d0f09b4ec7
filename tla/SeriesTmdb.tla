------------------------------ MODULE SeriesTmdb ------------------------------
(***************************************************************************)
(* update_series_tmdb_metadata: all series with a TMDB id are read with    *)
(* their seasons and episodes, their payloads fetched concurrently, and    *)
(* the payloads applied, one series after the other, to the objects read   *)
(* at the start.  One commit ends the job.                                 *)
(*                                                                         *)
(* A season and an episode are known by their number, and get the TMDB id  *)
(* if they have none.  Both ids are unique columns.  The season's is       *)
(* flushed in a savepoint; the episode's is not, so that a duplicate ends  *)
(* the transaction with everything in it.                                  *)
(*                                                                         *)
(* The metadata itself is left out.                                        *)
(***************************************************************************)
EXTENDS SeriesTables

CONSTANTS
  Payloads,   \* Payloads[x]: what the bridge may answer for the TMDB id x:
              \* sequences of seasons with a number, a TMDB id and episodes
  NoPayload   \* an error, no answer, or an answer that does not validate

ASSUME SeriesTmdbAssumption ==
  \A x \in DOMAIN Payloads : \A payload \in Payloads[x] :
    /\ payload # NoPayload /\ payload \in Seq(Range(payload))
    /\ \A season \in Range(payload) :
         /\ season.number # Null /\ season.episodes \in Seq(Range(season.episodes))
         /\ \A ep \in Range(season.episodes) : ep.number # Null

Payload(x) == {NoPayload} \cup IF x \in DOMAIN Payloads THEN Payloads[x] ELSE {}

-----------------------------------------------------------------------------
(* One job.  Plausible bugs, which no specification uses, stand before the  *)
(* definitions they spoil.  acc.view is what the session holds in memory.   *)

\* What the flush would leave in the tables.
Flushed(acc, seen) == Overlay(db, Changes(seen, acc.view))

Filled(acc, t, i, x) ==
  IF acc.view[t][i].tmdb = Null THEN [acc EXCEPT !.view = Put(acc.view, t, i, "tmdb", x)] ELSE acc

\* Bug: existing_by_num is built without the episodes that have another source.
TmdbEpisodeOwn(view, acc, season, ep, late, room) ==
  LET known == {i \in NumberedEpisodes(view, season, ep.number) :
                  view.episodes[i].jellyfin = Null}
  IN  IF known # {} THEN Filled(acc, "episodes", LastOf(known, late), ep.tmdb)
      ELSE Added(acc, "episodes",
             [season |-> season, number |-> ep.number, tmdb |-> ep.tmdb], room)

\* One turn of _process_episodes: known by its number when the loop began, in
\* view, or new.
TmdbEpisode(view, acc, season, ep, late, room) ==
  LET known == NumberedEpisodes(view, season, ep.number) IN
  IF known # {} THEN Filled(acc, "episodes", LastOf(known, late), ep.tmdb)
  ELSE Added(acc, "episodes",
         [season |-> season, number |-> ep.number, tmdb |-> ep.tmdb], room)

EpisodeTurns(before, season, episodes, late, room) ==
  LET acc[n \in 0..Len(episodes)] ==
        IF n = 0 THEN before
        ELSE TmdbEpisode(before.view, acc[n - 1], season, episodes[n], late, room)
  IN  acc

TmdbEpisodes(before, season, episodes, late, room) ==
  EpisodeTurns(before, season, episodes, late, room)[Len(episodes)]

\* Bug: no savepoint.
TmdbSeasonBare(before, s, payload, seen, late, room) ==
  LET known == NumberedSeasons(before.view, s, payload.number)
      acc == IF known # {} THEN [before EXCEPT !.new = LastOf(known, late)]
             ELSE Added(before, "seasons", [series |-> s, number |-> payload.number], room)
  IN  IF before.left \/ before.full THEN before
      ELSE IF acc.full THEN acc
      ELSE TmdbEpisodes(Filled(acc, "seasons", acc.new, payload.tmdb), acc.new,
                        payload.episodes, late, room)

\* One turn of _process_seasons.  If the season's id is a duplicate, the
\* savepoint is rolled back, and with it the season object expires: the log line
\* in the handler reads season.id, a lazy load outside the greenlet, and the
\* exception it raises ends the update of this series.
TmdbSeason(before, s, payload, seen, late, room) ==
  LET known == NumberedSeasons(before.view, s, payload.number)
      acc == IF known # {} THEN [before EXCEPT !.new = LastOf(known, late)]
             ELSE Added(before, "seasons", [series |-> s, number |-> payload.number], room)
      tagged == Filled(acc, "seasons", acc.new, payload.tmdb)
      duplicate ==
        \E i \in Slots.seasons \ {acc.new} :
          /\ tagged.view.seasons[acc.new].tmdb # acc.view.seasons[acc.new].tmdb
          /\ Flushed(acc, seen).seasons[i].tmdb = payload.tmdb
  IN  IF before.left \/ before.full THEN before
      ELSE IF acc.full THEN acc
      ELSE IF duplicate THEN [acc EXCEPT !.left = TRUE, !.hurt = @ \cup {s}]
      ELSE TmdbEpisodes(tagged, acc.new, payload.episodes, late, room)

\* _apply_tmdb_series_update
PayloadTurns(before, s, payload, seen, late, room) ==
  LET acc[n \in 0..Len(payload)] ==
        IF n = 0 THEN [before EXCEPT !.left = FALSE]
        ELSE TmdbSeason(acc[n - 1], s, payload[n], seen, late, room)
  IN  acc

TmdbSeries(before, s, payload, seen, late, room) ==
  IF payload = NoPayload THEN before
  ELSE PayloadTurns(before, s, payload, seen, late, room)[Len(payload)]

\* The series are updated in the order in which the query returned them.
TmdbTurns(seen, payload, order, late, room) ==
  LET acc[n \in 0..Len(order)] ==
        IF n = 0 THEN [view |-> seen, full |-> FALSE, new |-> 0, left |-> FALSE, hurt |-> {}]
        ELSE TmdbSeries(acc[n - 1], order[n], payload[order[n]], seen, late, room)
  IN  acc

TmdbOutcome(seen, payload, order, late, room) ==
  TmdbTurns(seen, payload, order, late, room)[Len(order)]

\* The series that the query finds.
Named(seen) == {s \in Slots.series : seen.series[s].tmdb # Null}

\* What the bridge may have answered for each of them.
TmdbAnswers(seen) ==
  {payload \in [Named(seen) -> UNION {Payload(seen.series[s].tmdb) : s \in Named(seen)}] :
     \A s \in Named(seen) : payload[s] \in Payload(seen.series[s].tmdb)}

\* The outcomes of the loop; the orders in which the database returned the series,
\* and the objects of a collection (late), are drawn here as well.
TmdbOutcomes(r) ==
  {TmdbOutcome(run[r].seen, payload, order, late, [t \in Tables |-> Room(r, t)]) :
     payload \in TmdbAnswers(run[r].seen), order \in SetToSeqs(Named(run[r].seen)),
     late \in Lates(run[r].seen)}

\* A duplicate episode id fails a flush outside any savepoint: the transaction
\* is over, every later series fails in its turn, and the commit raises.
Spoiled(r, acc) == ~Unique(Flushed(acc, run[r].seen))

-----------------------------------------------------------------------------
\* The query.
StartTmdb(r) ==
  /\ MayStart(r)
  /\ run' = [run EXCEPT ![r] =
       [kind |-> "tmdb", at |-> "fetch", seen |-> db, mine |-> Nothing, raced |-> FALSE]]
  /\ UNCHANGED <<db, watch, crossed>>

\* Everything from the fetches to the commit: what is flushed in between, nobody
\* else sees.
TmdbCommits(r) ==
  /\ At(r, "fetch")
  /\ \E acc \in TmdbOutcomes(r) :
       /\ ~acc.full /\ ~Spoiled(r, acc)
       /\ db' = Flushed(acc, run[r].seen)
  /\ run' = Committed(r, NoRun)
  /\ crossed' = (crossed \/ run[r].raced)
  /\ UNCHANGED watch

\* The job raises.
TmdbFails(r) ==
  /\ At(r, "fetch")
  /\ Faults \/ \E acc \in TmdbOutcomes(r) : Spoiled(r, acc)
  /\ run' = [run EXCEPT ![r] = NoRun]
  /\ UNCHANGED <<db, watch, crossed>>
=============================================================================
