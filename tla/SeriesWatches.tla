----------------------------- MODULE SeriesWatches -----------------------------
(***************************************************************************)
(* sync_jellyfin_watched_series: the watch_history rows of every user are  *)
(* brought in line with the episodes Jellyfin lists for that user, one     *)
(* user, and one transaction, after the other.  Series are found by the    *)
(* id Jellyfin gives them or by their external ids, episodes by series,    *)
(* season number and number; the Jellyfin ids of all three are healed.     *)
(*                                                                         *)
(* An answer is a list of episodes (its id, the ids of its series and      *)
(* season, its numbers, the status its user data amounts to), and the      *)
(* external ids that fetch_jellyfin_series_by_ids gives for the series.    *)
(*                                                                         *)
(* Left out: playback ticks and watched_at, which follow the status, and   *)
(* is_manual, which no code of the repository ever sets.                   *)
(***************************************************************************)
EXTENDS SeriesTables

CONSTANTS
  Listings,  \* what Jellyfin may answer for a user
  Begun,     \* the statuses that make a new row: WATCHED and WATCHING, not PLANNED
  MaxRows    \* bound: no run starts once a user has more rows than this

ASSUME SeriesWatchesAssumption ==
  /\ Begun \subseteq Statuses /\ MaxRows \in Nat
  /\ \A listing \in Listings :
       /\ listing.episodes \in Seq(Range(listing.episodes))
       /\ \A item \in Range(listing.episodes) :
            item.status \in Statuses /\ Null \notin {item.id, item.series}

\* A run that has these users left; open says whether its session is in a
\* transaction.
WithUsers(left, open) ==
  IF left = {} THEN NoRun
  ELSE [kind |-> "watch", at |-> "users", left |-> left, open |-> open, mine |-> Nothing,
        raced |-> FALSE]

-----------------------------------------------------------------------------
(* What one user's pass computes.  Plausible bugs, which no specification   *)
(* uses, stand before the definitions they spoil.                           *)

\* resolve_series_from_indexes; byId is by_jf_id with the ids healed so far.
ResolvedSeries(view, byId, listing, x) ==
  LET by(c) == IF x \in DOMAIN listing.providers
               THEN With(view, "series", c, listing.providers[x][c]) ELSE {}
  IN  IF x \in DOMAIN byId THEN {byId[x]}
      ELSE IF by("tvdb") # {} THEN by("tvdb") ELSE by("imdb")

\* One series of the answer is resolved, and its jellyfin_id healed.
HealedSeries(seen, listing, acc, x) ==
  LET found == ResolvedSeries(seen, acc.byId, listing, x) IN
  IF found = {} THEN acc
  ELSE [acc EXCEPT !.view = Put(acc.view, "series", Min(found), "jellyfin", x),
                   !.byId = Also(acc.byId, x, Min(found)),
                   !.of = Also(acc.of, x, Min(found))]

HealTurns(seen, listing, order) ==
  LET acc[n \in 0..Len(order)] ==
        IF n = 0
        THEN [view |-> seen, of |-> <<>>,
              byId |-> [x \in {seen.series[s].jellyfin : s \in Slots.series} \ {Null} |->
                          Min(With(seen, "series", "jellyfin", x))]]
        ELSE HealedSeries(seen, listing, acc[n - 1], order[n])
  IN  acc

SeriesHealed(seen, listing, order) == HealTurns(seen, listing, order)[Len(order)]

\* Bug: the season number is left out of the key.
TripleWithoutSeason(view, s, item) ==
  {i \in EpisodesOf(view, s) : view.episodes[i].number = item.number}

\* episodes_by_triple, by (series, season number, number)
Triple(view, s, item) ==
  UNION {NumberedEpisodes(view, p, item.number) : p \in NumberedSeasons(view, s, item.season)}

\* The episode of an item, or 0.
EpisodeOf(acc, late, item) ==
  IF item.series \notin DOMAIN acc.of THEN 0
  ELSE LET found == Triple(acc.view, acc.of[item.series], item)
       IN  IF found = {} THEN 0 ELSE LastOf(found, late)

HealedEpisode(view, i, item) ==
  LET healed == Put(view, "episodes", i, "jellyfin", item.id) IN
  IF item.of = Null THEN healed
  ELSE Put(healed, "seasons", view.episodes[i].season, "jellyfin", item.of)

\* One turn of the loop over the episodes.
Processed(pick, late, acc, item) ==
  LET i == EpisodeOf(acc, late, item) IN
  IF i = 0 THEN acc
  ELSE [acc EXCEPT
    !.view = HealedEpisode(acc.view, i, item), !.resolved = @ \cup {i},
    !.status[i] = IF pick[i] # 0 THEN item.status ELSE @,
    !.added = IF pick[i] # 0 \/ item.status \notin Begun THEN @
              ELSE Append(@, [episode |-> i, status |-> item.status])]

\* Bug: what Jellyfin does not list is dropped, watched or not.
DropsEvenWatched(acc) ==
  [acc EXCEPT !.status = [i \in Slots.episodes |->
     IF i \in acc.resolved THEN acc.status[i] ELSE Dropped]]

\* Dropped detection: rows whose episode was not resolved, unless WATCHED.
Drops(acc) ==
  [acc EXCEPT !.status = [i \in Slots.episodes |->
     IF i \in acc.resolved \/ acc.status[i] = Watched THEN acc.status[i] ELSE Dropped]]

\* pick[i]: the row watch_by_episode_id holds for episode i, or 0.
BeforeItems(healed, loaded, pick) ==
  [view |-> healed.view, of |-> healed.of, resolved |-> {}, added |-> <<>>,
   status |-> [i \in Slots.episodes |-> IF pick[i] = 0 THEN Dropped ELSE loaded[pick[i]].status]]

ItemTurns(healed, items, late, loaded, pick) ==
  LET acc[n \in 0..Len(items)] ==
        IF n = 0 THEN BeforeItems(healed, loaded, pick)
        ELSE Processed(pick, late, acc[n - 1], items[n])
  IN  acc

WatchOutcome(seen, listing, order, late, loaded, pick) ==
  Drops(ItemTurns(SeriesHealed(seen, listing, order), listing.episodes, late, loaded, pick)
          [Len(listing.episodes)])

Orders(listing) == SetToSeqs({listing.episodes[n].series : n \in DOMAIN listing.episodes})

\* Bug: the query leaves out DROPPED rows.
WatchPicksNotDropped(seq) ==
  {p \in [Slots.episodes -> 0..Len(seq)] : \A i \in Slots.episodes :
     IF p[i] = 0 THEN \A n \in DOMAIN seq : seq[n].episode # i \/ seq[n].status = Dropped
     ELSE seq[p[i]].episode = i /\ seq[p[i]].status # Dropped}

\* The choices of watch_by_episode_id: a dictionary keeps the last row of an
\* episode, in the order in which the database happens to return the rows.
WatchPicks(seq) ==
  {p \in [Slots.episodes -> 0..Len(seq)] : \A i \in Slots.episodes :
     IF p[i] = 0 THEN \A n \in DOMAIN seq : seq[n].episode # i ELSE seq[p[i]].episode = i}

\* One way a pass may go: what Jellyfin has answered, the order of its set of
\* series ids, and the orders in which the database has returned twins and rows.
Passes(r) ==
  UNION {[listing : {listing}, order : Orders(listing), late : Lates(run[r].seen),
          pick : WatchPicks(run[r].loaded)] : listing \in Listings}

PassOutcome(r, p) ==
  WatchOutcome(run[r].seen, p.listing, p.order, p.late, run[r].loaded, p.pick)

\* The flush writes what differs from what was read.
RowsWritten(now, pick, loaded, acc) ==
  [n \in DOMAIN now |->
     LET i == now[n].episode IN
     IF pick[i] = n /\ acc.status[i] # loaded[n].status
     THEN [now[n] EXCEPT !.status = acc.status[i]] ELSE now[n]] \o acc.added

HealsWritten(r, acc) == Overlay(db, Changes(run[r].seen, acc.view))

\* A flush updates the rows of a table one by one, in the order of their keys,
\* and the unique index looks after each.
Partly(from, to, t, i) == [j \in Slots[t] |-> IF j <= i THEN to[j] ELSE from[j]]

Refused(r, acc) ==
  LET to == HealsWritten(r, acc) IN
  \E t \in Tables : \E i \in Slots[t] : ~UniqueIn(Partly(db[t], to[t], t, i), t)

-----------------------------------------------------------------------------
(* The steps of a run.                                                      *)

StartWatch(r) ==
  /\ MayStart(r)
  /\ \A u \in Users : Len(watch[u]) <= MaxRows
  /\ run' = [run EXCEPT ![r] = WithUsers(Users, TRUE)]
  /\ UNCHANGED <<db, watch, crossed>>

\* Jellyfin lists no episodes: the user is passed over, rows and all.
ListsNothing(r, u) ==
  /\ At(r, "users") /\ u \in run[r].left
  /\ run' = [run EXCEPT ![r] = WithUsers(@.left \ {u}, @.open)]
  /\ UNCHANGED <<db, watch, crossed>>

\* Jellyfin lists episodes, which are drawn where they are used (WatchCommits);
\* series, seasons and episodes are read, three queries taken as one.
ReadsLibrary(r, u) ==
  /\ At(r, "users") /\ u \in run[r].left
  /\ run' = [run EXCEPT ![r] =
       [kind |-> "watch", at |-> "library", left |-> @.left \ {u}, user |-> u, seen |-> db,
        mine |-> Nothing, raced |-> FALSE]]
  /\ UNCHANGED <<db, watch, crossed>>

ReadsRows(r) ==
  /\ At(r, "library")
  /\ run' = [run EXCEPT ![r] =
       [kind |-> "watch", at |-> "rows", left |-> @.left, user |-> @.user, seen |-> @.seen,
        loaded |-> watch[@.user], mine |-> Nothing, raced |-> @.raced]]
  /\ UNCHANGED <<db, watch, crossed>>

WatchCommits(r) ==
  /\ At(r, "rows")
  /\ \E p \in Passes(r) :
     LET acc == PassOutcome(r, p) IN
     /\ ~Refused(r, acc)
     /\ db' = HealsWritten(r, acc)
     /\ watch' = [watch EXCEPT ![run[r].user] = RowsWritten(@, p.pick, run[r].loaded, acc)]
  /\ run' = Committed(r, WithUsers(run[r].left, FALSE))
  /\ crossed' = (crossed \/ run[r].raced)

\* The listing fails, before the first query of a pass.  With a transaction open, the
\* rollback expires user.username, which the log line reads: the run ends.
ListingFails(r, u) ==
  /\ At(r, "users") /\ u \in run[r].left
  /\ run' = [run EXCEPT ![r] = IF @.open THEN NoRun ELSE WithUsers(@.left \ {u}, FALSE)]
  /\ UNCHANGED <<db, watch, crossed>>

\* The same after the first query, or when a unique index refuses a heal.
WatchFails(r) ==
  /\ At(r, "library") \/ At(r, "rows")
  /\ Faults \/ (At(r, "rows") /\ \E p \in Passes(r) : Refused(r, PassOutcome(r, p)))
  /\ run' = [run EXCEPT ![r] = NoRun]
  /\ UNCHANGED <<db, watch, crossed>>
=============================================================================
