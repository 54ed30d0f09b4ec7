------------------------------ MODULE MediaViews ------------------------------
(***************************************************************************)
(* The list and the page of a series and a movie, computed by SQL from the *)
(* rows of watch_history.  A page of a series takes three queries, and     *)
(* what a sync commits between two of them shows in the later ones only.   *)
(*                                                                         *)
(* The queries join the rows on the left: an episode counts once for every *)
(* row that it has, or once if it has none.                                *)
(***************************************************************************)
EXTENDS Naturals, FiniteSets

CONSTANTS
  Episodes, Movie,
  SeasonOf,    \* SeasonOf[e]: the season of episode e
  Entries,     \* bound: rows of watch_history, in the order of their ids
  ViewerOf,    \* ViewerOf[i]: the user of row i
  EveryUser,   \* the list without a user
  MaxWrites,   \* bound: rows written while a page is read
  NoEntry, NoStatus

StatusNames == {"planned", "watching", "watched", "dropped"}

ASSUME MediaViewsAssumption ==
  /\ Movie \notin Episodes /\ Episodes # {} /\ IsFiniteSet(Episodes)
  /\ IsFiniteSet(Entries) /\ Entries \subseteq Nat
  /\ NoEntry \notin Entries \cup [of : Episodes \cup {Movie}, status : StatusNames]
  /\ EveryUser \notin {ViewerOf[i] : i \in Entries}
  /\ NoStatus \notin StatusNames /\ MaxWrites \in Nat

VARIABLES
  entry,  \* entry[i]: row i of watch_history, or NoEntry
  view    \* the page that is being read, what its queries have given so far

mediaViews == <<entry, view>>

NoView == [at |-> "none"]

MediaInit ==
  /\ entry = [i \in Entries |-> NoEntry]
  /\ view = NoView

-----------------------------------------------------------------------------
(* The queries.  Plausible bugs, which no specification uses, stand before  *)
(* the definitions they spoil.                                              *)

\* Bug: the filter is not applied in the join.
MatchesEveryone(what, user) == {i \in Entries : entry[i] # NoEntry /\ entry[i].of = what}

Matches(what, user) ==
  {i \in Entries : entry[i] # NoEntry /\ entry[i].of = what /\ user \in {EveryUser, ViewerOf[i]}}

\* The status on each joined line.
Status(line) == IF line[2] = NoEntry THEN NoStatus ELSE entry[line[2]].status

\* The lines of LEFT JOIN watch_history.
Lines(episodes, user) ==
  UNION {IF Matches(e, user) = {} THEN {<<e, NoEntry>>} ELSE {e} \X Matches(e, user) : e \in episodes}

Counted(lines, status) == Cardinality({line \in lines : Status(line) = status})

compute_series_status(lines) ==
  IF lines = {} THEN NoStatus
  ELSE IF Counted(lines, "watched") = Cardinality(lines) THEN "watched"
  ELSE IF Counted(lines, "watched") + Counted(lines, "watching") > 0 THEN "watching"
  ELSE IF Counted(lines, "dropped") > 0 THEN "dropped"
  ELSE "planned"

SeriesStatus(user) == compute_series_status(Lines(Episodes, user))

\* The first of a preference that some row has.
Preferred(statuses, order) ==
  IF statuses = {} THEN NoStatus
  ELSE order[CHOOSE n \in DOMAIN order :
               order[n] \in statuses /\ \A m \in 1..(n - 1) : order[m] \notin statuses]

StatusesOf(what, user) == {entry[i].status : i \in Matches(what, user)}

\* _pick_movie_status, by STATUS_PRIORITY
MovieStatus(user) ==
  Preferred(StatusesOf(Movie, user), <<"watched", "watching", "planned", "dropped">>)

\* Episode statuses: the CASE over bool_or.
EpisodeStatus(e) ==
  Preferred(StatusesOf(e, EveryUser), <<"watched", "watching", "dropped", "planned">>)

\* Bug: a season counts the episodes that have been begun.
SeasonCountsBegun(s) ==
  LET lines == Lines({e \in Episodes : SeasonOf[e] = s}, EveryUser)
  IN  [total |-> Cardinality(lines),
       watched |-> Counted(lines, "watched") + Counted(lines, "watching")]

\* total_episodes and watched_episodes of a season
SeasonCounts(s) ==
  LET lines == Lines({e \in Episodes : SeasonOf[e] = s}, EveryUser)
  IN  [total |-> Cardinality(lines), watched |-> Counted(lines, "watched")]

-----------------------------------------------------------------------------
\* GET /media/{id} of the series, in the order of its queries.
OpensPage ==
  /\ view = NoView
  /\ view' = [at |-> "counts", status |-> SeriesStatus(EveryUser), raced |-> 0]
  /\ UNCHANGED entry

ReadsSeasons ==
  /\ view.at = "counts"
  /\ view' = [at |-> "seasons", status |-> view.status, raced |-> view.raced,
              season |-> [s \in {SeasonOf[e] : e \in Episodes} |-> SeasonCounts(s)]]
  /\ UNCHANGED entry

ReadsEpisodes ==
  /\ view.at = "seasons"
  /\ view' = [at |-> "page", status |-> view.status, raced |-> view.raced, season |-> view.season,
              episode |-> [e \in Episodes |-> EpisodeStatus(e)]]
  /\ UNCHANGED entry

LeavesPage ==
  /\ view.at = "page"
  /\ view' = NoView
  /\ UNCHANGED entry

\* A sync adds row i, the next, or changes its status.
SyncWrites(i, what, status) ==
  /\ view.at \in {"counts", "seasons"} => view.raced < MaxWrites
  /\ view.at # "page"
  /\ \A j \in Entries : j < i => entry[j] # NoEntry
  /\ IF entry[i] = NoEntry THEN status \in {"watching", "watched"} ELSE what = entry[i].of
  /\ entry' = [entry EXCEPT ![i] = [of |-> what, status |-> status]]
  /\ view' = IF view = NoView THEN view ELSE [view EXCEPT !.raced = @ + 1]

MediaNext ==
  \/ OpensPage \/ ReadsSeasons \/ ReadsEpisodes \/ LeavesPage
  \/ \E i \in Entries, what \in Episodes \cup {Movie}, status \in StatusNames :
       SyncWrites(i, what, status)

-----------------------------------------------------------------------------
MediaSpec == MediaInit /\ [][MediaNext]_mediaViews

SingleRows(user) == \A e \in Episodes : Cardinality(Matches(e, user)) <= 1

\* A user's own watching decides what the list shows to that user, whatever rows
\* others have; and what a page shows in three places agrees if no sync commits
\* between its queries.  Both only while an episode counts for one row: with two
\* users or a doubled row the lists count lines for episodes (media_service.py:98).
PagesAgree ==
  /\ view.at = "none" => \A user \in {ViewerOf[i] : i \in Entries} : SingleRows(user) =>
       LET rows(status) == {entry[i].of : i \in {i \in Entries :
                              entry[i] # NoEntry /\ ViewerOf[i] = user /\ entry[i].status = status}}
       IN  /\ SeriesStatus(user) = "watched" <=> Episodes \subseteq rows("watched")
           /\ SeriesStatus(user) = "planned" <=>
                Episodes \cap UNION {rows(s) : s \in StatusNames \ {"planned"}} = {}
           /\ MovieStatus(user) = "watched" <=> Movie \in rows("watched")
  /\ view.at = "page" /\ view.raced = 0 /\ SingleRows(EveryUser) =>
       /\ view.status = "watched" <=> \A e \in Episodes : view.episode[e] = "watched"
       /\ \A s \in DOMAIN view.season :
            LET episodes == {e \in Episodes : SeasonOf[e] = s} IN
            view.season[s] = [total |-> Cardinality(episodes),
              watched |-> Cardinality({e \in episodes : view.episode[e] = "watched"})]
=============================================================================
