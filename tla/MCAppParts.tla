----------------------------- MODULE MCAppParts -----------------------------
(* The smaller parts of the app, each on its own: part says which of them    *)
(* this behaviour is about; the others stay as they start.                   *)
EXTENDS Sessions, Accounts, ServiceSettings, UsersImport, Pagination, TmdbMovies, MediaViews,
        CronConflicts

CONSTANTS c1, c2, c3, t1, t2, e1, e2, d1, d2, job1, job2

VARIABLE part

MCTabOf == c1 :> t1 @@ c2 :> t1 @@ c3 :> t2

MCKindsOf == c1 :> {"password"} @@ c2 :> {"get"} @@ c3 :> {"logout"}

MCSeasonOf == e1 :> 1 @@ e2 :> 2

MCViewerOf == 1 :> d1 @@ 2 :> d1 @@ 3 :> d2

MCPayloadFields == {{"title", "rating", "poster"}, {"title"}}

MCHourOf == job1 :> 0 @@ job2 :> 1

MCDefaultPreset == job1 :> "daily" @@ job2 :> "monthly"

MCMonthLengths == <<5, 4, 5>>

On(hour, day, weekday) == [hour |-> hour, day |-> day, weekday |-> weekday]

\* Daily and monthly at the one hour, weekly at the other by number and by name,
\* and with both day fields.
MCCustoms ==
  {On(1, Star, Star), On(1, 1, Star), On(0, Star, [by |-> "number", n |-> 1]),
   On(0, Star, [by |-> "name", n |-> 1]), On(1, 3, [by |-> "name", n |-> 3])}

all == <<part, sessions, accounts, settings, usersImport, pagination, tmdbMovies, mediaViews, cron>>

Init ==
  /\ part \in {"sessions", "accounts", "settings", "users", "pages", "tmdb", "media", "cron"}
  /\ SessionsInit /\ AccountsInit /\ SettingsInit /\ UsersInit /\ MediaInit
  /\ PaginationInit /\ (part = "pages" \/ list = <<>>)
  /\ MoviesInit /\ (part = "tmdb" \/ \A m \in Movies : movie[m].poster = Null)
  /\ CronInit /\ (part = "cron" \/ now = 0)

Next ==
  \/ /\ part = "sessions" /\ SessionsNext
     /\ UNCHANGED <<part, accounts, settings, usersImport, pagination, tmdbMovies, mediaViews, cron>>
  \/ /\ part = "accounts" /\ AccountsNext
     /\ UNCHANGED <<part, sessions, settings, usersImport, pagination, tmdbMovies, mediaViews, cron>>
  \/ /\ part = "settings" /\ SettingsNext
     /\ UNCHANGED <<part, sessions, accounts, usersImport, pagination, tmdbMovies, mediaViews, cron>>
  \/ /\ part = "users" /\ UsersNext
     /\ UNCHANGED <<part, sessions, accounts, settings, pagination, tmdbMovies, mediaViews, cron>>
  \/ /\ part = "pages" /\ PaginationNext
     /\ UNCHANGED <<part, sessions, accounts, settings, usersImport, tmdbMovies, mediaViews, cron>>
  \/ /\ part = "tmdb" /\ MoviesNext
     /\ UNCHANGED <<part, sessions, accounts, settings, usersImport, pagination, mediaViews, cron>>
  \/ /\ part = "media" /\ MediaNext
     /\ UNCHANGED <<part, sessions, accounts, settings, usersImport, pagination, tmdbMovies, cron>>
  \/ /\ part = "cron" /\ CronNext
     /\ UNCHANGED <<part, sessions, accounts, settings, usersImport, pagination, tmdbMovies,
                    mediaViews>>

Spec == Init /\ [][Next]_all /\ SessionsFairness
=============================================================================
