# A TLA+ model of media-tracker

media-tracker keeps a catalogue of movies and series and of what the users of a
Jellyfin server have watched. A FastAPI backend on PostgreSQL is filled by
eight background jobs that read Radarr, Sonarr, Jellyfin and a TMDB bridge; a
React frontend shows the result and lets the user schedule and trigger the
jobs. This directory holds TLA+ models of the backend, the TLC configurations
that check them on small instances, and proofs that TLAPS checks for every
value of the constants. Paths below are relative to `src/backend/app/` unless
they start with another directory.

## The system

| Component | State | Operations | Correct if |
|---|---|---|---|
| Sync jobs: `services/jobs.py`, `api/sync.py`, `main.py`, `services/schedule_repository.py` | `is_running`, `last_run_at` of `sync_schedules`; the live coroutines; the scheduler | trigger, timer, run wrapper, startup, shutdown | a job shown as running is running; an accepted trigger runs; no job is stuck |
| Schedule settings: `api/schedule.py`, `utils/cron_utils.py` | `preset`, `cron_expression` of `sync_schedules`; the triggers of APScheduler | GET, PUT | both copies agree; startup can use every row; custom schedules clash with none |
| Service configuration: `api/settings.py`, `services/service_config_repository.py` | `service_configs` | upsert (partial), delete, test | no update is lost |
| Movie catalogue: `services/movie_utils.py`, `radarr_service.py`, `import_jellyfin_movies_service.py` | `media`, `movies` | two imports | one movie per film; identifiers stay; an import is whole or nothing |
| Movie watches: `services/sync_jellyfin_watched_movies_service.py` | `watch_history` without episode, `movies.jellyfin_id` | sync of every user | rows mirror Jellyfin, once per movie, and settle |
| Series catalogue: `services/series_utils.py`, `sonarr_service.py`, `import_jellyfin_series_service.py` | `series`, `seasons`, `episodes` | two imports | an episode is where its source has it; ids of other sources stay; an unchanged list finds the same series and, moved or doubled ids and shared numbers apart, changes nothing |
| Series watches: `services/sync_jellyfin_watched_series_service.py` | `watch_history` with episode, ids of episodes and seasons | sync of every user | as for movies |
| TMDB update: `services/update_tmdb_metadata_service.py`, `update_tmdb_series_metadata_service.py` | metadata of both catalogues | one job, concurrent fetches | one bad item costs that item only |
| Users: `services/jellyfin_users_service.py` | `users` | import | follows renames |
| Sessions: `services/auth_service.py`, `api/auth.py`, `dependencies/auth.py` | `app_users`, `refresh_tokens`, cookies | register, login, refresh, logout, passwords | one account; a refresh token is used once |
| API client: `src/frontend/src/api/client.ts` | the refresh in flight | every request | one refresh for any number of 401s |
| Media read API: `services/media_service.py` | none | list, detail | a status derived from episode counts |
| Clients, pagination: `client/` | none | fetch | every item once |

The components meet in the database and in the event loop. One asyncio process
serves HTTP and runs the jobs, each coroutine with a session of its own, under
READ COMMITTED. Coroutines interleave at every `await`, and nothing in the
process locks. A trigger request starts a task and answers 202; APScheduler
starts the same coroutines by itself. A PUT of a schedule changes the scheduler
of the process as well as the row. The imports and the syncs share the rows of
`movies` and `series`: imports give them ids, syncs heal those ids.

The hard behaviours are these. A check and the write it protects are in
different transactions (trigger, schedules, imports). A run reads, computes for
a long time and writes what it changed of what it had read, while others
commit. State is kept twice (row and scheduler). A process may stop at any
await; what is left over in the database is put right, or not, by the next
startup. Errors are swallowed at some levels (a user, a startup) and not at
others. `PROJECT.json` lists each hazard at its line with the properties that
are about it.

## The modules

| Module | Models | Checked by | Proved in |
|---|---|---|---|
| `JobRuns` | sync jobs | `MCJobRuns`: `JobRunsFaults`, `JobRunsQuiet`, `JobRunsStuck`, `JobRunsOverlap` | `JobRunsProofs` |
| `RunLedger` | what the sync jobs promise, abstractly | refined by `JobRuns`: `JobRunsQuiet` | `JobRunsProofs` |
| `ScheduleSettings` | schedule settings | `MCScheduleSettings`: `ScheduleSettings`, `ScheduleClash` | `ScheduleSettingsProofs` |
| `CronConflicts` | cron expressions on a calendar, `check_conflicts` | `MCAppParts`: `AppParts` | `AppPartsProofs` |
| `MovieCatalog` | movie catalogue imports | `MCMovieCatalog`: `MovieCatalog`, `MovieAmbiguous` | `MovieCatalogProofs` |
| `MovieWatches` | movie watch sync | `MCMovieWatches`: `MovieWatches`, `MovieFailure` | `MovieWatchesProofs` |
| `SeriesTables` | the tables of series, seasons and episodes, and the sessions of the jobs that share them | with `SeriesLibrary` | with `SeriesLibrary` |
| `SeriesImports` | series imports from Sonarr and Jellyfin | with `SeriesLibrary` | with `SeriesLibrary` |
| `SeriesTmdb` | series half of the TMDB update | with `SeriesLibrary` | with `SeriesLibrary` |
| `SeriesWatches` | series watch sync | with `SeriesLibrary` | with `SeriesLibrary` |
| `SeriesLibrary` | the four series jobs together, and their properties | `MCSeriesLibrary`: `SeriesLibrary` | `SeriesLibraryProofs`, `SeriesSyncProofs` |
| `Sessions` | sessions of the server, with the API client of the frontend | `MCAppParts`: `AppParts` | `AuthProofs` |
| `Accounts` | registration, passwords, recovery codes | `MCAppParts`: `AppParts` | `AuthProofs` |
| `ServiceSettings` | service configuration | `MCAppParts`: `AppParts` | `AppPartsProofs` |
| `UsersImport` | users import | `MCAppParts`: `AppParts` | `AppPartsProofs` |
| `Pagination` | the pagination loop of the clients | `MCAppParts`: `AppParts` | `AppPartsProofs` |
| `TmdbMovies` | movie half of the TMDB update | `MCAppParts`: `AppParts` | `AppPartsProofs` |
| `MediaViews` | media read API | `MCAppParts`: `AppParts` | `AppPartsProofs` |

Each module has one action per piece of code between two awaits on the database
or on another service, parameterised by the coroutine that takes it; the map in
`PROJECT.json` names the lines of each. Next to some definitions stands the
same definition with a plausible bug in it (`RunClosesUnstamped`, ...): no
specification uses these, they show that a property notices the bug.

`SeriesTables` declares the variables that `SeriesImports`, `SeriesTmdb` and
`SeriesWatches` write, and `SeriesLibrary` extends the three and lets their runs
overlap. The eight modules of `MCAppParts` share no state; a variable `part` says
which of them a behaviour is about, so that one run checks them all.

**JobRuns.** `pc[x]` is where an actor stands: a request together with the task
it creates, or a timer together with the run it starts. `TriggerReadConfig`,
`TriggerBusy`/`TriggerFree`, `TriggerCommit`, `TriggerSpawn` are
`trigger_sync_job`; `RunConfigured`/`RunSkips` the `*_job` functions; `RunOpens`,
`BodyEnds`, `RunCloses` the wrapper's first commit, its body and its finally
block; each commit has a variant that raises, applied or not. `Start` and
`StartFails` are `lifespan`, which serves even if startup fails. `row[j]`
says whether `sync_schedules` has a row for `j`: without one, as in a
fresh deployment, setting `is_running` is an UPDATE of no row. Services come
and go by `Configure` and `Deconfigure`. `adrift` is history: the jobs whose flag
was left set by a mishap with a name.

**ScheduleSettings.** A PUT goes through `PutPreset` or `PutCustom` (read and
check), `ReadRow`, `Reschedule`, `Commit`, or fails at one of them. `seen` is the
row its session has loaded: the session never refreshes it, and writes only the
columns that differ from it (`Saved`). `Restart` sets the timers from the rows.
Cron expressions are opaque; `Clash` stands for `check_conflicts`, `Rejected` for
what croniter accepts and APScheduler does not. `shaken` and `torn` are history:
jobs whose last PUT failed to commit or overlapped another.

**CronConflicts** opens the constant `Clash`. `CroniterRuns` and `TimerRuns` are the hours
an expression names for croniter, which `check_conflicts` asks, and for
APScheduler, which fires: they number the days of the week differently, and
combine two restricted day fields differently. `PutCustomCron` compares the next
`Lookahead` runs of both, from the moment of the PUT; `PutPresetCron` compares
nothing; `Passes` is the clock. `vetted` is history: when two expressions were
compared. `VettedJobsStayApart` says how long an acceptance can be relied on. It
is not forever: a daily schedule that is set just after the first of a month of
31 days sees 30 days ahead, and not the next first. And it is not so for
expressions with a numbered day of the week: the preset WEEKLY, `* * 0`, which
`test_schedule.py:639` calls Sunday, is Monday to the timer.

**MovieCatalog.** A run of either import works through one answer. Its session
sees the committed table under its own changes (`View`); `Process` is one turn
of the loop (search by own id, search by external ids, fill or create), `Commit`
and `Fails` end it. The queries of an item and the change they lead to are one
step; what a second run does between them it may as well do before.

**MovieWatches.** A run goes from user to user: `Fetch`, `ReadWatches`,
`ReadMovies`, `Commit`. What a pass computes in memory is the operator `Outcome`:
`Turns` gives what there is after each turn of the loop over the items, each of
which is `Processed`, and `AfterDrops` follows the last; `WrittenRows` and
`WrittenIds` are what the flush writes of it. `open` says whether the session is
in a transaction, which decides what a failure does. `Import` is the catalogue
import as far as a sync can see it: an id appears.

**RunLedger** has one entry per request and timer: none, accepted or running.
`JobRuns` maps to it by `LedgerEntry`, which reads the entry off the place of the
actor: a request whose commit is through is accepted, a run from its first
commit to its last is running; `flag` is the mark. The ledger says what a
client of the API may rely on and nothing of how it is done: entries never
vanish while the process serves, and a mark only moves in the commit that
moves an entry. It also says what is *not* promised: `End` unmarks a job even if
another entry of it runs, which is the `job_runs_overlap` finding seen from above.

**SeriesTables.** `db[t][i]` is row `i` of table `t` as a record of identifying
columns; foreign keys are row ids. A run has `mine`, its uncommitted changes
(`View` lays them over the committed rows), and, if it read everything at its
start, `seen`: then `Changes` and `Overlay` are the flush of a session that does
not refresh its objects. `Unique` is the unique indexes; season and episode
numbers have none, so two rows may be one episode (`TwinEpisodes`). A dictionary
built from twins keeps the one the database returned last; `late` draws which.

**SeriesImports.** `ImportSeries` is the head of one turn (search, fill or create
the series, and Sonarr's seasons), `ImportEpisodes` the part after the fetch of
the episodes. The two services know an episode by different keys. Sonarr looks
for `sonarr_id` alone, so an episode that Jellyfin or TMDB created by its number
gets a twin (`sonarr_service.py:124`); `CreatesOnlyMissing` says that no other
job makes one. Jellyfin looks for its id, then for the number among the rows
loaded before the loop; an episode that was renumbered is still found under its
old number, which is the exception `Moved` in `ListedEpisodesAreHeld`. The loops
are recursive functions from the number of a turn to what there is after it
(`SeasonTurns`, `SonarrTurns`, `JellyfinTurns`, as later `EpisodeTurns`, `PayloadTurns`,
`TmdbTurns`, `HealTurns`, `ItemTurns`): the accumulator holds the view and the
dictionaries.

**SeriesTmdb.** One job reads all series with a TMDB id and applies the payloads
to the objects it read. The id of a season is flushed in a savepoint. If it is a
duplicate, the rollback expires the season, the log line of the handler reads
it, and the exception ends the update of that series (`hurt`). The id of an
episode has no savepoint: a duplicate breaks the transaction, and the commit at
the end raises (`TmdbFails`).

**SeriesWatches** has the loop of `MovieWatches`, over three levels. A pass
resolves the series of the answer (by Jellyfin id, TVDB, IMDb), then episodes by
(series, season number, number), and heals the Jellyfin ids of all three. A
flush writes row by row and the unique index looks after each row, so that two
episodes whose ids are exchanged are refused although the end result is unique
(`Refused`, `Partly`). A refusal loses the pass and every later user.

**Sessions.** `call[c]` is one request of a tab with the cookies it was sent with.
`Serves`, `ReadsToken` and `CommitsRefresh` are the server, in which a refresh reads
and commits in two steps; `Arrives` and `RefreshArrives` change the cookies of the
browser, which the tabs share. `Denied` is the hook of `client.ts`: the first 401
of a tab starts the refresh, later ones wait for it. The flag is a variable of
a tab, so two tabs refresh beside each other with one cookie: either both read
the token as valid, and one login forks into two valid tokens, or the slower is
refused and its tab goes to the sign-in page. The properties say that this takes
a second actor, and `history` records which.

**Accounts.** A request reads (`Begins...`), then commits (`Commits`) or meets the
unique index (`Refused`). Registration counts the accounts before it inserts
one; two first registrations with different names both succeed, which
`OneAccount` sets apart. `codes` numbers the recovery codes.

**ServiceSettings.** A PUT reads the row twice in one session; the second read finds the
object of the first. An UPDATE writes the columns that differ from what was
read, and an encrypted key always differs: a PUT that omits the key writes the
old one back over a key that another PUT has committed meanwhile, while an
omitted url is not written at all (`OmittedIsKept`).

**UsersImport.** Each user is looked up by id, added or renamed, and flushed. A
name that one user hands to another meets the unique index in the flush of the
receiver if that comes first, and fails the import (`UsersFail`).

**Pagination.** `FetchesPage` is one request of `fetch_paginated`. `Inserted` and
`Removed` change the list between two requests: an insertion doubles an item,
a removal skips one.

**TmdbMovies.** All movies are read, `Concurrency` fetches run at a time, each
answer changes its object, one commit writes the columns that differ from what
was read. A payload has some of the columns (`PayloadFields`) and leaves the others
as they are. `ImportWrites` is the commit of a Radarr import in between: poster and
rating are overwritten by it, title and rating by TMDB, so the last commit wins
the rating, and a poster that an import brings in meanwhile is replaced only
if there was none when the job read.

**MediaViews.** Lists and pages are counts over `watch_history` joined on the left:
`Lines` are the rows of the join. `OpensPage`, `ReadsSeasons`, `ReadsEpisodes` are the
three queries of a page, between which `SyncWrites` may commit. Without a user
filter an episode that two users have watched counts twice; `PagesAgree` holds
where each episode has one row.

### Abstractions

* A movie found again in the same session may be an object that an earlier
  query loaded and that is still referenced; SQLAlchemy then keeps its old
  attributes. The models read afresh. Within one pass this hides only cases in
  which another commit raced the run, which the properties set apart already.
  The watch syncs go on in the same session for the next user, keep the objects
  over the commit in between (`expire_on_commit=False`, `database.py:26`), and the
  models count races anew for each user. A row that was loaded for one user,
  changed by another session, and found again for a later user is therefore
  not covered.
* The row locks and index waits of PostgreSQL are left out: of two transactions
  that insert one unique value, either may commit, and the other fails.
* Left out: titles, dates, ratings, posters (but for the three columns of
  `TmdbMovies`), playback positions, counters of the answers and the wording of
  messages. `is_manual` is never set by any code.
* `SeriesLibrary` draws what Jellyfin and the bridge answered in the step that
  uses it, not in the step that fetches it: nothing in between depends on it.
* Network failures are `Faults`: a fetch, read or commit may raise.

## Runs

| Run | Instance | What it shows |
|---|---|---|
| `job_runs_faults` | 2 jobs (one needs no service), 2 requests, all mishaps | `FlagOwned`, `ClearedByItsRun` hold whatever overlaps, fails or crashes |
| `job_runs_quiet` | 1 job, 2 requests, crashes only, fairness | the 409 answer is true; accepted triggers run; flags fall; `JobRuns` implements `RunLedger` (`KeepsLedger`) |
| `job_runs_stuck` | configurations may be deleted | **violated**: the 409 answer, once the service is configured again (before that a trigger answers 422) and until a restart or a scheduled run that finds a configuration |
| `job_runs_overlap` | crashes only | **violated**: one run of a job at a time |
| `schedule_settings` | 2 jobs, 2 requests, 6 expressions, failing commits, restarts | `StartupSafe`, `TimerFollowsRow`, `RowIsOneRequest` |
| `schedule_clash` | 1 request at a time | **violated**: a custom schedule clashes with none |
| `movie_catalog` | 2 runs, 3 movies, 4 answers per service, failures | `CommitsWholeAnswers`, `IdsAreKept`, `ReimportSettles` |
| `movie_ambiguous` | the same | **violated**: a search ends in one movie |
| `movie_watches` | 1 user, 2 movies, 3 Jellyfin ids, 2 runs, failures | `HealsNeverCollide`, `OneRowPerMovie`, `SyncSettles`, `WatchedIsNotDropped`, `RowsMirrorJellyfin` |
| `movie_failure` | 2 users, 1 run | **violated**: a failure costs one user only |
| `series_library` | 2 runs of any of the four series jobs, 2 series, 2 seasons, 3 episodes, 1 user | no job but Sonarr's makes twins (`CreatesOnlyMissing`); no job takes another's ids (`LibraryIdsAreKept`); imports put every episode where the source has it (`ListedEpisodesAreHeld`), find their series again, and settle where they are `Steady` (`ReimportSettles`); a heal collides only where ids moved or rows are twins (`HealsCollideOnlyWhenMoved`); rows follow the answer (`RowsFollowJellyfin`); only a duplicate episode id loses a TMDB job (`TmdbLosesOnlyDuplicates`) |
| `app_parts` | see below, one part at a time | sessions: `OwnRefreshNeverSignsOut`, `OneTokenPerLogin`, `PasswordChangeEndsSessions`, `CallsEnd`; accounts: `OneAccount`, `OneCodeInForce`; settings: `OmittedIsKept`; users: `UsersMirrorJellyfin`; pages: `ListIsFetched`; TMDB: `MoviesUpdateAlone`; media: `PagesAgree`; cron: `VettedJobsStayApart` |

The violated properties are statements of the repository's own docs, messages
or tests; `PROJECT.json` quotes them under `findings`.

**Bounds.** Two actors of a kind are enough for every race here, since each is
between two transactions; with the timer, `JobRuns` has three runs of one job.
Jobs and users do not influence each other except through the service they
share (two jobs), their schedules (two jobs) or the session (two users, in
`movie_failure`; with one user, `movie_watches` keeps the state space in reach,
and passes for different users touch different rows and the same ids). Three
ids over two movies allow a movie to be added anew under another id, and an
item whose ids disagree. `MaxRows` is the only counter that would grow: no run
of the watch sync starts once a user has more than two rows, which leaves room
for a doubled row and for a sync of it. This bound can stop the model, so
`movie_watches` and `movie_failure` do not check for deadlock; the others do.
`Slots` bounds the movies to three: with the answers chosen, no run needs a
fourth. `SYMMETRY` permutes requests or runs, in runs without liveness.

In `series_library`, `Slots` has room for two series, two seasons and three
episodes: two numbers, and a twin of one of them. A step that would need more is
not taken. `MayStart` lets two runs overlap while there is at most `MaxShared` = 1
episode. After one committed race (`crossed`) runs start one at a time, and only
while there is at most that one episode, so single runs go on over what the
races of small libraries leave behind; where a race has left more, only the run
that is still live goes on. Without a race single runs start at any size.
`Bounded` = FALSE removes these limits: the theorems hold for both values, that is,
for any runs that overlap at any time. An import's list has `MaxItems`
= 1 series; what matters between two items of a list is the same as between two
runs. No watch sync starts above `MaxRows` = 2 rows. `Faults` is FALSE: a job that
fails for no reason of its data changes nothing but where it stands. The
answers are chosen to disagree: Sonarr moves an episode to another season and
corrects an id, Jellyfin exchanges the ids of two episodes and lists two
versions of one, TMDB gives one id to two seasons and to two episodes.

In `app_parts`: three calls in two tabs (two kinds that may meet in one tab, a
logout in the other), four refresh tokens, one expiry; two rows, two names, one
password, two requests and three recovery codes; two PUTs with two values of
each field, and two inserted rows; three users and three names, the least for a
name to be handed on, in lists of up to `MaxUsers` = 3; lists of up to
`MaxListed` = 4 items in pages of two, with two edits, so that an edit falls
before, in and after the page boundary; three
movies with two fetches at a time, and payloads with all columns or with the title alone; two episodes in two seasons with a movie,
three watch rows of two users, and one write while a page is read; two jobs,
five custom expressions that use every kind of field, and a calendar of two weeks
in three short months of 4 or 5 days with two hours, in which `Lookahead` = 4 is
one less than the longest month, as 30 is of 31. Tokens, hours, codes,
ids and edits only grow, so their bounds stop the model: `series_library` and
`app_parts` do not check for deadlock.

**Fairness** (`FairSpec` of `JobRuns`). Weak fairness of every step of a request
and of a run, because the event loop resumes every ready coroutine and every
query and HTTP call has a timeout; weak fairness of startup, because the
container is deployed with `restart: always` (`src/README.md:56`). Timers,
users, crashes and faults owe nothing. The liveness properties allow for the
process being down. `KeepsLedger` asks for the same under the names of `RunLedger`.

`Sessions` has weak fairness of the progress of each call: the server answers, and
the browser hands an answer to the code that waits for it. Which answer comes
first is not settled, and a lost answer to a refresh (`RefreshLost`), expiries and
users owe nothing. `CallsEnd` needs no more: a call that waits is woken or ended
with the refresh it waits for.

## Proofs

TLAPS checks the theorems below for all values of the constants that the named
assumptions of the modules admit. Most of those are types. The others say what
the code or the database sees to: `UniqueColumn` of the external identifiers of
movies (unique columns); in `MovieCatalogAssumption`, that within one answer no
two items have the same id of the service that gave it; that presets are never
rejected (`ScheduleAssumption`); that sets of rows, slots and tokens are finite.
`Tabs` disjoint from the other spenders of a token, and `NoRow`, `NoConfig`, `NoAccount`,
`NoEntry`, `NoMovie`, `NoId`, `Null` no values of what they stand for the absence of, only
keep names apart. TLC evaluates each assumption in the runs.

* `TypeCorrect`, `SettingsTyped`: `TypeOK` of both modules.
* `FlagAlwaysOwned`: `FlagOwned`. The inductive invariant is
  `TypeOK /\ FlagOwned`. A step that ends an actor is the dangerous one: either
  it clears the flag (`RunCloses`), or it was not the flag's last owner, or it
  goes through `LeaveAdrift`. `OwnerRemains` and `QuietStepKeepsFlagOwned` treat the
  other actors, `OwnStepKeepsFlagOwned` the one that steps.
* `AlreadyRunningIsTrueWithoutMishaps`: if commits do not fail, configurations
  are not deleted and startup does not fail, the 409 answer is true, with any
  number of overlapping runs and crashes. The strengthening is `NeverAdrift`: a
  request past its first read keeps a configured service, so its run is not
  skipped, and nothing else sets a flag adrift. The runs `job_runs_stuck` and
  `job_runs_quiet` show the two sides of the assumption.
* `OnlyItsRunClears`: the action property `ClearedByItsRun`, from `TypeOK` and
  `RowBeforeFlag` (a flag is set only where there is a row, so the UPDATE that
  clears it also stamps `last_run_at`).
* `StartupIsSafe`: `StartupSafe`. It is not inductive by itself. `RescheduledAccepted`
  says that a request past `reschedule_job` asked for an accepted expression, and
  `SeenRowsStay` that rows are never deleted, so that an UPDATE has a row to mix
  with; then what `Saved` writes is either asked for or was stored already.
* `TimersFollowRows`, `RowsAreOneRequest`: `TimerFollowsRow`, `RowIsOneRequest`. Both are about
  a PUT that has its job to itself: `AloneKnowsJob` says that such a request has
  loaded the row as it stands and, once it has rescheduled, that the timer is its
  own. That is what a commit relies on and what overlapping PUTs take away.
* `JobsKeepLedger`: without mishaps every step of `JobRuns` is a step of
  `RunLedger` or leaves the ledger as it is (`Spec => Ledger!LedgerSafe`). It rests on
  `NeverAdrift` (an accepted request keeps its service, so `RunSkips` only ends
  timers, which have no entry yet) and on `OnlyWhileServing` (no actor and no
  timer outlives the process). `OneEntryChanges` and `LedgerStutters` say what a step
  of one actor does to the ledger.
* `VettedAreApart`: `VettedJobsStayApart`, for every calendar and every number of runs
  looked at. The invariant `VettedApart` says that what was found apart at a PUT
  stays apart as computed then, because a later PUT of either job compares anew
  or forgets the pair; an expression that both libraries read alike is then
  due in one of the runs that were looked at.
* `LoginsHaveOneToken`, `PasswordChangesEndSessions`, `OwnRefreshesNeverSignOut` are about any
  number of tabs, calls and tokens. The first two rest on `TInv`: a token that is
  exchanged goes back to a login that was used (`RootsAreUsed`), and who has read
  since the password change has read a new token (`ReadersAreNew`). The third
  rests on `RInv`: a tab refreshes once at a time, a token on its way to the
  cookies is known to nobody else, and one that a tab has spent is out of the
  cookies when its calls are answered; this is where the promise that the calls
  of a tab share (`client.ts`) is needed.
* `ThereIsOneAccount`, `UsedCodesAreSpent`: a registration that nothing raced is still the
  first (`FirstRegisters`), and a code is made once, for one row (`CodesAreNew`).
* `OmittedFieldsAreKept`, `ImportsMirrorJellyfin`, `MoviesAreUpdatedAlone`, `ListsAreFetchedWhole`: one
  invariant each of what the request, import, job or fetch holds in memory
  against the table or list (`HoldsTheKey`, `FlushedFirst`, `JobHolds`, `PrefixFetched`). The
  last is about pages of any size over a list that is edited meanwhile: what is
  fetched is a prefix as long as nothing is edited, lacks nothing that was not
  removed, and repeats nothing if nothing was inserted.
* `ListsAndPagesAgree`: `PagesAgree`, for any episodes, users and rows. `ViewIsCurrent` says
  that what earlier queries gave is what they would give now; `StatusIs` to
  `SeasonCountsAre` say what the queries compute, by counting the lines of the joins.
* `SeriesInvariance`, `TypesHold`, `IdsKept`, `MissingOnly`, `OnlyDuplicatesLose`,
  `HealsAreTaken`, `RowsAreFollowing`, `SettledInvariance`, `ListedAreHeld`, `ReimportsSettle`: every
  property of `series_library`; see below.
* `ImportsSettle`, `AnswersAreCommittedWhole`, `ImportsKeepIds`, for answers of any length and
  any number of overlapping runs. The invariant `RunIsSound` is about a run that no
  commit has raced: what it has filled is missing in the table (`FillsMissing`), and
  each item it is done with is `Settled`, that is, its movie would be found again
  and lacks no id of the item. `OthersStaySettled` is the heart: an item that is
  processed later does not make an earlier one find another movie, because the
  answer has one item for an id of its service. `AnswersAreCommittedWhole` was first
  stated without its exception and the proof failed for a good reason: with
  three imports, one may find an item by an external id, the second replace
  this id in a race with the third, and the table then has the item under no
  id. The instance of `movie_catalog` now contains this case.
* `HealsAreUnique`, `RowsAreSingle`, `SyncsSettle`, `WatchedStays`, `SyncsMirrorJellyfin`, `WatchesTyped`: every
  property of `movie_watches`, for every catalogue, answers of any length and any
  number of runs. Most of the work is one pass over an answer. Its loop is a
  recursive function; `TurnInv` is the invariant of the loop: every id in the rows
  leads back to its movie through the index (`Healed`, hence no two movies share
  one), an item that has been processed is found by its id (`Indexed`), a status is
  what was read or that of an item, an added row is that of a movie without
  one. `OutcomeIs` concludes what a pass computes, `UndisturbedRows` what its commit
  writes, `SecondPass` that every turn of a second pass is idle. The invariant of
  the state, `WatchInv`, only has to say that what a run has read, and no commit has
  raced, is what the tables still hold.

Induction over data. The library's induction theorems take an operator as a
parameter, which the installed provers cannot instantiate. `MovieWatchesProofs`
and `SeriesLibraryProofs` take another way: `WFMin` and `NatLessThanWellFounded` need
no operator and give `LeastNumber`; from it follow `EveryTurn`, induction over a
set of numbers, and, for each loop, that its recursive function unfolds
(`LoopExists`, `SeasonTurnsAre`, `JellyfinTurnsAre`, ...).

### The series library

The two modules prove every property of `series_library` for any tables, answers
of any length and any number of overlapping runs; `SeriesSyncProofs` extends
`SeriesLibraryProofs`. The argument goes through three inductive invariants.

* `SeriesInv`. `TypeOK` is not inductive: that a commit keeps every row with its
  parent depends on what the run has in memory. `SeriesInv` adds that each run's
  view is sound and, unless another commit has raced it, that it `Extends` what is
  committed: rows are added with their parents, a column is filled where it was empty, and
  beyond that a job changes only the columns it follows (`Follows`: the Jellyfin
  ids for the watch sync, the number of an episode for Jellyfin, number and season
  for Sonarr). A watch sync or a TMDB update that was not raced still holds what
  is committed. `EverySonarrTurn`, `EveryJellyfinTurn`, `EveryTmdbTurn`, `EveryItemTurn` carry
  this through the loops. `TypesHold` and `IdsKept` are corollaries;
  `MissingOnly` also needs that the dictionaries do not miss a row
  (`SeasonedAlone`, `EpisodedMissing`).
* `UniqueInv`: what is committed passes the unique indexes. This is no result about
  the code, since the commits are guarded by it, but the others need it. `OnlyDuplicatesLose`
  follows `EveryPayloadSeason`: what a turn has put in place, later turns leave
  (`TmdbSeasonKeeps`), and the only unique column that is written without a look
  at the table is `Episode.tmdb_id`. `HealsAreTaken` has to treat a flush row by row:
  `ApartUnique` says that no moment of it has an id twice if no two rows share
  one before, after, or one before and the other after. `RowsAreFollowing` rests on
  `PlacesAlone` (without twins an item leads to one row) and `WatchRowsDone`.
* `SettledInv` says what an import knows of its series after `ImportSeries`, while
  it waits for the episodes: the search finds this series alone, nothing is left
  to fill, and all listed seasons are in the dictionary. Then `ListedAreHeld` and
  `ReimportsSettle` are about one loop. Sonarr's is short: it looks each episode up
  by `sonarr_id` in the table. Jellyfin's looks in two dictionaries that it
  changes as it goes. `Known` is what holds between its turns: what
  `byNumber` has under a number stands there (`PlacesKnown`), what `byId` has under an
  id bears it (`IdsKnown`), every id in the table was there before or is that of an
  earlier item, in its place (`IdsFrom`), and each earlier item has its row (`HeldAt`).
  From `Known` after the last turn, `JellyfinAgain` shows that a second loop finds
  season and episode at every turn and has nothing to change. That the second
  import finds the series of the first (`ItemIsFound`, `JellyfinSameSeries`) needs no
  condition on the answer; that it changes nothing needs `Steady`, which leaves out
  answers that list an id twice, Sonarr's where two seasons share a number, and
  Jellyfin's where rows share a number or the answer has ids that the library
  had elsewhere. The last is a limit of the code: of the list `<<y at 1, x at 2>>`,
  with `x` at 1 in the library, the first Jellyfin import renumbers the row of `x` and
  makes none for `y`; the second makes it
  (`import_jellyfin_series_service.py:113-124`).

Preparing these proofs changed the model in two ways. The loops were folds, of
which the provers know nothing; they are now recursive functions. And
five properties held on the instance but not for all constants, and now say
what the code does: `CreatesOnlyMissing` and `ListedEpisodesAreHeld` except
an answer in which Jellyfin lists one id twice (`ListsTwice`), which is
renumbered back and forth; `ListedEpisodesAreHeld` allows the id of another
version of the same episode, and leaves out Sonarr's episodes of seasons it does
not list; `ReimportSettles` says that rows stay only where `Steady`, as the
dictionary of seasons keeps either of two twins and a moved id changes what the
next import finds; `HealsCollideOnlyWhenMoved` counts an answer that contradicts
itself as moved; `RowsFollowJellyfin` excludes twin seasons too. In exchange
`CreatesOnlyMissing` is now about every step, not only commits, and the two
properties of imports are about all that the import may make of the item it has
in hand, in whatever order rows come, not only about the step it takes.

Only model-checked: the liveness properties `AcceptedRuns`, `FlagFalls` and
`CallsEnd`, and the live half of `KeepsLedger` (liveness under fairness and ENABLED
are out of the prover's reach). Every other property of the passing runs is
stated by a theorem.

## Not modelled, and the plan

Not modelled, because nothing of it changes state over time: the error handlers
(they map exceptions to answers), schemas, logging and migrations
(declarations), hashing, encryption and the generation of tokens (external
primitives, taken as perfect), the connection test of a service (it reads and
answers), the HTTP clients but for their pagination (pure I/O and the wrapping
of exceptions), and the pages of the frontend (rendering of the server's state).

Abstracted: `ScheduleSettings` takes the verdicts on cron expressions as the
constants `Clash` and `Rejected`; `CronConflicts` computes the first of them on a
calendar, without minutes, months and lists or ranges in a field, for a process
that runs in UTC.

Left open: an abstract mirror of what Jellyfin lists, which both watch syncs
would implement while no two rows are one film or one episode; and proofs of the
liveness properties, for which the tools at hand have no means.
