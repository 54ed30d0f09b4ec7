--------------------------- MODULE ScheduleSettings ---------------------------
(***************************************************************************)
(* PUT /api/v1/settings/schedules/{job_type}: the schedule of a job lives  *)
(* twice, in its row of sync_schedules and in the trigger of its job in    *)
(* the APScheduler of the process.  A PUT changes the trigger first and    *)
(* commits the row afterwards; a startup sets the triggers from the rows.  *)
(*                                                                         *)
(* Requests interleave at their awaits.  A session keeps the row it has    *)
(* loaded, and at the commit writes only the columns whose value the       *)
(* request changed with respect to what it loaded.                         *)
(***************************************************************************)
CONSTANTS
  Jobs,           \* the SyncJobType values
  Crons,          \* cron expressions
  Presets,        \* DAILY, WEEKLY, MONTHLY
  Custom,         \* the preset CUSTOM
  PresetCron,     \* PresetCron[j][p]: the expression PUT derives for preset p
  DefaultPreset,  \* DEFAULT_PRESETS
  CustomCrons,    \* the expressions users type that croniter takes for valid
  Rejected,       \* those of them that APScheduler or the parsing rejects
  Clash,          \* the pairs for which check_conflicts answers True
  NoRow,          \* the job has no row yet
  NoPut,          \* the request slot is free
  Reqs,           \* PUT requests that may be in flight at the same time
  DbFaults        \* may a commit fail?

DefaultCron(j) == PresetCron[j][DefaultPreset[j]]

ASSUME ScheduleAssumption ==
  /\ Custom \notin Presets
  /\ DefaultPreset \in [Jobs -> Presets]
  /\ PresetCron \in [Jobs -> [Presets -> Crons]]
  /\ CustomCrons \subseteq Crons
  /\ Rejected \subseteq CustomCrons
  /\ \A j \in Jobs, p \in Presets : PresetCron[j][p] \notin Rejected
  /\ Clash \subseteq Crons \X Crons
  /\ DbFaults \in BOOLEAN

Row == [preset : Presets \cup {Custom}, cron : Crons]

Put == [at     : {"chosen", "read", "rescheduled"},
        job    : Jobs,
        wanted : Row,               \* the preset and expression it asks for
        seen   : Row \cup {NoRow},  \* the row as its session loaded it
        alone  : BOOLEAN]           \* history: no other PUT of the same job was
                                    \* in flight while this one was

ASSUME NothingAssumption == NoRow \notin Row /\ NoPut \notin Put

VARIABLES
  row,     \* row[j]: the committed preset and cron_expression of j, or NoRow
  timer,   \* timer[j]: the expression the process schedules j by
  put,     \* put[r]: the state of request r, or NoPut
  shaken,  \* history: the jobs whose last PUT since the last startup failed to
           \* commit after it had rescheduled, or overlapped another PUT of the job
  torn     \* history: the jobs whose last committed PUT overlapped another one

vars == <<row, timer, put, shaken, torn>>

\* What list_schedules shows and lifespan schedules by.
Stored(j) == IF row[j] = NoRow THEN DefaultCron(j) ELSE row[j].cron

\* check_conflicts against the rows of the other jobs, or their defaults.
Conflicting(j, c) == \E k \in Jobs \ {j} : <<c, Stored(k)>> \in Clash

Rivals(r, j) == {q \in Reqs \ {r} : put[q] # NoPut /\ put[q].job = j}

Begin(r, j, w, loaded) ==
  /\ put[r] = NoPut
  /\ put' = [q \in Reqs |->
       IF q = r THEN [at |-> "chosen", job |-> j, wanted |-> w, seen |-> loaded,
                      alone |-> Rivals(r, j) = {}]
       ELSE IF q \in Rivals(r, j) THEN [put[q] EXCEPT !.alone = FALSE]
       ELSE put[q]]
  /\ UNCHANGED <<row, timer, shaken, torn>>

At(r, place) == put[r] # NoPut /\ put[r].at = place

\* History: the job of p leaves the set if p was alone, and joins it if not.
Marked(set, p) == IF p.alone THEN set \ {p.job} ELSE set \cup {p.job}

End(r) == put' = [put EXCEPT ![r] = NoPut]

\* A plausible bug, which no specification uses: the expression is written only
\* for a custom schedule.
SavedWithoutExpression(p) ==
  IF p.seen = NoRow \/ p.wanted.preset = Custom THEN p.wanted
  ELSE [row[p.job] EXCEPT !.preset = p.wanted.preset]

\* The flush: an INSERT if no row was loaded, else an UPDATE of the columns
\* that differ from the loaded ones.
Saved(p) ==
  LET now == row[p.job] IN
  IF p.seen = NoRow THEN p.wanted
  ELSE [preset |-> IF p.wanted.preset = p.seen.preset THEN now.preset ELSE p.wanted.preset,
        cron   |-> IF p.wanted.cron = p.seen.cron THEN now.cron ELSE p.wanted.cron]

Save(p) == row' = [row EXCEPT ![p.job] = Saved(p)]

\* Two requests both insert the first row of a job: the unique index on
\* job_type refuses the second.
Duplicate(p) == p.seen = NoRow /\ row[p.job] # NoRow

-----------------------------------------------------------------------------
(* Plausible bugs, one per definition below; no specification uses them.    *)

\* Bug: APScheduler's exception is logged and the request goes on.
RescheduleSwallowsFailure(r) ==
  /\ At(r, "read")
  /\ put' = [put EXCEPT ![r].at = "rescheduled"]
  /\ timer' = [timer EXCEPT ![put[r].job] =
       IF put[r].wanted.cron \in Rejected THEN @ ELSE put[r].wanted.cron]
  /\ UNCHANGED <<row, shaken, torn>>

\* Bug: startup schedules the rows and forgets the jobs without one.
RestartWithoutDefaults ==
  /\ timer' = [j \in Jobs |-> IF row[j] = NoRow THEN NoRow ELSE row[j].cron]
  /\ put' = [r \in Reqs |-> NoPut]
  /\ shaken' = {}
  /\ UNCHANGED <<row, torn>>

\* Bug: startup schedules every job by its default.
RestartWithDefaultsOnly ==
  /\ timer' = [j \in Jobs |-> DefaultCron(j)]
  /\ put' = [r \in Reqs |-> NoPut]
  /\ shaken' = {}
  /\ UNCHANGED <<row, torn>>

-----------------------------------------------------------------------------
\* A preset: the expression is derived, nothing is checked.
PutPreset(r, j, p) ==
  Begin(r, j, [preset |-> p, cron |-> PresetCron[j][p]], NoRow)

\* A custom expression: all rows are loaded and checked (409 changes nothing).
PutCustom(r, j, c) ==
  /\ ~Conflicting(j, c)
  /\ Begin(r, j, [preset |-> Custom, cron |-> c], row[j])

\* get_schedule_by_job in upsert_schedule; a row the session already holds is
\* not refreshed.
ReadRow(r) ==
  /\ At(r, "chosen")
  /\ put' = [put EXCEPT ![r].at = "read",
                        ![r].seen = IF @ = NoRow THEN row[put[r].job] ELSE @]
  /\ UNCHANGED <<row, timer, shaken, torn>>

Reschedule(r) ==
  /\ At(r, "read")
  /\ put[r].wanted.cron \notin Rejected
  /\ put' = [put EXCEPT ![r].at = "rescheduled"]
  /\ timer' = [timer EXCEPT ![put[r].job] = put[r].wanted.cron]
  /\ UNCHANGED <<row, shaken, torn>>

\* 500 "Failed to reschedule job": the session is closed without a commit.
RescheduleFails(r) ==
  /\ At(r, "read")
  /\ put[r].wanted.cron \in Rejected
  /\ End(r)
  /\ UNCHANGED <<row, timer, shaken, torn>>

Commit(r) ==
  /\ At(r, "rescheduled")
  /\ ~Duplicate(put[r])
  /\ Save(put[r])
  /\ End(r)
  /\ shaken' = Marked(shaken, put[r])
  /\ torn' = Marked(torn, put[r])
  /\ UNCHANGED timer

\* 500 "Failed to save schedule": the unique index, or the commit raises.  (If
\* it is the refresh after an applied commit that raises, the state is Commit's.)
CommitFails(r) ==
  /\ At(r, "rescheduled")
  /\ DbFaults \/ Duplicate(put[r])
  /\ End(r)
  /\ shaken' = shaken \cup {put[r].job}
  /\ UNCHANGED <<row, timer, torn>>

\* The process dies and starts again.  Startup succeeds: see StartupSafe.
Restart ==
  /\ timer' = [j \in Jobs |-> Stored(j)]
  /\ put' = [r \in Reqs |-> NoPut]
  /\ shaken' = {}
  /\ UNCHANGED <<row, torn>>

-----------------------------------------------------------------------------
Init ==
  /\ row = [j \in Jobs |-> NoRow]
  /\ timer = [j \in Jobs |-> DefaultCron(j)]
  /\ put = [r \in Reqs |-> NoPut]
  /\ shaken = {}
  /\ torn = {}

Next ==
  \/ \E r \in Reqs, j \in Jobs, p \in Presets : PutPreset(r, j, p)
  \/ \E r \in Reqs, j \in Jobs, c \in CustomCrons : PutCustom(r, j, c)
  \/ \E r \in Reqs :
       \/ ReadRow(r) \/ Reschedule(r) \/ RescheduleFails(r)
       \/ Commit(r) \/ CommitFails(r)
  \/ Restart

Spec == Init /\ [][Next]_vars

-----------------------------------------------------------------------------
TypeOK ==
  /\ row \in [Jobs -> Row \cup {NoRow}]
  /\ timer \in [Jobs -> Crons]
  /\ put \in [Reqs -> Put \cup {NoPut}]
  /\ shaken \subseteq Jobs
  /\ torn \subseteq Jobs

\* No PUT of j stands between its reschedule and its commit.
Settled(j) == \A r \in Reqs : ~(At(r, "rescheduled") /\ put[r].job = j)

(* Every stored expression is one APScheduler accepts, so that a startup can *)
(* schedule all jobs: what APScheduler rejects is never committed, although  *)
(* croniter has accepted it (schedule.py 76-77 and 105-113, main.py 43-54).  *)
StartupSafe == \A j \in Jobs : row[j] # NoRow => row[j].cron \notin Rejected

(* The process schedules a job by the expression the settings page shows and *)
(* the next startup will use, unless the last PUT of the job failed to       *)
(* commit or overlapped another one (schedule.py 103-117).                   *)
TimerFollowsRow ==
  \A j \in Jobs : Settled(j) /\ j \notin shaken => timer[j] = Stored(j)

(* A row is the preset and expression of one request, never the preset of    *)
(* one and the expression of another, unless the last PUT of the job that    *)
(* committed overlapped another one; a startup repairs timers, but not such  *)
(* a row (schedule_repository.py 27-38).                                     *)
RowIsOneRequest ==
  \A j \in Jobs : row[j] # NoRow /\ j \notin torn /\ row[j].preset # Custom
    => row[j].cron = PresetCron[j][row[j].preset]

(* A custom schedule is accepted only if it conflicts with no other job's    *)
(* schedule (409 "Schedule conflicts with another job", schedule.py 89-90).  *)
CustomClashesWithNone ==
  \A j, k \in Jobs :
    j # k /\ row[j] # NoRow /\ row[j].preset = Custom => <<row[j].cron, Stored(k)>> \notin Clash
=============================================================================
