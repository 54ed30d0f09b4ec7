------------------------------- MODULE JobRuns -------------------------------
(***************************************************************************)
(* The life of a sync run: how it is triggered (POST /sync/trigger or the  *)
(* APScheduler timer), what the log_job_execution wrapper commits around   *)
(* it, and the is_running column of sync_schedules, which is both what the *)
(* UI shows and the guard that answers 409 "Job is already running".       *)
(*                                                                         *)
(* One asyncio process talks to one PostgreSQL.  Coroutines interleave at  *)
(* their awaits, so every action below is the code between two awaits on   *)
(* the database; a transaction is visible at its commit (READ COMMITTED).  *)
(*                                                                         *)
(* An actor is a trigger request together with the task it creates, or the *)
(* timer of a job together with the run it starts.                         *)
(***************************************************************************)
CONSTANTS
  Jobs,         \* the SyncJobType values; each is also the timer of that job
  Services,     \* the ServiceType values
  NoService,    \* what JOB_REGISTRY holds for a job that needs no service
  Needs,        \* Needs[j]: the service job j needs, from JOB_REGISTRY
  Reqs,         \* trigger requests that may be in flight at the same time
  DbFaults,     \* may a commit of the code modelled here fail?
  Deletions,    \* may a service configuration be deleted?
  StartFaults   \* may startup fail? (lifespan swallows the exception)

ASSUME JobRunsAssumption ==
  /\ NoService \notin Services
  /\ Needs \in [Jobs -> Services \cup {NoService}]
  /\ Reqs \cap Jobs = {}
  /\ {DbFaults, Deletions, StartFaults} \subseteq BOOLEAN

VARIABLES
  server,     \* "down", or "serving" once lifespan has yielded
  scheduler,  \* TRUE iff startup got as far as scheduler.start()
  configs,    \* the services with a row in service_configs
  row,        \* row[j]: has sync_schedules a row for j? (a PUT inserts it)
  flag,       \* flag[j]: the is_running column; FALSE while there is no row
  stamped,    \* stamped[j]: is last_run_at of j set?
  pc,         \* pc[x]: where actor x stands
  target,     \* target[r]: the job request r asks for (stale when r is idle)
  adrift      \* history: the jobs whose flag was left TRUE by an actor that
              \* will not clear it, or by a startup that did not reset it

durable == <<configs, row, flag, stamped>>
vars == <<server, scheduler, configs, row, flag, stamped, pc, target, adrift>>

Actors == Reqs \cup Jobs

\* A request: the config is read, the row is read, the flag is committed, then
\* create_task.  A run: the config is read, the wrapper's first commit, the
\* body, the finally block.
TriggerPCs == {"configured", "free", "committed"}
RunPCs     == {"spawned", "opening", "body", "closing"}
PCs        == {"idle"} \cup TriggerPCs \cup RunPCs

JobOf(x) == IF x \in Jobs THEN x ELSE target[x]

Configured(j) == Needs[j] = NoService \/ Needs[j] \in configs

\* set_running_status: UPDATE ... WHERE job_type, which matches no row if no
\* PUT has inserted one.
SetRunning(j, b) == flag' = [flag EXCEPT ![j] = b /\ row[j]]

Step(x, from, to) ==
  /\ pc[x] = from
  /\ pc' = [pc EXCEPT ![x] = to]

\* x ends without the commit that clears the flag.
LeaveAdrift(x) == adrift' = IF flag'[JobOf(x)] THEN adrift \cup {JobOf(x)} ELSE adrift

-----------------------------------------------------------------------------
(* Plausible bugs, one per definition below; no specification uses them.    *)

\* Bug: the service of the registry's pair is taken for the job.
TriggerWrongTarget(r, j) ==
  /\ server = "serving"
  /\ Configured(j)
  /\ Step(r, "idle", "configured")
  /\ target' = [target EXCEPT ![r] = Needs[j]]
  /\ UNCHANGED <<server, scheduler, durable, adrift>>

\* Bug: the endpoint no longer checks the configuration.
TriggerUnchecked(r, j) ==
  /\ server = "serving"
  /\ Step(r, "idle", "configured")
  /\ target' = [target EXCEPT ![r] = j]
  /\ UNCHANGED <<server, scheduler, durable, adrift>>

\* Bug: the test of the configuration is inverted or missing.
RunSkipsAnyway(x) ==
  /\ Step(x, "spawned", "idle")
  /\ UNCHANGED <<server, scheduler, durable, target>>
  /\ IF x \in Reqs THEN LeaveAdrift(x) ELSE UNCHANGED adrift

\* Bug: the closing block is not a finally; a job that raises just ends.
BodyEndsWithoutFinally(x) ==
  /\ pc[x] = "body"
  /\ \E to \in {"closing", "idle"} : pc' = [pc EXCEPT ![x] = to]
  /\ UNCHANGED <<server, scheduler, durable, target, adrift>>

\* Bug: update_last_run is forgotten.
RunClosesUnstamped(x) ==
  /\ Step(x, "closing", "idle")
  /\ SetRunning(JobOf(x), FALSE)
  /\ adrift' = adrift \ {JobOf(x)}
  /\ UNCHANGED <<server, scheduler, configs, row, stamped, target>>

\* Bug: only last_run_at is written at the end of a run.
RunClosesRunning(x) ==
  /\ Step(x, "closing", "idle")
  /\ stamped' = [stamped EXCEPT ![JobOf(x)] = @ \/ row[JobOf(x)]]
  /\ UNCHANGED <<server, scheduler, configs, row, flag, target, adrift>>

-----------------------------------------------------------------------------
(* POST /api/v1/sync/trigger/{job_type}.  The 422 and 409 answers and a     *)
(* failed read end the request with nothing changed.                        *)

TriggerReadConfig(r, j) ==
  /\ server = "serving"
  /\ Configured(j)
  /\ Step(r, "idle", "configured")
  /\ target' = [target EXCEPT ![r] = j]
  /\ UNCHANGED <<server, scheduler, durable, adrift>>

TriggerBusy(r) ==
  /\ flag[target[r]]
  /\ Step(r, "configured", "idle")
  /\ UNCHANGED <<server, scheduler, durable, target, adrift>>

TriggerFree(r) ==
  /\ ~flag[target[r]]
  /\ Step(r, "configured", "free")
  /\ UNCHANGED <<server, scheduler, durable, target, adrift>>

TriggerCommit(r) ==
  /\ Step(r, "free", "committed")
  /\ SetRunning(target[r], TRUE)
  /\ UNCHANGED <<server, scheduler, configs, row, stamped, target, adrift>>

\* The commit raises (500, no task): it may have been applied all the same.
TriggerCommitFails(r) ==
  /\ DbFaults
  /\ Step(r, "free", "idle")
  /\ \/ UNCHANGED <<flag, adrift>>
     \/ SetRunning(target[r], TRUE) /\ LeaveAdrift(r)
  /\ UNCHANGED <<server, scheduler, configs, row, stamped, target>>

TriggerSpawn(r) ==
  /\ Step(r, "committed", "spawned")
  /\ UNCHANGED <<server, scheduler, durable, target, adrift>>

\* The timer fires.  max_instances=1: not while its previous run is live.  It
\* does not look at the flag.
Fire(j) ==
  /\ scheduler
  /\ Step(j, "idle", "spawned")
  /\ UNCHANGED <<server, scheduler, durable, target, adrift>>

-----------------------------------------------------------------------------
(* A run, manual or scheduled.                                              *)

RunConfigured(x) ==
  /\ Configured(JobOf(x))
  /\ Step(x, "spawned", "opening")
  /\ UNCHANGED <<server, scheduler, durable, target, adrift>>

\* "Skipping ...: service not configured", or the read raises: the wrapper is
\* never entered, so whatever flag the trigger committed stays.
RunSkips(x) ==
  /\ DbFaults \/ ~Configured(JobOf(x))
  /\ Step(x, "spawned", "idle")
  /\ UNCHANGED <<server, scheduler, durable, target>>
  /\ IF x \in Reqs THEN LeaveAdrift(x) ELSE UNCHANGED adrift

RunOpens(x) ==
  /\ Step(x, "opening", "body")
  /\ SetRunning(JobOf(x), TRUE)
  /\ UNCHANGED <<server, scheduler, configs, row, stamped, target, adrift>>

\* The wrapper's first commit is outside its try: no finally runs.
RunOpenFails(x) ==
  /\ DbFaults
  /\ Step(x, "opening", "idle")
  /\ \/ UNCHANGED flag /\ IF x \in Reqs THEN LeaveAdrift(x) ELSE UNCHANGED adrift
     \/ SetRunning(JobOf(x), TRUE) /\ LeaveAdrift(x)
  /\ UNCHANGED <<server, scheduler, configs, row, stamped, target>>

\* The job returns or raises: the finally block runs either way.
BodyEnds(x) ==
  /\ Step(x, "body", "closing")
  /\ UNCHANGED <<server, scheduler, durable, target, adrift>>

RunCloses(x) ==
  /\ Step(x, "closing", "idle")
  /\ SetRunning(JobOf(x), FALSE)
  /\ stamped' = [stamped EXCEPT ![JobOf(x)] = @ \/ row[JobOf(x)]]
  /\ adrift' = adrift \ {JobOf(x)}
  /\ UNCHANGED <<server, scheduler, configs, row, target>>

RunCloseFails(x) ==
  /\ DbFaults
  /\ Step(x, "closing", "idle")
  /\ UNCHANGED <<server, scheduler, durable, target>>
  /\ LeaveAdrift(x)

-----------------------------------------------------------------------------
(* The rest of the process.                                                 *)

Configure(s) ==
  /\ server = "serving"
  /\ configs' = configs \cup {s}
  /\ UNCHANGED <<server, scheduler, row, flag, stamped, pc, target, adrift>>

Deconfigure(s) ==
  /\ Deletions
  /\ server = "serving"
  /\ configs' = configs \ {s}
  /\ UNCHANGED <<server, scheduler, row, flag, stamped, pc, target, adrift>>

\* The first PUT of a job's schedule inserts its row, is_running FALSE.  The
\* endpoint needs app.state.scheduler.
SaveSchedule(j) ==
  /\ scheduler
  /\ ~row[j]
  /\ row' = [row EXCEPT ![j] = TRUE]
  /\ UNCHANGED <<server, scheduler, configs, flag, stamped, pc, target, adrift>>

\* The process dies, or is stopped: shutdown(wait=False) waits for nothing.
Stop ==
  /\ server = "serving"
  /\ server' = "down"
  /\ scheduler' = FALSE
  /\ pc' = [x \in Actors |-> "idle"]
  /\ adrift' = {}
  /\ UNCHANGED <<durable, target>>

Start ==
  /\ server = "down"
  /\ server' = "serving"
  /\ scheduler' = TRUE
  /\ flag' = [j \in Jobs |-> FALSE]
  /\ UNCHANGED <<configs, row, stamped, pc, target, adrift>>

\* lifespan logs the exception and serves all the same, without a scheduler;
\* the flags are reset only if the failure came after that commit.
StartFails ==
  /\ StartFaults
  /\ server = "down"
  /\ server' = "serving"
  /\ \/ flag' = [j \in Jobs |-> FALSE]
     \/ UNCHANGED flag
  /\ adrift' = {j \in Jobs : flag'[j]}
  /\ UNCHANGED <<scheduler, configs, row, stamped, pc, target>>

-----------------------------------------------------------------------------
\* A fresh deployment: no migration seeds sync_schedules.
Init ==
  /\ server = "down"
  /\ scheduler = FALSE
  /\ configs = {}
  /\ row = [j \in Jobs |-> FALSE]
  /\ flag = [j \in Jobs |-> FALSE]
  /\ stamped = [j \in Jobs |-> FALSE]
  /\ pc = [x \in Actors |-> "idle"]
  /\ target \in [Reqs -> Jobs]
  /\ adrift = {}

TriggerStep(r) ==
  \/ TriggerBusy(r) \/ TriggerFree(r)
  \/ TriggerCommit(r) \/ TriggerCommitFails(r)
  \/ TriggerSpawn(r)

RunStep(x) ==
  \/ RunConfigured(x) \/ RunSkips(x)
  \/ RunOpens(x) \/ RunOpenFails(x)
  \/ BodyEnds(x)
  \/ RunCloses(x) \/ RunCloseFails(x)

Boot == Start \/ StartFails

Next ==
  \/ \E r \in Reqs, j \in Jobs : TriggerReadConfig(r, j)
  \/ \E r \in Reqs : TriggerStep(r)
  \/ \E j \in Jobs : Fire(j) \/ SaveSchedule(j)
  \/ \E x \in Actors : RunStep(x)
  \/ \E s \in Services : Configure(s) \/ Deconfigure(s)
  \/ Stop
  \/ Boot

Spec == Init /\ [][Next]_vars

(* Fairness: the event loop resumes every ready coroutine, every query and  *)
(* HTTP call ends (answer or timeout), and the container is restarted       *)
(* ("restart: always").  Users, timers and faults owe nothing.              *)
Fairness ==
  /\ \A r \in Reqs : WF_vars(TriggerStep(r))
  /\ \A x \in Actors : WF_vars(RunStep(x))
  /\ WF_vars(Boot)

FairSpec == Spec /\ Fairness

-----------------------------------------------------------------------------
TypeOK ==
  /\ server \in {"down", "serving"}
  /\ scheduler \in BOOLEAN
  /\ configs \subseteq Services
  /\ row \in [Jobs -> BOOLEAN]
  /\ flag \in [Jobs -> BOOLEAN]
  /\ stamped \in [Jobs -> BOOLEAN]
  /\ pc \in [Actors -> PCs]
  /\ target \in [Reqs -> Jobs]
  /\ adrift \subseteq Jobs

\* x will still commit is_running = FALSE for its job, or skip: a manual actor
\* owns the flag from the trigger's commit on, a scheduled one from its own.
Owns(x) == pc[x] \in IF x \in Reqs THEN {"committed"} \cup RunPCs ELSE {"body", "closing"}

Owned(j) == \E x \in Actors : JobOf(x) = j /\ Owns(x)

(* A job shown as running while the server serves has an actor that will     *)
(* clear the flag, unless one of the named mishaps cut the flag adrift: a    *)
(* skip after the trigger's commit, a failed commit, a failed startup.  In   *)
(* particular overlapping runs that clear each other's flag never leave one  *)
(* behind (jobs.py 33-51, sync.py 31-39, main.py 31-36).                     *)
FlagOwned == server = "serving" => \A j \in Jobs : flag[j] => Owned(j) \/ j \in adrift

(* The answer 409 "Job is already running" is true: whenever the server      *)
(* serves and the flag of a job is set, an actor of that job is live         *)
(* (sync.py 31-33).                                                          *)
AlreadyRunningIsTrue == server = "serving" => \A j \in Jobs : flag[j] => Owned(j)

(* One run of a job at a time, which is what the 409 of sync.py 32-33 and    *)
(* max_instances=1 of main.py 52 each set out to ensure.                     *)
OneRunAtATime ==
  \A x, y \in Actors : pc[x] = "body" /\ pc[y] = "body" /\ JobOf(x) = JobOf(y) => x = y

(* is_running goes from TRUE to FALSE only at a startup, or in the finally   *)
(* block of a run of that very job, which stamps last_run_at in the same     *)
(* transaction (jobs.py 46-51).                                              *)
ClearedByItsRun ==
  [][\A j \in Jobs : flag[j] /\ ~flag'[j] =>
       \/ server = "down"
       \/ stamped'[j] /\ \E x \in Actors : JobOf(x) = j /\ pc[x] = "closing" /\ pc'[x] = "idle"
    ]_vars

(* Without mishaps, every accepted trigger reaches its job's body or the     *)
(* process stops: an overlapping scheduled run cannot swallow it             *)
(* (sync.py 35-39, jobs.py 123-129).                                         *)
AcceptedRuns ==
  \A r \in Reqs : pc[r] = "committed" ~> pc[r] = "body" \/ server = "down"

(* Without mishaps no job shows as running for ever: the flag falls or the   *)
(* process stops, however runs overlap (jobs.py 33-51).                      *)
FlagFalls ==
  \A j \in Jobs : flag[j] ~> ~flag[j] \/ server = "down"

-----------------------------------------------------------------------------
(* The ledger that a trigger sees.  A request is accepted with its commit    *)
(* and runs from the wrapper's first commit to its last; a timer's work has  *)
(* no entry before.                                                          *)

LedgerEntry(x) ==
  CASE pc[x] \in {"body", "closing"} -> [at |-> "running", job |-> JobOf(x)]
    [] x \in Reqs /\ pc[x] \in {"committed", "spawned", "opening"} ->
         [at |-> "accepted", job |-> JobOf(x)]
    [] OTHER -> [at |-> "none"]

Ledger == INSTANCE RunLedger WITH
  up <- server = "serving", listed <- {j \in Jobs : row[j]},
  ledger <- [x \in Actors |-> LedgerEntry(x)], shown <- flag

(* Without mishaps, the jobs implement the ledger: what was accepted (202)   *)
(* is neither dropped nor doubled, and the mark changes only with an entry,  *)
(* however runs of one job overlap (sync.py 35-39, jobs.py 23-53).           *)
KeepsLedger == Ledger!LedgerSpec
=============================================================================
