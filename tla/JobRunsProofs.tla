---------------------------- MODULE JobRunsProofs ----------------------------
(***************************************************************************)
(* Proofs about JobRuns for every set of jobs, services and requests: type *)
(* correctness, that no flag is left behind except by a named mishap, that *)
(* without mishaps the 409 answer is true, and that without mishaps the    *)
(* jobs implement RunLedger.                                               *)
(***************************************************************************)
EXTENDS JobRuns, TLAPS

\* What an actor is, and whose job it works on.
LEMMA ActorsFacts ==
  /\ Reqs \subseteq Actors
  /\ Jobs \subseteq Actors
  /\ Reqs \cap Jobs = {}
  /\ \A x \in Actors : x \in Jobs \/ (x \in Reqs /\ x \notin Jobs)
BY JobRunsAssumption DEF Actors

\* JobOf is a job, whoever the actor.
LEMMA JobOfType ==
  ASSUME TypeOK, NEW x \in Actors
  PROVE  JobOf(x) \in Jobs
BY ActorsFacts DEF TypeOK, JobOf

(* Every variable stays within its type (jobs.py, sync.py, main.py).         *)
THEOREM TypeCorrect == Spec => []TypeOK
<1>1. Init => TypeOK
  BY DEF Init, TypeOK, PCs
<1>2. TypeOK /\ [Next]_vars => TypeOK'
  <2> SUFFICES ASSUME TypeOK, [Next]_vars
               PROVE  TypeOK'
    OBVIOUS
  <2> USE ActorsFacts DEF TypeOK, PCs, TriggerPCs, RunPCs, Step, SetRunning, LeaveAdrift, durable
  <2>1. ASSUME NEW r \in Reqs, NEW j \in Jobs, TriggerReadConfig(r, j)
        PROVE  TypeOK'
    BY <2>1 DEF TriggerReadConfig
  <2>2. ASSUME NEW r \in Reqs, TriggerStep(r)
        PROVE  TypeOK'
    <3>0. target[r] \in Jobs /\ JobOf(r) = target[r] /\ r \in Actors
      BY DEF JobOf
    <3>1. CASE TriggerBusy(r)        BY <3>0, <3>1 DEF TriggerBusy
    <3>2. CASE TriggerFree(r)        BY <3>0, <3>2 DEF TriggerFree
    <3>3. CASE TriggerCommit(r)      BY <3>0, <3>3 DEF TriggerCommit
    <3>4. CASE TriggerCommitFails(r) BY <3>0, <3>4 DEF TriggerCommitFails
    <3>5. CASE TriggerSpawn(r)       BY <3>0, <3>5 DEF TriggerSpawn
    <3> QED  BY <2>2, <3>1, <3>2, <3>3, <3>4, <3>5 DEF TriggerStep
  <2>3. ASSUME NEW j \in Jobs, Fire(j)
        PROVE  TypeOK'
    BY <2>3 DEF Fire
  <2>4. ASSUME NEW j \in Jobs, SaveSchedule(j)
        PROVE  TypeOK'
    BY <2>4 DEF SaveSchedule
  <2>5. ASSUME NEW x \in Actors, RunStep(x)
        PROVE  TypeOK'
    <3>0. JobOf(x) \in Jobs
      BY JobOfType
    <3>1. CASE RunConfigured(x)  BY <3>0, <3>1 DEF RunConfigured
    <3>2. CASE RunSkips(x)       BY <3>0, <3>2 DEF RunSkips
    <3>3. CASE RunOpens(x)       BY <3>0, <3>3 DEF RunOpens
    <3>4. CASE RunOpenFails(x)   BY <3>0, <3>4 DEF RunOpenFails
    <3>5. CASE BodyEnds(x)       BY <3>0, <3>5 DEF BodyEnds
    <3>6. CASE RunCloses(x)      BY <3>0, <3>6 DEF RunCloses
    <3>7. CASE RunCloseFails(x)  BY <3>0, <3>7 DEF RunCloseFails
    <3> QED  BY <2>5, <3>1, <3>2, <3>3, <3>4, <3>5, <3>6, <3>7 DEF RunStep
  <2>6. ASSUME NEW s \in Services, Configure(s) \/ Deconfigure(s)
        PROVE  TypeOK'
    BY <2>6 DEF Configure, Deconfigure
  <2>7. CASE Stop
    BY <2>7 DEF Stop
  <2>8. CASE Boot
    BY <2>8 DEF Boot, Start, StartFails
  <2>9. CASE UNCHANGED vars
    BY <2>9 DEF vars
  <2> QED
    BY <2>1, <2>2, <2>3, <2>4, <2>5, <2>6, <2>7, <2>8, <2>9 DEF Next
<1> QED
  BY <1>1, <1>2, PTL DEF Spec
-----------------------------------------------------------------------------
(***************************************************************************)
(* FlagOwned.  With TypeOK it is inductive as it stands: a step of actor x *)
(* touches only the flag of x's own job and only what x itself owns, and   *)
(* nothing is asked of a server that is down.                              *)
(***************************************************************************)
IInv == TypeOK /\ FlagOwned

\* An owner other than the actor that steps remains one, and so does the actor
\* itself if it still owns its flag afterwards.
LEMMA OwnerRemains ==
  ASSUME TypeOK, NEW x \in Actors, NEW to \in PCs, NEW j \in Jobs,
         pc' = [pc EXCEPT ![x] = to], target' = target,
         Owned(j),
         j # JobOf(x) \/ ~Owns(x) \/ Owns(x)'
  PROVE  Owned(j)'
<1>1. PICK y \in Actors : JobOf(y) = j /\ Owns(y)
  BY DEF Owned
<1>2. JobOf(y)' = j
  BY <1>1 DEF JobOf
<1>3. Owns(y)'
  BY <1>1 DEF Owns, TypeOK
<1> QED
  BY <1>1, <1>2, <1>3 DEF Owned

\* A step that neither sets a flag nor lets go of one keeps FlagOwned.
LEMMA QuietStepKeepsFlagOwned ==
  ASSUME IInv, NEW x \in Actors, NEW to \in PCs,
         pc' = [pc EXCEPT ![x] = to],
         UNCHANGED <<server, flag, target, adrift>>,
         ~Owns(x) \/ Owns(x)'
  PROVE  FlagOwned'
<1> SUFFICES ASSUME server = "serving", NEW j \in Jobs, flag[j], j \notin adrift
             PROVE  Owned(j)'
  BY DEF FlagOwned
<1>1. Owned(j)
  BY DEF IInv, FlagOwned
<1> QED
  BY <1>1, OwnerRemains DEF IInv

\* A step of x that may change its own job's flag keeps FlagOwned if, where it
\* leaves the flag set, x owns it, or it is adrift, or it was x that did not own it.
LEMMA OwnStepKeepsFlagOwned ==
  ASSUME IInv, NEW x \in Actors, NEW to \in PCs,
         pc' = [pc EXCEPT ![x] = to],
         UNCHANGED <<server, target>>,
         \A j \in Jobs : j # JobOf(x) => flag'[j] = flag[j] /\ (j \in adrift' <=> j \in adrift),
         flag'[JobOf(x)] => Owns(x)' \/ JobOf(x) \in adrift'
  PROVE  FlagOwned'
<1> SUFFICES ASSUME server = "serving", NEW j \in Jobs, flag'[j], j \notin adrift'
             PROVE  Owned(j)'
  BY DEF FlagOwned
<1>1. CASE j = JobOf(x)
  <2>1. Owns(x)' /\ JobOf(x)' = j
    BY <1>1 DEF JobOf
  <2> QED
    BY <2>1 DEF Owned
<1>2. CASE j # JobOf(x)
  <2>1. Owned(j)
    BY <1>2 DEF IInv, FlagOwned
  <2> QED
    BY <1>2, <2>1, OwnerRemains DEF IInv
<1> QED
  BY <1>1, <1>2

(* No flag outlives its actors except by a named mishap (jobs.py 33-51,      *)
(* sync.py 31-39, main.py 31-36), for every set of jobs and requests.        *)
THEOREM FlagAlwaysOwned == Spec => []FlagOwned
<1>1. Init => FlagOwned
  BY DEF Init, FlagOwned
<1>2. IInv /\ [Next]_vars => FlagOwned'
  <2> SUFFICES ASSUME IInv, [Next]_vars
               PROVE  FlagOwned'
    OBVIOUS
  <2>0. TypeOK /\ \A x \in Actors : JobOf(x) \in Jobs
    BY JobOfType DEF IInv
  <2> USE ActorsFacts, <2>0 DEF PCs, TriggerPCs, RunPCs, Step, SetRunning, LeaveAdrift, durable
  <2>1. ASSUME NEW r \in Reqs, NEW j \in Jobs, TriggerReadConfig(r, j)
        PROVE  FlagOwned'
    <3> SUFFICES ASSUME server = "serving", NEW k \in Jobs, flag[k], k \notin adrift
                 PROVE  Owned(k)'
      BY <2>1 DEF TriggerReadConfig, FlagOwned
    <3>1. PICK y \in Actors : JobOf(y) = k /\ Owns(y)
      BY DEF IInv, FlagOwned, Owned
    <3>2. y # r
      BY <2>1, <3>1 DEF TriggerReadConfig, Owns
    <3>3. JobOf(y)' = k /\ Owns(y)'
      BY <2>1, <3>1, <3>2 DEF TriggerReadConfig, Owns, JobOf, TypeOK
    <3> QED
      BY <3>1, <3>3 DEF Owned
  <2>2. ASSUME NEW r \in Reqs, TriggerStep(r)
        PROVE  FlagOwned'
    <3>0. target[r] \in Jobs /\ JobOf(r) = target[r] /\ r \in Actors
      BY DEF TypeOK, JobOf
    <3>1. CASE TriggerBusy(r)
      BY <3>0, <3>1, QuietStepKeepsFlagOwned DEF TriggerBusy, Owns
    <3>2. CASE TriggerFree(r)
      BY <3>0, <3>2, QuietStepKeepsFlagOwned DEF TriggerFree, Owns
    <3>3. CASE TriggerCommit(r)
      <4>1. Owns(r)'
        BY <3>0, <3>3 DEF TriggerCommit, Owns, TypeOK
      <4> QED
        BY <3>0, <3>3, <4>1, OwnStepKeepsFlagOwned DEF TriggerCommit, TypeOK
    <3>4. CASE TriggerCommitFails(r)
      <4>1. CASE UNCHANGED <<flag, adrift>>
        BY <3>0, <3>4, <4>1, QuietStepKeepsFlagOwned DEF TriggerCommitFails, Owns
      <4>2. CASE SetRunning(target[r], TRUE) /\ LeaveAdrift(r)
        BY <3>0, <3>4, <4>2, OwnStepKeepsFlagOwned DEF TriggerCommitFails, TypeOK
      <4> QED
        BY <3>4, <4>1, <4>2 DEF TriggerCommitFails
    <3>5. CASE TriggerSpawn(r)
      <4>1. Owns(r)'
        BY <3>0, <3>5 DEF TriggerSpawn, Owns, TypeOK
      <4> QED
        BY <3>0, <3>5, <4>1, QuietStepKeepsFlagOwned DEF TriggerSpawn
    <3> QED
      BY <2>2, <3>1, <3>2, <3>3, <3>4, <3>5 DEF TriggerStep
  <2>3. ASSUME NEW j \in Jobs, Fire(j)
        PROVE  FlagOwned'
    BY <2>3, QuietStepKeepsFlagOwned DEF Fire, Owns
  <2>4. ASSUME NEW j \in Jobs, SaveSchedule(j)
        PROVE  FlagOwned'
    BY <2>4 DEF SaveSchedule, IInv, FlagOwned, Owned, Owns, JobOf
  <2>5. ASSUME NEW x \in Actors, RunStep(x)
        PROVE  FlagOwned'
    <3>1. CASE RunConfigured(x)
      <4>1. ~Owns(x) \/ Owns(x)'
        BY <3>1 DEF RunConfigured, Owns, TypeOK
      <4> QED
        BY <3>1, <4>1, QuietStepKeepsFlagOwned DEF RunConfigured
    <3>2. CASE RunSkips(x)
      <4>1. CASE x \in Reqs
        BY <3>2, <4>1, OwnStepKeepsFlagOwned DEF RunSkips, TypeOK
      <4>2. CASE x \notin Reqs
        BY <3>2, <4>2, QuietStepKeepsFlagOwned DEF RunSkips, Owns
      <4> QED
        BY <4>1, <4>2
    <3>3. CASE RunOpens(x)
      <4>1. Owns(x)'
        BY <3>3 DEF RunOpens, Owns, TypeOK
      <4> QED
        BY <3>3, <4>1, OwnStepKeepsFlagOwned DEF RunOpens, TypeOK
    <3>4. CASE RunOpenFails(x)
      <4>1. CASE UNCHANGED flag /\ x \notin Reqs /\ UNCHANGED adrift
        BY <3>4, <4>1, QuietStepKeepsFlagOwned DEF RunOpenFails, Owns
      <4>2. CASE UNCHANGED flag /\ LeaveAdrift(x)
        BY <3>4, <4>2, OwnStepKeepsFlagOwned DEF RunOpenFails, TypeOK
      <4>3. CASE SetRunning(JobOf(x), TRUE) /\ LeaveAdrift(x)
        BY <3>4, <4>3, OwnStepKeepsFlagOwned DEF RunOpenFails, TypeOK
      <4> QED
        BY <3>4, <4>1, <4>2, <4>3 DEF RunOpenFails
    <3>5. CASE BodyEnds(x)
      <4>1. Owns(x)'
        BY <3>5 DEF BodyEnds, Owns, TypeOK
      <4> QED
        BY <3>5, <4>1, QuietStepKeepsFlagOwned DEF BodyEnds
    <3>6. CASE RunCloses(x)
      BY <3>6, OwnStepKeepsFlagOwned DEF RunCloses, TypeOK
    <3>7. CASE RunCloseFails(x)
      BY <3>7, OwnStepKeepsFlagOwned DEF RunCloseFails, TypeOK
    <3> QED
      BY <2>5, <3>1, <3>2, <3>3, <3>4, <3>5, <3>6, <3>7 DEF RunStep
  <2>6. ASSUME NEW s \in Services, Configure(s) \/ Deconfigure(s)
        PROVE  FlagOwned'
    BY <2>6 DEF Configure, Deconfigure, IInv, FlagOwned, Owned, Owns, JobOf
  <2>7. CASE Stop
    BY <2>7 DEF Stop, FlagOwned
  <2>8. CASE Boot
    BY <2>8 DEF Boot, Start, StartFails, FlagOwned
  <2>9. CASE UNCHANGED vars
    BY <2>9 DEF vars, IInv, FlagOwned, Owned, Owns, JobOf
  <2> QED
    BY <2>1, <2>2, <2>3, <2>4, <2>5, <2>6, <2>7, <2>8, <2>9 DEF Next
<1> QED
  BY <1>1, <1>2, TypeCorrect, PTL DEF Spec, IInv

-----------------------------------------------------------------------------
(***************************************************************************)
(* Without mishaps the 409 is true.  The strengthening says why a run that *)
(* a trigger started is never skipped: the trigger saw the configuration,  *)
(* and nothing removes it.                                                 *)
(***************************************************************************)
NoMishaps == ~DbFaults /\ ~Deletions /\ ~StartFaults

NeverAdrift ==
  /\ adrift = {}
  /\ \A r \in Reqs : pc[r] # "idle" => Configured(target[r])

\* Without mishaps, a request's job stays configured, so no flag is cut adrift.
LEMMA NeverAdriftInv ==
  ASSUME NoMishaps
  PROVE  Spec => []NeverAdrift
<1>1. Init => NeverAdrift
  BY ActorsFacts DEF Init, NeverAdrift
<1>2. TypeOK /\ NeverAdrift /\ [Next]_vars => NeverAdrift'
  <2> SUFFICES ASSUME TypeOK, NeverAdrift, [Next]_vars
               PROVE  NeverAdrift'
    OBVIOUS
  <2> USE ActorsFacts, NoMishaps DEF NoMishaps, NeverAdrift, Configured, Step, durable, TypeOK
  <2>1. ASSUME NEW r \in Reqs, NEW j \in Jobs, TriggerReadConfig(r, j)
        PROVE  NeverAdrift'
    BY <2>1 DEF TriggerReadConfig
  <2>2. ASSUME NEW r \in Reqs, TriggerStep(r)
        PROVE  NeverAdrift'
    BY <2>2 DEF TriggerStep, TriggerBusy, TriggerFree, TriggerCommit, TriggerCommitFails, TriggerSpawn
  <2>3. ASSUME NEW j \in Jobs, Fire(j) \/ SaveSchedule(j)
        PROVE  NeverAdrift'
    BY <2>3 DEF Fire, SaveSchedule
  <2>4. ASSUME NEW x \in Actors, RunStep(x)
        PROVE  NeverAdrift'
    <3>1. CASE RunSkips(x)
      <4>1. x \notin Reqs
        BY <3>1 DEF RunSkips, JobOf
      <4> QED
        BY <3>1, <4>1 DEF RunSkips
    <3>2. CASE RunConfigured(x) \/ RunOpens(x) \/ BodyEnds(x) \/ RunCloses(x)
      BY <3>2 DEF RunConfigured, RunOpens, BodyEnds, RunCloses
    <3> QED
      BY <2>4, <3>1, <3>2 DEF RunStep, RunOpenFails, RunCloseFails
  <2>5. ASSUME NEW s \in Services, Configure(s) \/ Deconfigure(s)
        PROVE  NeverAdrift'
    BY <2>5 DEF Configure, Deconfigure
  <2>6. CASE Stop
    BY <2>6 DEF Stop
  <2>7. CASE Boot
    BY <2>7 DEF Boot, Start, StartFails
  <2>8. CASE UNCHANGED vars
    BY <2>8 DEF vars
  <2> QED
    BY <2>1, <2>2, <2>3, <2>4, <2>5, <2>6, <2>7, <2>8 DEF Next
<1> QED
  BY <1>1, <1>2, TypeCorrect, PTL DEF Spec

(* If no commit fails, no configuration is deleted and no startup fails, the *)
(* 409 "Job is already running" of sync.py 31-33 is never given for a job    *)
(* nobody is running, whatever overlaps and whenever the process crashes.    *)
THEOREM AlreadyRunningIsTrueWithoutMishaps ==
  ASSUME NoMishaps
  PROVE  Spec => []AlreadyRunningIsTrue
<1>1. FlagOwned /\ NeverAdrift => AlreadyRunningIsTrue
  BY DEF FlagOwned, NeverAdrift, AlreadyRunningIsTrue
<1> QED
  BY <1>1, FlagAlwaysOwned, NeverAdriftInv, PTL

-----------------------------------------------------------------------------
(* Rows are never deleted, and a flag is set only in an existing row.        *)
RowBeforeFlag == \A j \in Jobs : flag[j] => row[j]

\* Only a job with a row can be flagged: set_running_status updates, it never inserts.
LEMMA RowBeforeFlagInv == Spec => []RowBeforeFlag
<1>1. Init => RowBeforeFlag
  BY DEF Init, RowBeforeFlag
<1>2. TypeOK /\ RowBeforeFlag /\ [Next]_vars => RowBeforeFlag'
  <2> SUFFICES ASSUME TypeOK, RowBeforeFlag, [Next]_vars
               PROVE  RowBeforeFlag'
    OBVIOUS
  <2>0. \A x \in Actors : JobOf(x) \in Jobs
    BY JobOfType
  <2> USE <2>0, ActorsFacts DEF RowBeforeFlag, TypeOK, SetRunning, durable
  <2>1. CASE \E r \in Reqs, j \in Jobs : TriggerReadConfig(r, j)
    BY <2>1 DEF TriggerReadConfig
  <2>2. CASE \E r \in Reqs : TriggerStep(r)
    BY <2>2 DEF TriggerStep, TriggerBusy, TriggerFree, TriggerCommit, TriggerCommitFails, TriggerSpawn
  <2>3. CASE \E j \in Jobs : Fire(j) \/ SaveSchedule(j)
    BY <2>3 DEF Fire, SaveSchedule
  <2>4. CASE \E x \in Actors : RunStep(x)
    BY <2>4 DEF RunStep, RunConfigured, RunSkips, RunOpens, RunOpenFails, BodyEnds, RunCloses, RunCloseFails
  <2>5. CASE \E s \in Services : Configure(s) \/ Deconfigure(s)
    BY <2>5 DEF Configure, Deconfigure
  <2>6. CASE Stop \/ Boot \/ UNCHANGED vars
    BY <2>6 DEF Stop, Boot, Start, StartFails, vars
  <2> QED
    BY <2>1, <2>2, <2>3, <2>4, <2>5, <2>6 DEF Next
<1> QED
  BY <1>1, <1>2, TypeCorrect, PTL DEF Spec

(* is_running falls only at a startup or in the finally block of a run of    *)
(* that job, together with last_run_at (jobs.py 46-51).                      *)
THEOREM OnlyItsRunClears == Spec => ClearedByItsRun
<1> DEFINE Cleared ==
      \A j \in Jobs : flag[j] /\ ~flag'[j] =>
        \/ server = "down"
        \/ stamped'[j] /\ \E x \in Actors : JobOf(x) = j /\ pc[x] = "closing" /\ pc'[x] = "idle"
<1>1. TypeOK /\ RowBeforeFlag /\ [Next]_vars => [Cleared]_vars
  <2> SUFFICES ASSUME TypeOK, RowBeforeFlag, [Next]_vars, NEW j \in Jobs,
                      flag[j], ~flag'[j], server # "down"
               PROVE  stamped'[j] /\ \E x \in Actors : JobOf(x) = j /\ pc[x] = "closing" /\ pc'[x] = "idle"
    OBVIOUS
  <2> USE ActorsFacts DEF RowBeforeFlag, TypeOK, SetRunning, durable
  <2>0. \A x \in Actors : JobOf(x) \in Jobs
    BY JobOfType
  <2>1. PICK x \in Actors : RunCloses(x)
    <3>1. CASE \E x \in Actors : RunStep(x)
      BY <2>0, <3>1 DEF RunStep, RunConfigured, RunSkips, RunOpens, RunOpenFails, BodyEnds, RunCloseFails
    <3>2. CASE \E r \in Reqs : TriggerStep(r)
      BY <3>2 DEF TriggerStep, TriggerBusy, TriggerFree, TriggerCommit, TriggerCommitFails, TriggerSpawn
    <3> QED
      BY <3>1, <3>2 DEF Next, TriggerReadConfig, Fire, SaveSchedule, Configure, Deconfigure,
                        Stop, Boot, Start, StartFails, vars
  <2>2. JobOf(x) = j
    BY <2>1, <2>0 DEF RunCloses
  <2> QED
    BY <2>1, <2>2 DEF RunCloses, Step
<1> QED
  BY <1>1, TypeCorrect, RowBeforeFlagInv, PTL DEF Spec, ClearedByItsRun

-----------------------------------------------------------------------------
(* The refinement.  Without mishaps every step of JobRuns is a step of      *)
(* RunLedger, or leaves the ledger as it is: for every set of jobs,         *)
(* services and requests.                                                   *)

Entries == [x \in Actors |-> LedgerEntry(x)]

\* Nothing runs, and no timer fires, in a process that is down.
OnlyWhileServing ==
  /\ scheduler => server = "serving"
  /\ \A x \in Actors : pc[x] # "idle" => server = "serving"

\* The process takes its coroutines and its scheduler with it (main.py 28-71).
LEMMA OnlyWhileServingInv == Spec => []OnlyWhileServing
<1>1. Init => OnlyWhileServing
  BY DEF Init, OnlyWhileServing
<1>2. TypeOK /\ OnlyWhileServing /\ [Next]_vars => OnlyWhileServing'
  <2> SUFFICES ASSUME TypeOK, OnlyWhileServing, [Next]_vars
               PROVE  OnlyWhileServing'
    OBVIOUS
  <2> USE ActorsFacts DEF OnlyWhileServing, TypeOK, Step, durable
  <2>1. CASE \E r \in Reqs, j \in Jobs : TriggerReadConfig(r, j)
    BY <2>1 DEF TriggerReadConfig
  <2>2. CASE \E r \in Reqs : TriggerStep(r)
    BY <2>2 DEF TriggerStep, TriggerBusy, TriggerFree, TriggerCommit, TriggerCommitFails, TriggerSpawn
  <2>3. CASE \E j \in Jobs : Fire(j) \/ SaveSchedule(j)
    BY <2>3 DEF Fire, SaveSchedule
  <2>4. CASE \E x \in Actors : RunStep(x)
    BY <2>4 DEF RunStep, RunConfigured, RunSkips, RunOpens, RunOpenFails, BodyEnds, RunCloses, RunCloseFails
  <2>5. CASE \E s \in Services : Configure(s) \/ Deconfigure(s)
    BY <2>5 DEF Configure, Deconfigure
  <2>6. CASE Stop \/ Boot \/ UNCHANGED vars
    BY <2>6 DEF Stop, Boot, Start, StartFails, vars
  <2> QED
    BY <2>1, <2>2, <2>3, <2>4, <2>5, <2>6 DEF Next
<1> QED
  BY <1>1, <1>2, TypeCorrect, PTL DEF Spec

\* A step of one actor changes that actor's entry and no other.
LEMMA OneEntryChanges ==
  ASSUME TypeOK, NEW x \in Actors, NEW to \in PCs,
         pc' = [pc EXCEPT ![x] = to], target' = target
  PROVE  /\ Entries' = [Entries EXCEPT ![x] = LedgerEntry(x)']
         /\ LedgerEntry(x)' =
              CASE to \in {"body", "closing"} -> [at |-> "running", job |-> JobOf(x)]
                [] x \in Reqs /\ to \in {"committed", "spawned", "opening"} ->
                     [at |-> "accepted", job |-> JobOf(x)]
                [] OTHER -> [at |-> "none"]
<1>1. \A y \in Actors : JobOf(y)' = JobOf(y)
  BY DEF JobOf
<1>2. pc'[x] = to /\ \A y \in Actors : y # x => pc'[y] = pc[y]
  BY DEF TypeOK
<1>3. \A y \in Actors : y # x => LedgerEntry(y)' = LedgerEntry(y)
  BY <1>1, <1>2 DEF LedgerEntry
<1>4. Entries' = [Entries EXCEPT ![x] = LedgerEntry(x)']
  BY <1>3 DEF Entries
<1> QED
  BY <1>1, <1>2, <1>4 DEF LedgerEntry

\* A step that neither moves an entry nor a mark leaves the ledger alone.
LEMMA LedgerStutters ==
  ASSUME TypeOK, NEW x \in Actors, NEW to \in PCs,
         pc' = [pc EXCEPT ![x] = to], UNCHANGED <<server, row, flag, target>>,
         LedgerEntry(x)' = LedgerEntry(x)
  PROVE  UNCHANGED Ledger!ledgerVars
<1>1. Entries' = Entries
  BY OneEntryChanges DEF Entries
<1> QED
  BY <1>1 DEF Ledger!ledgerVars, Entries

(* What was accepted (202) is neither dropped nor doubled, and the mark of a *)
(* job changes only with an entry, at a commit of its own, however many      *)
(* requests and jobs overlap (sync.py 35-39, jobs.py 23-53).                 *)
THEOREM JobsKeepLedger ==
  ASSUME NoMishaps
  PROVE  Spec => Ledger!LedgerSafe
<1>1. Init => Ledger!LedgerInit
  BY ActorsFacts DEF Init, Ledger!LedgerInit, LedgerEntry, Ledger!NoEntry, Ledger!Workers, Actors
<1>2. TypeOK /\ NeverAdrift /\ OnlyWhileServing /\ [Next]_vars
        => [Ledger!LedgerNext]_(Ledger!ledgerVars)
  <2> SUFFICES ASSUME TypeOK, NeverAdrift, OnlyWhileServing, Next
               PROVE  Ledger!LedgerNext \/ UNCHANGED Ledger!ledgerVars
    <3>1. CASE UNCHANGED vars
      BY <3>1 DEF vars, Ledger!ledgerVars, LedgerEntry, JobOf
    <3> QED
      BY <3>1
  <2> USE ActorsFacts, NoMishaps DEF NoMishaps, Step, durable, SetRunning
  <2>0. ASSUME NEW x \in Actors, NEW from, NEW to,
               UNCHANGED <<server, row>>, server = "serving",
               LedgerEntry(x) = from, Entries' = [Entries EXCEPT ![x] = to]
        PROVE  Ledger!Enters(x, from, to)
    BY <2>0 DEF Ledger!Enters, Entries
  <2>1. ASSUME NEW r \in Reqs, NEW j \in Jobs, TriggerReadConfig(r, j)
        PROVE  UNCHANGED Ledger!ledgerVars
    <3>1. \A y \in Actors : LedgerEntry(y)' = LedgerEntry(y)
      BY <2>1 DEF TriggerReadConfig, LedgerEntry, JobOf, TypeOK
    <3> QED
      BY <2>1, <3>1 DEF TriggerReadConfig, Ledger!ledgerVars
  <2>2. ASSUME NEW r \in Reqs, TriggerStep(r)
        PROVE  Ledger!LedgerNext \/ UNCHANGED Ledger!ledgerVars
    <3>0. target[r] \in Jobs /\ JobOf(r) = target[r] /\ r \in Actors /\ r \notin Jobs
      BY DEF TypeOK, JobOf
    <3>1. CASE TriggerBusy(r) \/ TriggerFree(r) \/ TriggerSpawn(r)
      <4>1. PICK to \in PCs : pc' = [pc EXCEPT ![r] = to]
        BY <3>1 DEF TriggerBusy, TriggerFree, TriggerSpawn, PCs, TriggerPCs, RunPCs
      <4>2. LedgerEntry(r)' = LedgerEntry(r)
        BY <3>0, <3>1 DEF TriggerBusy, TriggerFree, TriggerSpawn, LedgerEntry, JobOf, TypeOK
      <4> QED
        BY <3>0, <3>1, <4>1, <4>2, LedgerStutters DEF TriggerBusy, TriggerFree, TriggerSpawn
    <3>2. CASE TriggerCommit(r)
      <4>1. Entries' = [Entries EXCEPT ![r] = Ledger!Accepted(target[r])]
        BY <3>0, <3>2, OneEntryChanges DEF TriggerCommit, PCs, TriggerPCs, Ledger!Accepted
      <4>2. LedgerEntry(r) = Ledger!NoEntry
        BY <3>0, <3>2 DEF TriggerCommit, LedgerEntry, Ledger!NoEntry
      <4>3. Ledger!Enters(r, Ledger!NoEntry, Ledger!Accepted(target[r]))
        BY <2>0, <3>0, <3>2, <4>1, <4>2 DEF TriggerCommit, OnlyWhileServing
      <4>4. Ledger!Marked(target[r], TRUE)
        BY <3>0, <3>2 DEF TriggerCommit, Ledger!Marked, TypeOK
      <4> QED
        BY <3>0, <4>3, <4>4 DEF Ledger!LedgerNext, Ledger!Accept
    <3> QED
      BY <2>2, <3>1, <3>2 DEF TriggerStep, TriggerCommitFails
  <2>3. ASSUME NEW j \in Jobs, Fire(j)
        PROVE  UNCHANGED Ledger!ledgerVars
    <3>1. LedgerEntry(j)' = LedgerEntry(j)
      BY <2>3 DEF Fire, LedgerEntry, TypeOK
    <3> QED
      BY <2>3, <3>1, LedgerStutters DEF Fire, PCs, RunPCs
  <2>4. ASSUME NEW j \in Jobs, SaveSchedule(j)
        PROVE  Ledger!LedgerNext
    <3>1. \A y \in Actors : LedgerEntry(y)' = LedgerEntry(y)
      BY <2>4 DEF SaveSchedule, LedgerEntry, JobOf
    <3>2. {k \in Jobs : row[k]}' = {k \in Jobs : row[k]} \cup {j}
      BY <2>4 DEF SaveSchedule, TypeOK
    <3> QED
      BY <2>4, <3>1, <3>2 DEF SaveSchedule, OnlyWhileServing, Ledger!LedgerNext, Ledger!List
  <2>5. ASSUME NEW x \in Actors, RunStep(x)
        PROVE  Ledger!LedgerNext \/ UNCHANGED Ledger!ledgerVars
    <3>0. JobOf(x) \in Jobs
      BY JobOfType
    <3>1. CASE RunConfigured(x) \/ BodyEnds(x)
      <4>1. PICK to \in PCs : pc' = [pc EXCEPT ![x] = to]
        BY <3>1 DEF RunConfigured, BodyEnds, PCs, RunPCs
      <4>2. LedgerEntry(x)' = LedgerEntry(x)
        BY <3>1 DEF RunConfigured, BodyEnds, LedgerEntry, JobOf, TypeOK
      <4> QED
        BY <3>1, <4>1, <4>2, LedgerStutters DEF RunConfigured, BodyEnds
    <3>2. CASE RunSkips(x)
      <4>1. x \in Jobs
        BY <3>2 DEF RunSkips, NeverAdrift, JobOf
      <4>2. LedgerEntry(x)' = LedgerEntry(x)
        BY <3>2, <4>1 DEF RunSkips, LedgerEntry, TypeOK
      <4> QED
        BY <3>2, <4>2, LedgerStutters DEF RunSkips, PCs
    <3>3. CASE RunOpens(x)
      <4>1. Entries' = [Entries EXCEPT ![x] = Ledger!Running(JobOf(x))]
        BY <3>3, OneEntryChanges DEF RunOpens, PCs, RunPCs, Ledger!Running
      <4>2. Ledger!Marked(JobOf(x), TRUE)
        BY <3>0, <3>3 DEF RunOpens, Ledger!Marked
      <4>3. CASE x \in Reqs
        <5>1. LedgerEntry(x) = Ledger!Accepted(JobOf(x))
          BY <3>3, <4>3 DEF RunOpens, LedgerEntry, Ledger!Accepted
        <5>2. Ledger!Enters(x, Ledger!Accepted(JobOf(x)), Ledger!Running(JobOf(x)))
          BY <2>0, <3>3, <4>1, <5>1 DEF RunOpens, OnlyWhileServing
        <5> QED
          BY <3>0, <4>2, <4>3, <5>2 DEF Ledger!LedgerNext, Ledger!Begin
      <4>4. CASE x \in Jobs
        <5>1. LedgerEntry(x) = Ledger!NoEntry /\ JobOf(x) = x
          BY <3>3, <4>4 DEF RunOpens, LedgerEntry, Ledger!NoEntry, JobOf
        <5>2. Ledger!Enters(x, Ledger!NoEntry, Ledger!Running(JobOf(x)))
          BY <2>0, <3>3, <4>1, <5>1 DEF RunOpens, OnlyWhileServing
        <5> QED
          BY <4>2, <4>4, <5>1, <5>2 DEF Ledger!LedgerNext, Ledger!BeginTimer
      <4> QED
        BY <4>3, <4>4
    <3>4. CASE RunCloses(x)
      <4>1. Entries' = [Entries EXCEPT ![x] = Ledger!NoEntry]
        BY <3>4, OneEntryChanges DEF RunCloses, PCs, Ledger!NoEntry
      <4>2. LedgerEntry(x) = Ledger!Running(JobOf(x))
        BY <3>4 DEF RunCloses, LedgerEntry, Ledger!Running
      <4>3. Ledger!Enters(x, Ledger!Running(JobOf(x)), Ledger!NoEntry)
        BY <2>0, <3>4, <4>1, <4>2 DEF RunCloses, OnlyWhileServing
      <4>4. Ledger!Marked(JobOf(x), FALSE)
        BY <3>0, <3>4 DEF RunCloses, Ledger!Marked
      <4> QED
        BY <3>0, <4>3, <4>4 DEF Ledger!LedgerNext, Ledger!End, Ledger!Workers, Actors
    <3> QED
      BY <2>5, <3>1, <3>2, <3>3, <3>4 DEF RunStep, RunOpenFails, RunCloseFails
  <2>6. ASSUME NEW s \in Services, Configure(s) \/ Deconfigure(s)
        PROVE  UNCHANGED Ledger!ledgerVars
    BY <2>6 DEF Configure, Deconfigure, Ledger!ledgerVars, LedgerEntry, JobOf
  <2>7. CASE Stop
    <3>1. \A y \in Actors : LedgerEntry(y)' = Ledger!NoEntry
      BY <2>7 DEF Stop, LedgerEntry, Ledger!NoEntry
    <3> QED
      BY <2>7, <3>1 DEF Stop, Ledger!LedgerNext, Ledger!Halt, Ledger!Workers, Actors
  <2>8. CASE Boot
    <3>1. Start
      BY <2>8 DEF Boot, StartFails
    <3>2. \A y \in Actors : LedgerEntry(y)' = LedgerEntry(y)
      BY <3>1 DEF Start, LedgerEntry, JobOf
    <3> QED
      BY <3>1, <3>2 DEF Start, Ledger!LedgerNext, Ledger!Boot
  <2> QED
    BY <2>1, <2>2, <2>3, <2>4, <2>5, <2>6, <2>7, <2>8 DEF Next
<1> QED
  BY <1>1, <1>2, TypeCorrect, NeverAdriftInv, OnlyWhileServingInv, PTL DEF Spec, Ledger!LedgerSafe
=============================================================================
