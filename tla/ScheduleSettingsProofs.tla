------------------------ MODULE ScheduleSettingsProofs ------------------------
(***************************************************************************)
(* Proofs about ScheduleSettings for every value of its constants: what    *)
(* APScheduler rejects never reaches the table, however many PUTs of one   *)
(* job are in flight and whatever fails, so a startup can schedule all;    *)
(* the timer follows the row, and a row is that of one request, unless     *)
(* PUTs overlapped.                                                        *)
(***************************************************************************)
EXTENDS ScheduleSettings, TLAPS

\* A request that has rescheduled asks for an expression APScheduler accepts.
RescheduledAccepted ==
  \A r \in Reqs : At(r, "rescheduled") => put[r].wanted.cron \notin Rejected

\* Rows are never deleted: one that a session has loaded is still there.
SeenRowsStay ==
  \A r \in Reqs : put[r] # NoPut /\ put[r].seen # NoRow => row[put[r].job] # NoRow

IInv == TypeOK /\ StartupSafe /\ RescheduledAccepted /\ SeenRowsStay

USE ScheduleAssumption, NothingAssumption

\* The flush of a request writes a row whose expression APScheduler accepts, if
\* the table held only such rows and the request itself asks for one.
LEMMA SavedFacts ==
  ASSUME IInv, NEW r \in Reqs, At(r, "rescheduled"), ~Duplicate(put[r])
  PROVE  Saved(put[r]) \in Row /\ Saved(put[r]).cron \notin Rejected
<1> DEFINE p == put[r]
           now == row[p.job]
<1>1. p \in Put /\ p.job \in Jobs /\ p.wanted \in Row /\ p.wanted.cron \notin Rejected
  BY DEF IInv, TypeOK, RescheduledAccepted, At, Put
<1>2. CASE p.seen = NoRow
  BY <1>1, <1>2 DEF Saved
<1>3. CASE p.seen # NoRow
  <2>1. now \in Row /\ now.cron \notin Rejected
    BY <1>1, <1>3 DEF IInv, TypeOK, StartupSafe, SeenRowsStay, At
  <2>2. /\ Saved(p).preset \in Presets \cup {Custom}
        /\ Saved(p).cron \in {now.cron, p.wanted.cron}
        /\ Saved(p) = [preset |-> Saved(p).preset, cron |-> Saved(p).cron]
    BY <1>1, <1>3, <2>1 DEF Saved, Row
  <2> QED BY <1>1, <2>1, <2>2 DEF Row
<1> QED BY <1>2, <1>3

\* A new request is a request, and leaves the others as they were but for alone.
LEMMA BeginFacts ==
  ASSUME TypeOK, NEW r \in Reqs, NEW j \in Jobs, NEW w \in Row,
         NEW loaded \in Row \cup {NoRow}, Begin(r, j, w, loaded)
  PROVE  /\ put' \in [Reqs -> Put \cup {NoPut}]
         /\ put'[r].at = "chosen" /\ put'[r].job = j /\ put'[r].seen = loaded
         /\ put'[r].wanted = w /\ (put'[r].alone => Rivals(r, j) = {})
         /\ \A q \in Reqs \ {r} :
              /\ put'[q] = NoPut <=> put[q] = NoPut
              /\ put[q] # NoPut =>
                   /\ put'[q].at = put[q].at /\ put'[q].job = put[q].job
                   /\ put'[q].seen = put[q].seen /\ put'[q].wanted = put[q].wanted
                   /\ put'[q].alone => put[q].alone /\ put[q].job # j
<1>1. [at |-> "chosen", job |-> j, wanted |-> w, seen |-> loaded,
       alone |-> Rivals(r, j) = {}] \in Put
  BY DEF Put
<1>2. \A q \in Reqs : put[q] \in Put => [put[q] EXCEPT !.alone = FALSE] \in Put \ {NoPut}
  BY DEF Put
<1>3. \A q \in Rivals(r, j) : q \in Reqs \ {r} /\ put[q] \in Put
  BY DEF Rivals, TypeOK
<1>4. put' \in [Reqs -> Put \cup {NoPut}]
  BY <1>1, <1>2, <1>3 DEF Begin, TypeOK
<1>5. put'[r] = [at |-> "chosen", job |-> j, wanted |-> w, seen |-> loaded,
                 alone |-> Rivals(r, j) = {}]
  BY DEF Begin
<1>6. ASSUME NEW q \in Rivals(r, j)
      PROVE  /\ put'[q] \in Put /\ put[q] \in Put /\ ~put'[q].alone
             /\ put'[q].at = put[q].at /\ put'[q].job = put[q].job
             /\ put'[q].seen = put[q].seen /\ put'[q].wanted = put[q].wanted
  <2>1. put'[q] = [put[q] EXCEPT !.alone = FALSE] /\ put[q] \in Put
    BY <1>3 DEF Begin
  <2> QED BY <1>2, <1>3, <2>1 DEF Put
<1>7. ASSUME NEW q \in Reqs \ {r}, q \notin Rivals(r, j)
      PROVE  put'[q] = put[q] /\ (put[q] # NoPut => put[q].job # j)
  BY <1>7 DEF Begin, Rivals
<1>8. /\ put'[r].at = "chosen" /\ put'[r].job = j /\ put'[r].seen = loaded
      /\ put'[r].wanted = w /\ (put'[r].alone => Rivals(r, j) = {})
  <2>1. put'[r].at = "chosen" /\ put'[r].job = j /\ put'[r].seen = loaded /\ put'[r].wanted = w
    BY <1>5
  <2>2. CASE Rivals(r, j) = {}
    BY <2>1, <2>2
  <2>3. CASE Rivals(r, j) # {}
    <3>1. put'[r] = [at |-> "chosen", job |-> j, wanted |-> w, seen |-> loaded, alone |-> FALSE]
      BY <1>5, <2>3
    <3> QED BY <2>1, <3>1
  <2> QED BY <2>2, <2>3
<1>9. \A q \in Rivals(r, j) : put[q] # NoPut /\ put'[q] # NoPut
  BY <1>6
<1> QED BY <1>4, <1>6, <1>7, <1>8, <1>9

-----------------------------------------------------------------------------
\* The inductive invariant.  StartupSafe alone is not inductive: what a commit
\* writes depends on what the request asked for (RescheduledAccepted) and on
\* the row it had loaded (SeenRowsStay).
LEMMA Inductive == Spec => []IInv
<1>1. Init => IInv
  BY DEF Init, IInv, TypeOK, StartupSafe, RescheduledAccepted, SeenRowsStay, At, DefaultCron
<1>2. IInv /\ [Next]_vars => IInv'
  <2> SUFFICES ASSUME IInv, [Next]_vars PROVE IInv'
    OBVIOUS
  <2> USE DEF IInv
  <2>1. ASSUME NEW r \in Reqs, NEW j \in Jobs, NEW w \in Row,
               NEW loaded \in {NoRow, row[j]}, Begin(r, j, w, loaded)
        PROVE  IInv'
    <3>1. loaded \in Row \cup {NoRow}
      BY <2>1 DEF TypeOK
    <3>2. TypeOK'
      <4>1. put' \in [Reqs -> Put \cup {NoPut}]
        BY <2>1, <3>1, BeginFacts
      <4> QED BY <2>1, <4>1 DEF TypeOK, Begin
    <3>3. StartupSafe'
      BY <2>1 DEF StartupSafe, Begin
    <3>4. RescheduledAccepted'
      BY <2>1, <3>1, BeginFacts DEF RescheduledAccepted, At
    <3>5. SeenRowsStay'
      <4>1. row' = row
        BY <2>1 DEF Begin
      <4>2. put'[r].job = j /\ put'[r].seen = loaded
        BY <2>1, <3>1, BeginFacts
      <4>3. \A q \in Reqs \ {r} :
              /\ put'[q] = NoPut <=> put[q] = NoPut
              /\ put[q] # NoPut => put'[q].job = put[q].job /\ put'[q].seen = put[q].seen
        BY <2>1, <3>1, BeginFacts
      <4> QED BY <2>1, <4>1, <4>2, <4>3 DEF SeenRowsStay
    <3> QED BY <3>2, <3>3, <3>4, <3>5
  <2>2. ASSUME NEW r \in Reqs, NEW j \in Jobs, NEW p \in Presets, PutPreset(r, j, p)
        PROVE  IInv'
    BY <2>1, <2>2 DEF PutPreset, Row
  <2>3. ASSUME NEW r \in Reqs, NEW j \in Jobs, NEW c \in CustomCrons, PutCustom(r, j, c)
        PROVE  IInv'
    BY <2>1, <2>3 DEF PutCustom, Row
  <2>4. ASSUME NEW r \in Reqs, ReadRow(r) PROVE IInv'
    <3>1. put[r] \in Put /\ put'[r] \in Put /\ put'[r].at = "read"
          /\ put'[r].job = put[r].job /\ put'[r].seen \in {put[r].seen, row[put[r].job]}
          /\ \A q \in Reqs \ {r} : put'[q] = put[q]
      BY <2>4 DEF ReadRow, At, TypeOK, Put
    <3> QED BY <2>4, <3>1 DEF ReadRow, TypeOK, StartupSafe, RescheduledAccepted, SeenRowsStay, At
  <2>5. ASSUME NEW r \in Reqs, Reschedule(r) PROVE IInv'
    <3>1. put[r] \in Put /\ put'[r] \in Put /\ put'[r].wanted = put[r].wanted
          /\ put'[r].job = put[r].job /\ put'[r].seen = put[r].seen
          /\ put[r].wanted.cron \in Crons
          /\ \A q \in Reqs \ {r} : put'[q] = put[q]
      BY <2>5 DEF Reschedule, At, TypeOK, Put, Row
    <3> QED BY <2>5, <3>1 DEF Reschedule, TypeOK, StartupSafe, RescheduledAccepted, SeenRowsStay, At
  <2>6. ASSUME NEW r \in Reqs, RescheduleFails(r) PROVE IInv'
    BY <2>6 DEF RescheduleFails, End, TypeOK, StartupSafe, RescheduledAccepted, SeenRowsStay, At
  <2>7. ASSUME NEW r \in Reqs, Commit(r) PROVE IInv'
    <3>1. put[r] \in Put /\ put[r].job \in Jobs
      BY <2>7 DEF Commit, At, TypeOK, Put
    <3>2. Saved(put[r]) \in Row /\ Saved(put[r]).cron \notin Rejected
      BY <2>7, SavedFacts DEF Commit
    <3>3. row' = [row EXCEPT ![put[r].job] = Saved(put[r])] /\ put' = [put EXCEPT ![r] = NoPut]
      BY <2>7 DEF Commit, Save, End
    <3>4. TypeOK'
      BY <2>7, <3>1, <3>2, <3>3 DEF Commit, Marked, TypeOK
    <3> QED BY <3>1, <3>2, <3>3, <3>4 DEF TypeOK, StartupSafe, RescheduledAccepted, SeenRowsStay, At
  <2>8. ASSUME NEW r \in Reqs, CommitFails(r) PROVE IInv'
    <3>1. put[r].job \in Jobs
      BY <2>8 DEF CommitFails, At, TypeOK, Put
    <3> QED BY <2>8, <3>1
          DEF CommitFails, End, TypeOK, StartupSafe, RescheduledAccepted, SeenRowsStay, At
  <2>9. CASE Restart
    <3>1. \A j \in Jobs : Stored(j) \in Crons
      BY DEF TypeOK, Stored, DefaultCron, Row
    <3> QED BY <2>9, <3>1
          DEF Restart, TypeOK, StartupSafe, RescheduledAccepted, SeenRowsStay, At
  <2>10. CASE UNCHANGED vars
    BY <2>10 DEF vars, TypeOK, StartupSafe, RescheduledAccepted, SeenRowsStay, At
  <2> QED BY <2>2, <2>3, <2>4, <2>5, <2>6, <2>7, <2>8, <2>9, <2>10 DEF Next
<1> QED BY <1>1, <1>2, PTL DEF Spec

(* Every variable stays within its type: in particular a row is written      *)
(* whole, or not at all (schedule.py 64-135).                                *)
THEOREM SettingsTyped == Spec => []TypeOK
<1>1. IInv => TypeOK
  BY DEF IInv
<1> QED BY <1>1, Inductive, PTL

(* No expression that APScheduler rejects is ever committed, whatever        *)
(* overlaps and whatever fails: reschedule_job raises before the commit      *)
(* (schedule.py 103-117), so a startup can schedule every job.               *)
THEOREM StartupIsSafe == Spec => []StartupSafe
<1>1. IInv => StartupSafe
  BY DEF IInv
<1> QED BY <1>1, Inductive, PTL
-----------------------------------------------------------------------------
(* The timer and the row.  While a request has had its job to itself, the   *)
(* row is the one its session has loaded, and the timer is its own once it  *)
(* has rescheduled: that is what its commit relies on, and what overlapping *)
(* requests lose.                                                           *)

AloneKnowsJob ==
  \A r \in Reqs : put[r] # NoPut /\ put[r].alone =>
    /\ \A q \in Reqs \ {r} : put[q] # NoPut => put[q].job # put[r].job
    /\ put[r].seen = row[put[r].job] \/ (put[r].at = "chosen" /\ put[r].seen = NoRow)
    /\ put[r].at = "rescheduled" => timer[put[r].job] = put[r].wanted.cron

\* A request that asks for a preset asks for the expression of that preset.
PresetsWantTheirs ==
  \A r \in Reqs : put[r] # NoPut /\ put[r].wanted.preset # Custom =>
    put[r].wanted.cron = PresetCron[put[r].job][put[r].wanted.preset]

AInv == AloneKnowsJob /\ PresetsWantTheirs /\ TimerFollowsRow /\ RowIsOneRequest

\* A request that had its job to itself writes what it was asked for, whole.
LEMMA AloneSavesWanted ==
  ASSUME TypeOK, AloneKnowsJob, NEW r \in Reqs, At(r, "rescheduled"), put[r].alone
  PROVE  Saved(put[r]) = put[r].wanted
<1> DEFINE p == put[r]
<1>1. p \in Put /\ p.job \in Jobs /\ p.wanted \in Row /\ p.seen = row[p.job]
  BY DEF TypeOK, AloneKnowsJob, At, Put
<1>2. p.seen # NoRow => row[p.job] \in Row
  BY <1>1 DEF TypeOK
<1> QED
  BY <1>1, <1>2 DEF Saved, Row

LEMMA BeginKeepsAInv ==
  ASSUME TypeOK, AInv, NEW r \in Reqs, NEW j \in Jobs, NEW w \in Row,
         NEW loaded \in {NoRow, row[j]}, Begin(r, j, w, loaded),
         w.preset # Custom => w.cron = PresetCron[j][w.preset]
  PROVE  AInv'
<1>1. loaded \in Row \cup {NoRow} /\ put[r] = NoPut /\ put'[r] # NoPut
      /\ UNCHANGED <<row, timer, shaken, torn>>
  <2>1. loaded \in Row \cup {NoRow}
    BY DEF TypeOK
  <2>2. put'[r] # NoPut
    <3>1. put'[r] = [at |-> "chosen", job |-> j, wanted |-> w, seen |-> loaded,
                     alone |-> Rivals(r, j) = {}]
      BY DEF Begin
    <3>2. put'[r] \in Put
      BY <2>1, <3>1 DEF Put
    <3> QED
      BY <3>2
  <2> QED
    BY <2>1, <2>2 DEF Begin
<1>2. /\ put'[r].at = "chosen" /\ put'[r].job = j /\ put'[r].seen = loaded
      /\ put'[r].wanted = w /\ (put'[r].alone => Rivals(r, j) = {})
  BY <1>1, BeginFacts
<1>3. \A q \in Reqs \ {r} :
        /\ put'[q] = NoPut <=> put[q] = NoPut
        /\ put[q] # NoPut =>
             /\ put'[q].at = put[q].at /\ put'[q].job = put[q].job
             /\ put'[q].seen = put[q].seen /\ put'[q].wanted = put[q].wanted
             /\ put'[q].alone => put[q].alone /\ put[q].job # j
  BY <1>1, BeginFacts
<1>4. AloneKnowsJob'
  <2> SUFFICES ASSUME NEW q \in Reqs, put'[q] # NoPut, put'[q].alone
               PROVE  /\ \A o \in Reqs \ {q} : put'[o] # NoPut => put'[o].job # put'[q].job
                      /\ \/ put'[q].seen = row[put'[q].job]
                         \/ put'[q].at = "chosen" /\ put'[q].seen = NoRow
                      /\ put'[q].at = "rescheduled" => timer[put'[q].job] = put'[q].wanted.cron
    BY <1>1 DEF AloneKnowsJob
  <2>1. CASE q = r
    <3>1. \A o \in Reqs \ {r} : put[o] # NoPut => put[o].job # j
      BY <1>2, <2>1 DEF Rivals
    <3>2. \A o \in Reqs \ {r} : put'[o] # NoPut => put'[o].job # j
      BY <1>3, <3>1
    <3> QED
      BY <1>2, <2>1, <3>2
  <2>2. CASE q # r
    <3>1. put[q] # NoPut /\ put[q].alone /\ put[q].job # j /\ put'[q].job = put[q].job
      BY <1>3, <2>2
    <3>2. \A o \in Reqs \ {q} : put'[o] # NoPut => put'[o].job # put'[q].job
      BY <1>2, <1>3, <3>1 DEF AInv, AloneKnowsJob
    <3> QED
      BY <1>3, <2>2, <3>1, <3>2 DEF AInv, AloneKnowsJob
  <2> QED
    BY <2>1, <2>2
<1>5. PresetsWantTheirs'
  BY <1>1, <1>2, <1>3 DEF AInv, PresetsWantTheirs
<1>6. \A j1 \in Jobs : Settled(j1)' <=> Settled(j1)
  <2>1. \A q \in Reqs : At(q, "rescheduled")' <=> At(q, "rescheduled")
    BY <1>1, <1>2, <1>3 DEF At
  <2>2. \A q \in Reqs : At(q, "rescheduled") => put'[q].job = put[q].job
    BY <1>1, <1>3 DEF At
  <2> QED
    BY <2>1, <2>2 DEF Settled
<1>7. TimerFollowsRow'
  BY <1>1, <1>6 DEF AInv, TimerFollowsRow, Stored
<1>8. RowIsOneRequest'
  BY <1>1 DEF AInv, RowIsOneRequest
<1> QED
  BY <1>4, <1>5, <1>7, <1>8 DEF AInv

LEMMA CommitKeepsAInv ==
  ASSUME IInv, AInv, NEW r \in Reqs, Commit(r)
  PROVE  AInv'
<1> DEFINE p == put[r]
<1>1. /\ p \in Put /\ p.job \in Jobs /\ p.alone \in BOOLEAN /\ p.wanted \in Row
      /\ p # NoPut /\ At(r, "rescheduled")
  BY DEF IInv, Commit, At, TypeOK, Put
<1>2. /\ put' = [put EXCEPT ![r] = NoPut] /\ row' = [row EXCEPT ![p.job] = Saved(p)]
      /\ timer' = timer /\ shaken' = Marked(shaken, p) /\ torn' = Marked(torn, p)
  BY DEF Commit, Save, End
<1>3. /\ row'[p.job] = Saved(p) /\ \A j \in Jobs \ {p.job} : row'[j] = row[j]
      /\ put'[r] = NoPut /\ \A q \in Reqs \ {r} : put'[q] = put[q]
  BY <1>1, <1>2 DEF IInv, TypeOK
<1>4. AloneKnowsJob'
  BY <1>1, <1>2, <1>3 DEF IInv, TypeOK, Put, AInv, AloneKnowsJob
<1>5. PresetsWantTheirs'
  BY <1>3 DEF AInv, PresetsWantTheirs
<1>6. \A j \in Jobs \ {p.job} : Settled(j)' => Settled(j)
  BY <1>3 DEF Settled, At
<1>7. \A j \in Jobs \ {p.job} : (j \in shaken' <=> j \in shaken) /\ (j \in torn' <=> j \in torn)
  BY <1>2 DEF Marked
<1>8. CASE p.alone
  <2>1. Saved(p) = p.wanted /\ p.wanted # NoRow /\ timer[p.job] = p.wanted.cron
    BY <1>1, <1>8, AloneSavesWanted DEF IInv, AInv, AloneKnowsJob, At
  <2>2. TimerFollowsRow'
    BY <1>2, <1>3, <1>6, <1>7, <2>1 DEF AInv, TimerFollowsRow, Stored
  <2>3. RowIsOneRequest'
    BY <1>1, <1>3, <1>7, <2>1 DEF AInv, RowIsOneRequest, PresetsWantTheirs
  <2> QED
    BY <1>4, <1>5, <2>2, <2>3 DEF AInv
<1>9. CASE ~p.alone
  <2>1. p.job \in shaken' /\ p.job \in torn'
    BY <1>2, <1>9 DEF Marked
  <2>2. TimerFollowsRow'
    BY <1>2, <1>3, <1>6, <1>7, <2>1 DEF AInv, TimerFollowsRow, Stored
  <2>3. RowIsOneRequest'
    BY <1>3, <1>7, <2>1 DEF AInv, RowIsOneRequest
  <2> QED
    BY <1>4, <1>5, <2>2, <2>3 DEF AInv
<1> QED
  BY <1>8, <1>9

LEMMA AloneInductive == Spec => []AInv
<1>1. Init => AInv
  BY DEF Init, AInv, AloneKnowsJob, PresetsWantTheirs, TimerFollowsRow, RowIsOneRequest, Stored
<1>2. IInv /\ AInv /\ [Next]_vars => AInv'
  <2> SUFFICES ASSUME IInv, AInv, [Next]_vars PROVE AInv'
    OBVIOUS
  <2>1. TypeOK
    BY DEF IInv
  <2>2. ASSUME NEW r \in Reqs, NEW j \in Jobs, NEW p \in Presets, PutPreset(r, j, p)
        PROVE  AInv'
    BY <2>1, <2>2, BeginKeepsAInv DEF PutPreset, Row
  <2>3. ASSUME NEW r \in Reqs, NEW j \in Jobs, NEW c \in CustomCrons, PutCustom(r, j, c)
        PROVE  AInv'
    BY <2>1, <2>3, BeginKeepsAInv DEF PutCustom, Row
  <2>4. ASSUME NEW r \in Reqs, ReadRow(r) PROVE AInv'
    <3>1. /\ put[r] # NoPut /\ put'[r] # NoPut /\ put[r].at = "chosen" /\ put'[r].at = "read"
          /\ put'[r].job = put[r].job /\ put'[r].alone = put[r].alone
          /\ put'[r].wanted = put[r].wanted
          /\ put'[r].seen = IF put[r].seen = NoRow THEN row[put[r].job] ELSE put[r].seen
          /\ \A q \in Reqs \ {r} : put'[q] = put[q]
          /\ UNCHANGED <<row, timer, shaken, torn>>
      <4>1. put[r] \in Put /\ put'[r] = [put[r] EXCEPT !.at = "read",
              !.seen = IF @ = NoRow THEN row[put[r].job] ELSE @]
        BY <2>1, <2>4 DEF ReadRow, At, TypeOK
      <4>2. put'[r] \in Put
        BY <2>1, <4>1 DEF TypeOK, Put
      <4> QED
        BY <2>1, <2>4, <4>1, <4>2 DEF ReadRow, At, TypeOK, Put
    <3>2. AloneKnowsJob'
      BY <3>1 DEF AInv, AloneKnowsJob
    <3>3. PresetsWantTheirs'
      BY <3>1 DEF AInv, PresetsWantTheirs
    <3> QED
      BY <3>1, <3>2, <3>3 DEF AInv, TimerFollowsRow, RowIsOneRequest, Settled, Stored, At
  <2>5. ASSUME NEW r \in Reqs, Reschedule(r) PROVE AInv'
    <3>1. /\ put[r] # NoPut /\ put'[r] # NoPut /\ put[r].at = "read"
          /\ put'[r].at = "rescheduled" /\ put'[r].job = put[r].job /\ put[r].job \in Jobs
          /\ put'[r].alone = put[r].alone
          /\ put'[r].wanted = put[r].wanted /\ put'[r].seen = put[r].seen
          /\ \A q \in Reqs \ {r} : put'[q] = put[q]
          /\ timer' = [timer EXCEPT ![put[r].job] = put[r].wanted.cron]
          /\ UNCHANGED <<row, shaken, torn>>
      <4>1. put[r] \in Put /\ put'[r] = [put[r] EXCEPT !.at = "rescheduled"]
        BY <2>1, <2>5 DEF Reschedule, At, TypeOK
      <4>2. put'[r] \in Put
        BY <4>1 DEF Put
      <4> QED
        BY <2>1, <2>5, <4>1, <4>2 DEF Reschedule, At, TypeOK, Put
    <3>2. timer'[put[r].job] = put[r].wanted.cron
          /\ \A j \in Jobs \ {put[r].job} : timer'[j] = timer[j]
      BY <2>1, <3>1 DEF TypeOK
    <3>3. \A q \in Reqs : put[q] # NoPut => put[q].job \in Jobs
      BY <2>1 DEF TypeOK, Put
    <3>4. AloneKnowsJob'
      <4> SUFFICES ASSUME NEW q \in Reqs, put'[q] # NoPut, put'[q].alone
                   PROVE  /\ \A o \in Reqs \ {q} : put'[o] # NoPut => put'[o].job # put'[q].job
                          /\ \/ put'[q].seen = row[put'[q].job]
                             \/ put'[q].at = "chosen" /\ put'[q].seen = NoRow
                          /\ put'[q].at = "rescheduled" =>
                               timer'[put'[q].job] = put'[q].wanted.cron
        BY <3>1 DEF AloneKnowsJob
      <4>1. \A o \in Reqs : put'[o].job = put[o].job /\ (put'[o] # NoPut => put[o] # NoPut)
        BY <3>1
      <4>2. \A o \in Reqs \ {q} : put'[o] # NoPut => put'[o].job # put'[q].job
        BY <3>1, <4>1 DEF AInv, AloneKnowsJob
      <4>3. CASE q = r
        BY <3>1, <3>2, <4>2, <4>3 DEF AInv, AloneKnowsJob
      <4>4. CASE q # r
        <5>1. put'[q] = put[q] /\ put[q].job # put[r].job /\ put[q].job \in Jobs
          BY <3>1, <3>3, <4>4 DEF AInv, AloneKnowsJob
        <5> QED
          BY <3>2, <4>2, <5>1 DEF AInv, AloneKnowsJob
      <4> QED
        BY <4>3, <4>4
    <3>5. PresetsWantTheirs'
      BY <3>1 DEF AInv, PresetsWantTheirs
    <3>6. TimerFollowsRow'
      <4>1. ~Settled(put[r].job)'
        BY <3>1 DEF Settled, At
      <4>2. \A j \in Jobs \ {put[r].job} : Settled(j)' => Settled(j)
        BY <3>1 DEF Settled, At
      <4> QED
        BY <3>1, <3>2, <4>1, <4>2 DEF AInv, TimerFollowsRow, Stored
    <3> QED
      BY <3>1, <3>4, <3>5, <3>6 DEF AInv, RowIsOneRequest
  <2>6. ASSUME NEW r \in Reqs, RescheduleFails(r) PROVE AInv'
    <3>1. /\ put[r].at = "read" /\ put'[r] = NoPut /\ \A q \in Reqs \ {r} : put'[q] = put[q]
          /\ UNCHANGED <<row, timer, shaken, torn>>
      BY <2>1, <2>6 DEF RescheduleFails, End, At, TypeOK
    <3> QED
      BY <3>1 DEF AInv, AloneKnowsJob, PresetsWantTheirs, TimerFollowsRow, RowIsOneRequest,
                  Settled, Stored, At
  <2>7. ASSUME NEW r \in Reqs, CommitFails(r) PROVE AInv'
    <3>1. /\ put'[r] = NoPut /\ \A q \in Reqs \ {r} : put'[q] = put[q]
          /\ shaken' = shaken \cup {put[r].job} /\ UNCHANGED <<row, timer, torn>>
      BY <2>1, <2>7 DEF CommitFails, End, TypeOK
    <3> QED
      BY <3>1 DEF AInv, AloneKnowsJob, PresetsWantTheirs, TimerFollowsRow, RowIsOneRequest,
                  Settled, Stored, At
  <2>8. CASE Restart
    BY <2>8 DEF Restart, AInv, AloneKnowsJob, PresetsWantTheirs, TimerFollowsRow,
                RowIsOneRequest, Stored
  <2>9. CASE UNCHANGED vars
    BY <2>9 DEF vars, AInv, AloneKnowsJob, PresetsWantTheirs, TimerFollowsRow, RowIsOneRequest,
                Settled, Stored, At
  <2> QED
    BY CommitKeepsAInv, <2>2, <2>3, <2>4, <2>5, <2>6, <2>7, <2>8, <2>9 DEF Next
<1> QED
  BY <1>1, <1>2, Inductive, PTL DEF Spec

(* Between the PUTs of a job its timer runs by the expression the settings   *)
(* page shows, for any number of requests, unless the last PUT since the     *)
(* startup overlapped another one or failed to commit after it had           *)
(* rescheduled (schedule.py 103-117).                                        *)
THEOREM TimersFollowRows == Spec => []TimerFollowsRow
<1>1. AInv => TimerFollowsRow
  BY DEF AInv
<1> QED BY <1>1, AloneInductive, PTL

(* A row is never half of one request and half of another, unless the last   *)
(* PUT of its job that committed overlapped another one: the session of a    *)
(* lone request has loaded the row it updates (schedule_repository.py        *)
(* 27-38).                                                                   *)
THEOREM RowsAreOneRequest == Spec => []RowIsOneRequest
<1>1. AInv => RowIsOneRequest
  BY DEF AInv
<1> QED BY <1>1, AloneInductive, PTL
=============================================================================
