----------------------------- MODULE CronConflicts -----------------------------
(***************************************************************************)
(* When the sync jobs are due, and what check_conflicts says of it.        *)
(* croniter computes the next runs of a new expression and of the others;  *)
(* APScheduler fires by the same five fields, but reads them otherwise: it *)
(* numbers the days of the week from Monday, croniter from Sunday, and of  *)
(* two restricted day fields it asks for both, croniter for either.        *)
(*                                                                         *)
(* Time is a number of hours in a calendar of whole months, the first day  *)
(* of which is a Sunday.  PUTs are single steps here (ScheduleSettings has *)
(* their interleavings), and the process is in UTC.                        *)
(***************************************************************************)
EXTENDS Naturals, Sequences, FiniteSets, FiniteSetsExt, SequencesExt

CONSTANTS
  Jobs,
  HourOf,         \* HourOf[j]: the hour of DEFAULT_SCHEDULES[j]
  DefaultPreset,  \* DEFAULT_PRESETS
  Customs,        \* the expressions that users type
  Lookahead,      \* n in check_conflicts, 30 in the code
  MonthLengths,   \* bound: the months of the calendar
  HoursPerDay,
  Star            \* the field "*"

Presets == {"daily", "weekly", "monthly"}

\* A day of the week is written as a number or as a name, here with its place
\* after Sunday.
Field == [hour    : 0..(HoursPerDay - 1),
          day     : (1..31) \cup {Star},
          weekday : [by : {"number", "name"}, n : 0..6] \cup {Star}]

ASSUME CronAssumption ==
  /\ HoursPerDay \in Nat \ {0} /\ Lookahead \in Nat
  /\ MonthLengths \in Seq(1..31)
  /\ HourOf \in [Jobs -> 0..(HoursPerDay - 1)] /\ DefaultPreset \in [Jobs -> Presets]
  /\ Customs \subseteq Field

VARIABLES
  now,       \* the hour
  schedule,  \* schedule[j]: its preset and expression, stored and scheduled
  vetted     \* history: vetted[{j, k}]: when a PUT compared the expressions j and k have

cron == <<now, schedule, vetted>>

-----------------------------------------------------------------------------
(* The calendar.                                                            *)

MonthStarts ==
  [m \in 1..(Len(MonthLengths) + 1) |-> FoldLeft(+, 0, SubSeq(MonthLengths, 1, m - 1))]

Hours == 0..(MonthStarts[Len(MonthLengths) + 1] * HoursPerDay - 1)

Day(t) == t \div HoursPerDay

Weekday(t) == Day(t) % 7

DayOfMonth(t) == Day(t) + 1 - Max({n \in Range(MonthStarts) : n <= Day(t)})

OnHour(e, t) == t % HoursPerDay = e.hour

OnDay(e, t) == e.day \in {Star, DayOfMonth(t)}

PresetExpression(j, p) ==
  CASE p = "daily"   -> [hour |-> HourOf[j], day |-> Star, weekday |-> Star]
    [] p = "weekly"  -> [hour |-> HourOf[j], day |-> Star, weekday |-> [by |-> "number", n |-> 0]]
    [] p = "monthly" -> [hour |-> HourOf[j], day |-> 1, weekday |-> Star]

Expressions == Customs \cup {PresetExpression(j, p) : j \in Jobs, p \in Presets}

\* croniter: the hours that an expression names.
CroniterRuns ==
  [e \in Expressions |->
     {t \in Hours : LET weekday == e.weekday # Star /\ e.weekday.n = Weekday(t) IN
        /\ OnHour(e, t)
        /\ IF Star \in {e.day, e.weekday} THEN OnDay(e, t) /\ (e.weekday = Star \/ weekday)
           ELSE OnDay(e, t) \/ weekday}]

\* CronTrigger of APScheduler, of the fields that parse_cron_to_apscheduler
\* passes on as they are: 0 is Monday.
TimerRuns ==
  [e \in Expressions |->
     {t \in Hours :
        /\ OnHour(e, t) /\ OnDay(e, t)
        /\ e.weekday # Star =>
             Weekday(t) = IF e.weekday.by = "number" THEN (e.weekday.n + 1) % 7 ELSE e.weekday.n}]

MisreadCron(e) == CroniterRuns[e] # TimerRuns[e]

-----------------------------------------------------------------------------
(* The PUT.                                                                 *)

\* n calls of get_next, which starts after t.
NextRuns(e, t, n) ==
  {u \in CroniterRuns[e] :
     t < u /\ Cardinality({v \in CroniterRuns[e] : t < v /\ v <= u}) <= n}

\* A plausible bug, which no specification uses: the others are only asked for
\* their next run.
check_next_conflicts(e, others, t) ==
  \E o \in others : NextRuns(e, t, Lookahead) \cap NextRuns(o, t, 1) # {}

check_conflicts(e, others, t) ==
  \E o \in others : NextRuns(e, t, Lookahead) \cap NextRuns(o, t, Lookahead) # {}

Scheduled(p, e) == [preset |-> p, cron |-> e]

CronInit ==
  /\ now \in {t \in Hours : t < HoursPerDay}
  /\ schedule = [j \in Jobs |-> Scheduled(DefaultPreset[j], PresetExpression(j, DefaultPreset[j]))]
  /\ vetted = <<>>

\* History: the pairs of jobs that no PUT of j concerns.
Untouched(j) == {pair \in DOMAIN vetted : j \notin pair}

\* The others are those of the rows, or the defaults.
PutCustomCron(j, e) ==
  /\ ~check_conflicts(e, {schedule[k].cron : k \in Jobs \ {j}}, now)
  /\ schedule' = [schedule EXCEPT ![j] = Scheduled("custom", e)]
  /\ vetted' = [pair \in Untouched(j) \cup {{j, k} : k \in Jobs \ {j}} |->
                  IF j \in pair THEN now ELSE vetted[pair]]
  /\ UNCHANGED now

\* A preset is not checked.
PutPresetCron(j, p) ==
  /\ schedule' = [schedule EXCEPT ![j] = Scheduled(p, PresetExpression(j, p))]
  /\ vetted' = [pair \in Untouched(j) |-> vetted[pair]]
  /\ UNCHANGED now

\* Timers fire as the hours pass, up to the end of the calendar.
Passes ==
  /\ now + 1 \in Hours
  /\ now' = now + 1
  /\ UNCHANGED <<schedule, vetted>>

CronNext ==
  \/ \E j \in Jobs : (\E e \in Customs : PutCustomCron(j, e)) \/ (\E p \in Presets : PutPresetCron(j, p))
  \/ Passes

CronSpec == CronInit /\ [][CronNext]_cron

-----------------------------------------------------------------------------
Due(j) == now \in TimerRuns[schedule[j].cron]

\* Are the runs since t no more than check_conflicts looks ahead?
Foreseen(j, t) ==
  Cardinality({u \in TimerRuns[schedule[j].cron] : t < u /\ u <= now}) <= Lookahead

\* Two jobs whose schedules a PUT has compared are not due together, however long
\* ago that was, before one of them has run Lookahead times: unless croniter has
\* read an expression otherwise than the timer does (cron_utils.py:21).
VettedJobsStayApart ==
  \A pair \in DOMAIN vetted :
    (now > vetted[pair] /\ \A j \in pair : Due(j) /\ Foreseen(j, vetted[pair])) =>
      \E j \in pair : MisreadCron(schedule[j].cron)
=============================================================================
