-------------------------- MODULE MCScheduleSettings --------------------------
(* ScheduleSettings on two jobs whose defaults are one DAILY, one MONTHLY.   *)
(* Expressions are named by hour: d1 and m1 fire at the first job's hour, d2 *)
(* and m2 at the second's, f is free, bad is one only croniter takes.        *)
EXTENDS ScheduleSettings, TLC

CONSTANTS import, users, daily, monthly, d1, m1, d2, m2, f, bad

MCPresetCron ==
  import :> (daily :> d1 @@ monthly :> m1) @@ users :> (daily :> d2 @@ monthly :> m2)

MCDefaultPreset == import :> daily @@ users :> monthly

MCClash == UNION {{d1, m1} \X {d1, m1}, {d2, m2} \X {d2, m2}, {<<f, f>>}, {<<bad, bad>>}}

MCSymmetry == Permutations(Reqs)
=============================================================================
