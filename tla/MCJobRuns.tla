------------------------------ MODULE MCJobRuns ------------------------------
(* JobRuns on two jobs, one that needs a service and one (the TMDB update)   *)
(* that needs none.                                                          *)
EXTENDS JobRuns, TLC

CONSTANTS import, tmdb, radarr

MCNeeds == import :> radarr @@ tmdb :> NoService

MCNeeds1 == import :> radarr

MCSymmetry == Permutations(Reqs)
=============================================================================
