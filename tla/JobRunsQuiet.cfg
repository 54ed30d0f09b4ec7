\* No mishap but crashes.
SPECIFICATION FairSpec
CONSTANTS
  import = import
  tmdb = tmdb
  radarr = radarr
  Jobs = {import}
  Services = {radarr}
  NoService = none
  Needs <- MCNeeds1
  Reqs = {r1, r2}
  DbFaults = FALSE
  Deletions = FALSE
  StartFaults = FALSE
INVARIANTS AlreadyRunningIsTrue
PROPERTIES AcceptedRuns FlagFalls KeepsLedger
