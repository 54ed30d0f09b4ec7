\* The only mishap is that a configuration may be deleted.
SPECIFICATION Spec
CONSTANTS
  import = import
  tmdb = tmdb
  radarr = radarr
  Jobs = {import, tmdb}
  Services = {radarr}
  NoService = none
  Needs <- MCNeeds
  Reqs = {r1, r2}
  DbFaults = FALSE
  Deletions = TRUE
  StartFaults = FALSE
INVARIANTS AlreadyRunningIsTrue
