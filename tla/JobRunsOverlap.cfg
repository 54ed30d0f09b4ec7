\* No mishap but crashes: runs of one job overlap all the same.
SPECIFICATION Spec
CONSTANTS
  import = import
  tmdb = tmdb
  radarr = radarr
  Jobs = {import, tmdb}
  Services = {radarr}
  NoService = none
  Needs <- MCNeeds
  Reqs = {r1, r2}
  DbFaults = FALSE
  Deletions = FALSE
  StartFaults = FALSE
INVARIANTS OneRunAtATime
