\* Every mishap: failed commits, deleted configurations, failed startups.
SPECIFICATION Spec
CONSTANTS
  import = import
  tmdb = tmdb
  radarr = radarr
  Jobs = {import, tmdb}
  Services = {radarr}
  NoService = none
  Needs <- MCNeeds
  Reqs = {r1, r2}
  DbFaults = TRUE
  Deletions = TRUE
  StartFaults = TRUE
SYMMETRY MCSymmetry
INVARIANTS TypeOK FlagOwned
PROPERTIES ClearedByItsRun
