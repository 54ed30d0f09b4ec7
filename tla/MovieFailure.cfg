\* One run, two users, failures.
SPECIFICATION Spec
CONSTANTS
  m1 = m1
  m2 = m2
  a = a
  b = b
  c = c
  t1 = t1
  i2 = i2
  planned = planned
  watched = watched
  Users = {u1, u2}
  Movies = {m1, m2}
  NoMovie = NoMovie
  Ids = {a, b, c}
  NoId = NoId
  Tmdb <- MCTmdb
  Imdb <- MCImdb
  Statuses = {planned, watched}
  Watched = watched
  Dropped = dropped
  Libraries <- MCLibraries
  NoRun = NoRun
  MaxRows = 2
  Runs = {r1}
  Faults = TRUE
PROPERTIES FailureCostsOneUser
CHECK_DEADLOCK FALSE
