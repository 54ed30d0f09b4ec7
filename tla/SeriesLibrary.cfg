SPECIFICATION Spec
CONSTANTS
  x = x
  y = y
  tv = tv
  tm = tm
  im = im
  im2 = im2
  planned = planned
  watching = watching
  watched = watched
  Null = Null
  NoRun = NoRun
  NoPayload = NoPayload
  Slots <- MCSlots
  Users = {u1}
  Statuses = {planned, watching, watched}
  Begun = {watching, watched}
  Watched = watched
  Dropped = dropped
  Runs = {r1, r2}
  Faults = FALSE
  Items <- MCItems
  MaxItems = 1
  Bounded = TRUE
  MaxShared = 1
  Payloads <- MCPayloads
  Listings <- MCListings
  MaxRows = 2
CHECK_DEADLOCK FALSE
SYMMETRY MCSymmetry
INVARIANTS
  TypeOK
  ListedEpisodesAreHeld
  ReimportSettles
  HealsCollideOnlyWhenMoved
  RowsFollowJellyfin
  TmdbLosesOnlyDuplicates
PROPERTIES
  CreatesOnlyMissing
  LibraryIdsAreKept
