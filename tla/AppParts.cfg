SPECIFICATION Spec
CONSTANTS
  c1 = c1
  c2 = c2
  c3 = c3
  t1 = t1
  t2 = t2
  e1 = e1
  e2 = e2
  d1 = d1
  d2 = d2
  Tabs = {t1, t2}
  Calls = {c1, c2, c3}
  TabOf <- MCTabOf
  KindsOf <- MCKindsOf
  Tokens = {1, 2, 3, 4}
  NoToken = noToken
  MaxExpiries = 1
  Rows = {1, 2}
  Usernames = {n1, n2}
  Passwords = {p1}
  Requests = {q1, q2}
  MaxCodes = 3
  NoAccount = noAccount
  Urls = {url1, url2}
  Keys = {key1, key2}
  Omitted = omitted
  NoConfig = noConfig
  Puts = {put1, put2}
  MaxIds = 2
  JellyfinIds = {j1, j2, j3}
  JellyfinNames = {m1, m2, m3}
  NoName = noName
  MaxUsers = 3
  Listable = {l1, l2, l3, l4, l5}
  Limit = 2
  MaxListed = 4
  MaxEdits = 2
  Movies = {f1, f2, f3}
  Concurrency = 2
  PayloadFields <- MCPayloadFields
  Null = Null
  Episodes = {e1, e2}
  Movie = film
  SeasonOf <- MCSeasonOf
  Entries = {1, 2, 3}
  ViewerOf <- MCViewerOf
  EveryUser = everyUser
  MaxWrites = 1
  NoEntry = noEntry
  NoStatus = noStatus
  job1 = job1
  job2 = job2
  Jobs = {job1, job2}
  HourOf <- MCHourOf
  DefaultPreset <- MCDefaultPreset
  Customs <- MCCustoms
  Lookahead = 4
  MonthLengths <- MCMonthLengths
  HoursPerDay = 2
  Star = star
CHECK_DEADLOCK FALSE
INVARIANTS
  OwnRefreshNeverSignsOut
  OneTokenPerLogin
  PasswordChangeEndsSessions
  OneAccount
  OneCodeInForce
  ListIsFetched
  PagesAgree
  VettedJobsStayApart
PROPERTIES
  CallsEnd
  OmittedIsKept
  UsersMirrorJellyfin
  MoviesUpdateAlone
