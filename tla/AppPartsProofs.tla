--------------------------- MODULE AppPartsProofs ---------------------------
(***************************************************************************)
(* Proofs about the smaller parts of the app that MCAppParts checks, for   *)
(* any number of PUTs, users, pages and movies: the configuration of a     *)
(* service, the import of Jellyfin's users, the pages of a list, the       *)
(* update of movies from TMDB; what check_conflicts is worth, for every    *)
(* calendar, every set of jobs and of expressions, and every number of     *)
(* runs it looks ahead; and why the list and the page of a series agree,   *)
(* for any number of episodes, users, rows of watch_history and writes     *)
(* between two queries of a page.                                          *)
(***************************************************************************)
EXTENDS ServiceSettings, UsersImport, Pagination, TmdbMovies, CronConflicts,
        MediaViews, FiniteSetTheorems, SequenceTheorems, TLAPS
-----------------------------------------------------------------------------
(* ServiceSettings.                                                         *)

ConfigRow == [id : Nat, url : Urls, key : Keys]

PutUnderWay ==
  [at : {"merged", "found"}, body : [url : Urls \cup {Omitted}, key : Keys \cup {Omitted}],
   read : {NoConfig} \cup ConfigRow, raced : BOOLEAN, to : [url : Urls, key : Keys]]

SettingsTyped ==
  /\ config \in {NoConfig} \cup ConfigRow
  /\ put \in [Puts -> {Ended} \cup PutUnderWay]
  /\ ids \in Nat

\* A PUT that omits the key, and that no commit has raced, holds the key of the row.
HoldsTheKey(q) ==
  put[q] # Ended /\ put[q].body.key = Omitted /\ ~put[q].raced =>
    config # NoConfig /\ put[q].to.key = config.key

SettingsInv == SettingsTyped /\ \A q \in Puts : HoldsTheKey(q)

LEMMA RacedTyped ==
  ASSUME SettingsTyped, NEW q \in Puts
  PROVE  /\ Raced(q) \in [Puts -> {Ended} \cup PutUnderWay]
         /\ \A p \in Puts : Raced(q)[p] = Ended \/ Raced(q)[p].raced
<1>1. ASSUME NEW p \in Puts, put[p] # Ended
      PROVE  /\ [put[p] EXCEPT !.raced = TRUE] \in PutUnderWay
             /\ [put[p] EXCEPT !.raced = TRUE].raced
  BY <1>1 DEF SettingsTyped, PutUnderWay
<1> QED BY <1>1 DEF Raced

LEMMA SettingsInductive ==
  ASSUME SettingsInv, [SettingsNext]_settings
  PROVE  SettingsInv'
<1> USE DEF SettingsInv
<1>1. CASE UNCHANGED settings
  BY <1>1 DEF settings, SettingsTyped, HoldsTheKey
<1>2. CASE Deletes
  <2>1. ASSUME NEW p \in Puts, put[p] # Ended
        PROVE  /\ [put[p] EXCEPT !.raced = TRUE] \in PutUnderWay
               /\ [put[p] EXCEPT !.raced = TRUE].raced
    BY <2>1 DEF SettingsTyped, PutUnderWay
  <2> QED BY <1>2, <2>1 DEF Deletes, SettingsTyped, HoldsTheKey
<1>3. ASSUME NEW q \in Puts, FindsConfig(q)
      PROVE  SettingsInv'
  <2>1. put[q] \in PutUnderWay
    BY <1>3 DEF FindsConfig, SettingsTyped, Ended
  <2>2. Loaded(q) \in {NoConfig} \cup ConfigRow
    BY <2>1 DEF Loaded, SettingsTyped, PutUnderWay
  <2>3. /\ put'[q] \in PutUnderWay /\ put'[q].body = put[q].body
        /\ put'[q].raced = put[q].raced /\ put'[q].to = put[q].to
        /\ \A p \in Puts \ {q} : put'[p] = put[p]
        /\ put' \in [Puts -> {Ended} \cup PutUnderWay]
    BY <1>3, <2>1, <2>2 DEF FindsConfig, SettingsTyped, PutUnderWay
  <2>4. config' = config /\ ids' = ids /\ put[q] # Ended
    BY <1>3 DEF FindsConfig, Ended
  <2> QED BY <2>3, <2>4 DEF SettingsTyped, HoldsTheKey
<1>4. ASSUME NEW q \in Puts, Inserts(q)
      PROVE  SettingsInv'
  <2>1. put[q] \in PutUnderWay
    BY <1>4 DEF Inserts, SettingsTyped, Ended
  <2>2. config' \in ConfigRow /\ ids' \in Nat
    BY <1>4, <2>1 DEF Inserts, SettingsTyped, PutUnderWay, ConfigRow
  <2>3. put' = Raced(q)
    BY <1>4 DEF Inserts
  <2> QED BY <2>2, <2>3, RacedTyped DEF SettingsTyped, HoldsTheKey
<1>5. ASSUME NEW q \in Puts, Updates(q)
      PROVE  SettingsInv'
  <2>1. put[q] \in PutUnderWay
    BY <1>5 DEF Updates, SettingsTyped, Ended
  <2>2. config \in ConfigRow
    BY <1>5 DEF Updates, StillThere, SettingsTyped
  <2>3. config' \in ConfigRow /\ ids' = ids
    BY <1>5, <2>1, <2>2 DEF Updates, PutUnderWay, ConfigRow
  <2>4. put' = Raced(q)
    BY <1>5 DEF Updates
  <2> QED BY <2>3, <2>4, RacedTyped DEF SettingsTyped, HoldsTheKey
<1>6. ASSUME NEW q \in Puts, PutFails(q)
      PROVE  SettingsInv'
  BY <1>6 DEF PutFails, SettingsTyped, HoldsTheKey
<1>7. ASSUME NEW q \in Puts, NEW url \in Urls \cup {Omitted}, NEW key \in Keys \cup {Omitted},
             ReadsConfig(q, [url |-> url, key |-> key])
      PROVE  SettingsInv'
  <2> DEFINE body == [url |-> url, key |-> key]
             to == IF config = NoConfig THEN body ELSE Merged(body, config)
             new == [at |-> "merged", body |-> body, read |-> config, raced |-> FALSE, to |-> to]
  <2>1. to \in [url : Urls, key : Keys]
    BY <1>7 DEF ReadsConfig, Merged, SettingsTyped, ConfigRow
  <2>2. new \in PutUnderWay
    BY <2>1 DEF PutUnderWay, SettingsTyped
  <2>3. put' = [put EXCEPT ![q] = new] /\ config' = config /\ ids' = ids
    BY <1>7 DEF ReadsConfig
  <2>4. key = Omitted => config # NoConfig /\ to.key = config.key
    BY <1>7 DEF ReadsConfig, Merged
  <2>5. put' \in [Puts -> {Ended} \cup PutUnderWay]
    BY <2>2, <2>3 DEF SettingsTyped
  <2>6. \A p \in Puts : HoldsTheKey(p)'
    BY <2>3, <2>4 DEF SettingsTyped, HoldsTheKey
  <2> QED BY <2>3, <2>5, <2>6 DEF SettingsTyped
<1> QED BY <1>1, <1>2, <1>3, <1>4, <1>5, <1>6, <1>7 DEF SettingsNext

\* A field that a PUT omits keeps its value, unless another PUT or a DELETE has
\* committed since the first read of the row; the url is kept whenever the row is
\* the one first read and the merged url is its own (settings.py 60-90).
THEOREM OmittedFieldsAreKept == SettingsSpec => OmittedIsKept
<1>1. SettingsInit => SettingsInv
  BY DEF SettingsInit, SettingsInv, SettingsTyped, HoldsTheKey
<1>2. ASSUME SettingsInv, [SettingsNext]_settings, NEW q \in Puts,
             put[q].at = "found", config # NoConfig, config' \notin {config, NoConfig}, put'[q] = Ended
      PROVE  /\ put[q].body.url = Omitted /\ put[q].read.id = config.id /\ put[q].to.url = put[q].read.url
                  => config'.url = config.url
             /\ put[q].body.key = Omitted /\ ~put[q].raced => config'.key = config.key
  <2>1. put[q] \in PutUnderWay /\ put[q] # Ended /\ config \in ConfigRow
    BY <1>2 DEF SettingsInv, SettingsTyped, Ended
  <2>2. PICK p \in Puts : Updates(p)
    BY <1>2 DEF SettingsNext, settings, Deletes, FindsConfig, Inserts, PutFails, ReadsConfig
  <2>3. [put[q] EXCEPT !.raced = TRUE] # Ended
    BY <2>1 DEF PutUnderWay, Ended
  <2>4. p = q
    BY <1>2, <2>1, <2>2, <2>3 DEF Updates, Raced
  <2>5. /\ config'.url = IF put[q].to.url = put[q].read.url THEN config.url ELSE put[q].to.url
        /\ config'.key = put[q].to.key
    BY <2>1, <2>2, <2>4 DEF Updates, ConfigRow
  <2> QED BY <1>2, <2>1, <2>5 DEF SettingsInv, HoldsTheKey
<1>3. SettingsInv /\ [SettingsNext]_settings =>
       \A q \in Puts :
       put[q].at = "found" /\ config # NoConfig /\ config' \notin {config, NoConfig} /\ put'[q] = Ended =>
         /\ put[q].body.url = Omitted /\ put[q].read.id = config.id /\ put[q].to.url = put[q].read.url
              => config'.url = config.url
         /\ put[q].body.key = Omitted /\ ~put[q].raced => config'.key = config.key
  BY <1>2
<1> QED BY <1>1, <1>3, SettingsInductive, PTL DEF SettingsSpec, OmittedIsKept

-----------------------------------------------------------------------------
(* UsersImport.                                                             *)

Users == JellyfinIds \X JellyfinNames

Importing ==
  [at : {"users"}, flushed : [JellyfinIds -> JellyfinNames \cup {NoName}],
   list : UserLists, left : Seq(Users)]

UsersTyped ==
  /\ names \in [JellyfinIds -> JellyfinNames \cup {NoName}]
  /\ importing \in {NotImporting} \cup Importing

\* The list is one of distinct users.
DistinctUsers(users) ==
  \A m, n \in DOMAIN users : m # n => users[m][1] # users[n][1] /\ users[m][2] # users[n][2]

\* The first n of the list are flushed, and the others left.
FlushedFirst(n) ==
  /\ Len(importing.left) = Len(importing.list) - n
  /\ \A k \in 1..Len(importing.left) : importing.left[k] = importing.list[n + k]
  /\ \A k \in 1..n : importing.flushed[importing.list[k][1]] = importing.list[k][2]
  /\ \A i \in JellyfinIds :
       (\A k \in 1..n : importing.list[k][1] # i) => importing.flushed[i] = names[i]

UsersInv ==
  /\ UsersTyped
  /\ importing # NotImporting => \E n \in 0..Len(importing.list) : FlushedFirst(n)

LEMMA UserListsAre ==
  ASSUME NEW users \in UserLists
  PROVE  users \in Seq(Users) /\ DistinctUsers(users) /\ DOMAIN users = 1..Len(users)
<1>1. PICK n \in 1..MaxUsers : users \in [1..n -> Users]
  BY DEF UserLists, Users
<1>2. n \in Nat
  BY UsersImportAssumption
<1>3. users \in Seq(Users)
  BY <1>1, <1>2
<1> QED BY <1>3 DEF UserLists, DistinctUsers

LEMMA UsersInductive ==
  ASSUME UsersInv, [UsersNext]_usersImport
  PROVE  UsersInv'
<1> USE DEF UsersInv
<1>1. CASE UNCHANGED usersImport
  BY <1>1 DEF usersImport, UsersTyped, FlushedFirst
<1>2. ASSUME NEW users \in UserLists, StartsUsers(users)
      PROVE  UsersInv'
  <2>1. users \in Seq(Users)
    BY UserListsAre
  <2>2. importing' \in Importing /\ names' = names
    BY <1>2, <2>1 DEF StartsUsers, Importing, UsersTyped
  <2>3. FlushedFirst(0)'
    BY <1>2, <2>1 DEF StartsUsers, FlushedFirst
  <2>4. 0 \in 0..Len(importing'.list)
    BY <1>2, <2>1 DEF StartsUsers
  <2> QED BY <2>2, <2>3, <2>4 DEF UsersTyped
<1>3. CASE ImportsUser
  <2>1. importing \in Importing /\ importing # NotImporting
    BY <1>3 DEF ImportsUser, UsersTyped, NotImporting
  <2>2. PICK n \in 0..Len(importing.list) : FlushedFirst(n)
    BY <2>1
  <2> DEFINE user == Head(importing.left)
  <2>3. /\ importing.list \in Seq(Users) /\ DistinctUsers(importing.list)
        /\ DOMAIN importing.list = 1..Len(importing.list)
    BY <2>1, UserListsAre DEF Importing
  <2>4. importing.left \in Seq(Users) /\ importing.left # <<>>
    BY <1>3, <2>1 DEF ImportsUser, Importing
  <2>5. n + 1 \in 1..Len(importing.list) /\ user = importing.list[n + 1]
    BY <2>2, <2>3, <2>4 DEF FlushedFirst
  <2>6. user \in Users /\ user[1] \in JellyfinIds /\ user[2] \in JellyfinNames
    BY <2>3, <2>5 DEF Users
  <2>7. /\ Tail(importing.left) \in Seq(Users)
        /\ Len(Tail(importing.left)) = Len(importing.left) - 1
        /\ \A k \in 1..Len(Tail(importing.left)) : Tail(importing.left)[k] = importing.left[k + 1]
    BY <2>4
  <2>8. [importing.flushed EXCEPT ![user[1]] = user[2]] \in [JellyfinIds -> JellyfinNames \cup {NoName}]
    BY <2>1, <2>6 DEF Importing
  <2>9. /\ importing'.list = importing.list /\ names' = names
        /\ importing'.left = Tail(importing.left)
        /\ importing'.flushed = [importing.flushed EXCEPT ![user[1]] = user[2]]
        /\ importing' \in Importing
    BY <1>3, <2>1, <2>7, <2>8 DEF ImportsUser, Importing, Flushed
  <2>10. ASSUME NEW k \in 1..n
        PROVE  /\ importing.list[k] \in Users /\ importing.list[k][1] \in JellyfinIds
               /\ importing.list[k][1] # user[1]
    <3>1. k \in DOMAIN importing.list /\ n + 1 \in DOMAIN importing.list /\ k # n + 1
      BY <2>3, <2>5
    <3>2. importing.list[k] \in Users
      BY <2>3, <3>1
    <3> QED BY <2>3, <2>5, <3>1, <3>2 DEF DistinctUsers, Users
  <2>11. /\ Len(importing'.left) = Len(importing'.list) - (n + 1)
        /\ \A k \in 1..Len(importing'.left) : importing'.left[k] = importing'.list[n + 1 + k]
    <3>1. Len(importing.left) \in Nat /\ Len(importing.list) \in Nat
      BY <2>3, <2>4
    <3>2. ASSUME NEW k \in 1..Len(Tail(importing.left))
          PROVE  importing.left[k + 1] = importing.list[n + 1 + k]
      <4>1. k + 1 \in 1..Len(importing.left) /\ n + (k + 1) = n + 1 + k
        BY <2>7, <3>1
      <4> QED BY <2>2, <4>1 DEF FlushedFirst
    <3> QED BY <2>2, <2>7, <2>9, <3>1, <3>2 DEF FlushedFirst
  <2>12. importing.flushed \in [JellyfinIds -> JellyfinNames \cup {NoName}]
    BY <2>1 DEF Importing
  <2>13. \A k \in 1..(n + 1) : importing'.flushed[importing'.list[k][1]] = importing'.list[k][2]
    BY <2>2, <2>5, <2>6, <2>9, <2>10, <2>12 DEF FlushedFirst
  <2>14. \A i \in JellyfinIds :
           (\A k \in 1..(n + 1) : importing'.list[k][1] # i) => importing'.flushed[i] = names'[i]
    BY <2>2, <2>5, <2>6, <2>9, <2>12 DEF FlushedFirst
  <2>15. FlushedFirst(n + 1)'
    BY <2>11, <2>13, <2>14 DEF FlushedFirst
  <2>16. n + 1 \in 0..Len(importing'.list)
    BY <2>5, <2>9
  <2> QED BY <2>9, <2>15, <2>16 DEF UsersTyped
<1>4. CASE UsersFail
  BY <1>4 DEF UsersFail, UsersTyped
<1>5. CASE UsersCommit
  <2>1. importing \in Importing
    BY <1>5 DEF UsersCommit, UsersTyped, NotImporting
  <2> QED BY <1>5, <2>1 DEF UsersCommit, UsersTyped, Importing
<1> QED BY <1>1, <1>2, <1>3, <1>4, <1>5 DEF UsersNext

\* An import of users leaves every listed user with its name and the others alone,
\* or nothing, and that only if a listed name is another user's in the table: the
\* collision is never one of the list's own making (jellyfin_users_service.py 23-85).
THEOREM ImportsMirrorJellyfin == UsersSpec => UsersMirrorJellyfin
<1> DEFINE Listed(i) == \E user \in Range(importing.list) : user[1] = i
           Mirrors ==
             \/ \A i \in JellyfinIds : names'[i] =
                  IF \E user \in Range(importing.list) : user[1] = i
                  THEN (CHOOSE user \in Range(importing.list) : user[1] = i)[2] ELSE names[i]
             \/ /\ names' = names
                /\ \E user \in Range(importing.list) : \E i \in JellyfinIds \ {user[1]} : names[i] = user[2]
<1>1. UsersInit => UsersInv
  BY DEF UsersInit, UsersInv, UsersTyped
<1>2. ASSUME UsersInv, [UsersNext]_usersImport, importing # NotImporting, importing' = NotImporting
      PROVE  Mirrors
  <2>1. importing \in Importing
    BY <1>2 DEF UsersInv, UsersTyped
  <2>2. PICK n \in 0..Len(importing.list) : FlushedFirst(n)
    BY <1>2 DEF UsersInv
  <2>3. /\ importing.list \in Seq(Users) /\ DistinctUsers(importing.list)
        /\ DOMAIN importing.list = 1..Len(importing.list)
    BY <2>1, UserListsAre DEF Importing
  <2>4. importing.left \in Seq(Users)
    BY <2>1 DEF Importing
  <2>5. \A k \in 1..Len(importing.list) :
           importing.list[k] \in Users /\ importing.list[k] \in Range(importing.list)
    BY <2>3 DEF Range
  <2>6. UsersFail \/ UsersCommit
    BY <1>2, <2>1 DEF UsersNext, StartsUsers, ImportsUser, usersImport, Importing, NotImporting
  <2>7. CASE UsersFail
    <3> DEFINE user == Head(importing.left)
    <3>1. n + 1 \in 1..Len(importing.list) /\ user = importing.list[n + 1]
      BY <2>2, <2>3, <2>4, <2>7 DEF FlushedFirst, UsersFail
    <3>2. PICK i \in JellyfinIds \ {user[1]} : importing.flushed[i] = user[2]
      BY <2>7 DEF UsersFail, Collides
    <3>3. \A k \in 1..n : importing.list[k][2] # user[2]
      BY <2>3, <3>1 DEF DistinctUsers
    <3>4. names[i] = user[2]
      BY <2>2, <3>2, <3>3 DEF FlushedFirst
    <3>5. names' = names
      BY <2>7 DEF UsersFail
    <3> QED BY <2>5, <3>1, <3>2, <3>4, <3>5
  <2>8. CASE UsersCommit
    <3>1. n = Len(importing.list) /\ names' = importing.flushed
      BY <2>2, <2>3, <2>8 DEF UsersCommit, FlushedFirst
    <3>2. ASSUME NEW i \in JellyfinIds
          PROVE  names'[i] = IF Listed(i)
                             THEN (CHOOSE user \in Range(importing.list) : user[1] = i)[2]
                             ELSE names[i]
      <4>1. CASE Listed(i)
        <5> DEFINE user == CHOOSE user \in Range(importing.list) : user[1] = i
        <5>1. user \in Range(importing.list) /\ user[1] = i
          BY <4>1
        <5>2. PICK k \in 1..Len(importing.list) : user = importing.list[k]
          BY <2>3, <5>1 DEF Range
        <5>3. importing.flushed[importing.list[k][1]] = importing.list[k][2]
          BY <2>2, <3>1 DEF FlushedFirst
        <5> HIDE DEF user
        <5>4. importing.flushed[i] = user[2]
          BY <5>1, <5>2, <5>3
        <5> QED BY <3>1, <4>1, <5>4 DEF user
      <4>2. CASE ~Listed(i)
        BY <2>2, <2>5, <3>1, <4>2 DEF FlushedFirst
      <4> QED BY <4>1, <4>2
    <3> QED BY <3>2
  <2> QED BY <2>6, <2>7, <2>8
<1>3. UsersInv /\ [UsersNext]_usersImport =>
        (importing # NotImporting /\ importing' = NotImporting => Mirrors)
  BY <1>2
<1> QED BY <1>1, <1>3, UsersInductive, PTL DEF UsersSpec, UsersMirrorJellyfin

-----------------------------------------------------------------------------
(* TmdbMovies.                                                              *)

MovieRow == [title : {"import", "tmdb"}, rating : {"import", "tmdb"}, poster : {Null, "import", "tmdb"}]

Gathering ==
  [at : {"gather"}, seen : [Movies -> MovieRow], now : [Movies -> MovieRow], waiting : SUBSET Movies,
   fetching : SUBSET Movies, has : [Movies -> {{}} \cup PayloadFields], raced : SUBSET Movies]

TmdbTyped == movie \in [Movies -> MovieRow] /\ job \in {NoJob} \cup Gathering

\* What the job holds of movie m.
JobHolds(j, held, m) ==
  /\ m \in j.waiting \cup j.fetching => j.has[m] = {}
  /\ m \in j.waiting => m \notin j.fetching
  /\ j.now[m] = Applied(j.seen[m], j.has[m])
  /\ IF m \in j.raced
     THEN held[m].title = j.seen[m].title /\ held[m].rating = "import" /\ held[m].poster = "import"
     ELSE held[m] = j.seen[m]

MoviesInv == TmdbTyped /\ (job # NoJob => \A m \in Movies : JobHolds(job, movie, m))

LEMMA AppliedTyped ==
  ASSUME NEW row \in MovieRow, NEW has
  PROVE  Applied(row, has) \in MovieRow /\ Applied(row, {}) = row
BY DEF Applied, MovieRow

LEMMA MoviesInductive ==
  ASSUME MoviesInv, [MoviesNext]_tmdbMovies
  PROVE  MoviesInv'
<1> USE DEF MoviesInv
<1>1. CASE UNCHANGED tmdbMovies
  BY <1>1 DEF tmdbMovies, TmdbTyped, JobHolds
<1>2. CASE StartsMovies
  <2>1. job' \in Gathering /\ movie' = movie
    BY <1>2 DEF StartsMovies, TmdbTyped, Gathering
  <2>2. \A m \in Movies : JobHolds(job', movie', m)
    BY <1>2, AppliedTyped DEF StartsMovies, TmdbTyped, JobHolds
  <2> QED BY <2>1, <2>2 DEF TmdbTyped, JobHolds
<1>3. CASE MoviesCommit
  <2>1. job \in Gathering
    BY <1>3 DEF MoviesCommit, TmdbTyped, NoJob
  <2>2. \A m \in Movies : Flush(m) \in MovieRow
    BY <2>1 DEF Gathering, TmdbTyped, Flush, MovieRow
  <2>3. movie' \in [Movies -> MovieRow] /\ job' = NoJob
    BY <1>3, <2>2 DEF MoviesCommit
  <2> QED BY <2>3 DEF TmdbTyped
<1>4. ASSUME NEW m \in Movies, Fetches(m)
      PROVE  MoviesInv'
  <2>1. job \in Gathering /\ movie' = movie
    BY <1>4 DEF Fetches, TmdbTyped, NoJob
  <2>2. job' \in Gathering
    BY <1>4, <2>1 DEF Fetches, Gathering
  <2>3. \A n \in Movies : JobHolds(job', movie', n)
    BY <1>4, <2>1 DEF Fetches, Gathering, JobHolds, NoJob
  <2> QED BY <2>1, <2>2, <2>3 DEF TmdbTyped, JobHolds
<1>5. ASSUME NEW m \in Movies, NEW has \in PayloadFields, Answered(m, has)
      PROVE  MoviesInv'
  <2>1. job \in Gathering /\ movie' = movie /\ m \in job.fetching /\ m \notin job.waiting /\ job # NoJob
    BY <1>5 DEF Answered, TmdbTyped, NoJob, JobHolds
  <2>2. job.seen[m] \in MovieRow /\ job.now[m] = job.seen[m]
    BY <2>1, AppliedTyped DEF Gathering, JobHolds
  <2>3. job' \in Gathering
    BY <1>5, <2>1, <2>2, AppliedTyped DEF Answered, Gathering
  <2>4. \A n \in Movies : JobHolds(job', movie', n)
    BY <1>5, <2>1, <2>2 DEF Answered, Gathering, JobHolds
  <2> QED BY <2>1, <2>3, <2>4 DEF TmdbTyped, JobHolds
<1>6. ASSUME NEW m \in Movies, FetchFails(m)
      PROVE  MoviesInv'
  <2>1. job \in Gathering /\ movie' = movie
    BY <1>6 DEF FetchFails, TmdbTyped, NoJob
  <2>2. job' \in Gathering
    BY <1>6, <2>1 DEF FetchFails, Gathering
  <2>3. \A n \in Movies : JobHolds(job', movie', n)
    BY <1>6, <2>1 DEF FetchFails, Gathering, JobHolds, NoJob
  <2> QED BY <2>1, <2>2, <2>3 DEF TmdbTyped, JobHolds
<1>7. ASSUME NEW m \in Movies, ImportWrites(m)
      PROVE  MoviesInv'
  <2>1. movie[m] \in MovieRow
    BY DEF TmdbTyped
  <2>2. /\ movie'[m].title = movie[m].title /\ movie'[m].rating = "import" /\ movie'[m].poster = "import"
        /\ \A n \in Movies \ {m} : movie'[n] = movie[n]
    BY <1>7, <2>1 DEF ImportWrites, TmdbTyped, MovieRow
  <2>4. movie' \in [Movies -> MovieRow]
    BY <1>7, <2>1 DEF ImportWrites, TmdbTyped, MovieRow
  <2>5. CASE job = NoJob
    BY <1>7, <2>4, <2>5 DEF ImportWrites, TmdbTyped
  <2>6. CASE job # NoJob
    <3>1. job \in Gathering /\ job' = [job EXCEPT !.raced = @ \cup {m}]
      BY <1>7, <2>6 DEF ImportWrites, TmdbTyped
    <3>2. job' \in Gathering
      BY <3>1 DEF Gathering
    <3>3. \A n \in Movies : JobHolds(job', movie', n)
      BY <2>1, <2>2, <2>6, <3>1 DEF Gathering, JobHolds, TmdbTyped
    <3> QED BY <2>4, <3>2, <3>3 DEF TmdbTyped, JobHolds
  <2> QED BY <2>5, <2>6
<1> QED BY <1>1, <1>2, <1>3, <1>4, <1>5, <1>6, <1>7 DEF MoviesNext

\* A movie whose fetch fails is left as it is, and one whose payload arrives takes
\* what the payload has: TMDB's title, its rating and a missing poster, whatever an
\* import commits meanwhile except to that movie
\* (update_tmdb_metadata_service.py 36-140).
THEOREM MoviesAreUpdatedAlone == MoviesSpec => MoviesUpdateAlone
<1>1. MoviesInit => MoviesInv
  BY DEF MoviesInit, MoviesInv, TmdbTyped, MovieRow
<1>2. ASSUME MoviesInv, [MoviesNext]_tmdbMovies, job # NoJob, job' = NoJob, NEW m \in Movies
      PROVE  UpdatedAlone(m)
  <2>1. job \in Gathering /\ movie \in [Movies -> MovieRow] /\ JobHolds(job, movie, m)
    BY <1>2 DEF MoviesInv, TmdbTyped
  <2>2. job.at = "gather"
    BY <2>1 DEF Gathering
  <2>3. MoviesCommit
    BY <1>2, <2>1, <2>2 DEF MoviesNext, StartsMovies, Fetches, Answered, FetchFails, ImportWrites,
                     tmdbMovies, Gathering, NoJob
  <2>4. movie'[m] = Flush(m)
    BY <2>3 DEF MoviesCommit
  <2>5. movie[m] \in MovieRow /\ job.seen[m] \in MovieRow
    BY <2>1 DEF Gathering
  <2>6. job.now[m] = Applied(job.seen[m], job.has[m])
    BY <2>1 DEF JobHolds
  <2>7. IF m \in job.raced
        THEN movie[m].title = job.seen[m].title /\ movie[m].rating = "import" /\ movie[m].poster = "import"
        ELSE movie[m] = job.seen[m]
    BY <2>1 DEF JobHolds
  <2> QED BY <2>4, <2>5, <2>6, <2>7, TmdbMoviesAssumption DEF MovieRow, Applied, Flush, UpdatedAlone
<1>3. MoviesInv /\ [MoviesNext]_tmdbMovies =>
        (job # NoJob /\ job' = NoJob =>
         \A m \in Movies : UpdatedAlone(m))
  BY <1>2
<1> QED BY <1>1, <1>3, MoviesInductive, PTL DEF MoviesSpec, MoviesUpdateAlone

-----------------------------------------------------------------------------
(* Pagination.                                                              *)

PagesTyped ==
  /\ list \in Seq(Listable)
  /\ fetch \in [at : {"page", "done"}, start : Nat, got : Seq(Listable)]
  /\ edits \in [inserted : SUBSET Listable, removed : SUBSET Listable]

\* While pages are asked for, all_items holds what start_index says.
PagesAreFull == fetch.at = "page" => Len(fetch.got) = fetch.start

\* What the pages before start_index are worth.
PrefixFetched ==
  fetch.at = "page" =>
    /\ edits.inserted \cup edits.removed = {} =>
         fetch.start <= Len(list) /\ \A k \in 1..fetch.start : fetch.got[k] = list[k]
    /\ edits.removed = {} =>
         \A k \in 1..Len(list) : k <= fetch.start =>
           list[k] \in edits.inserted \/ \E n \in 1..Len(fetch.got) : fetch.got[n] = list[k]
    /\ edits.inserted = {} =>
         /\ \A m, n \in 1..Len(fetch.got) : fetch.got[m] = fetch.got[n] => m = n
         /\ \A k \in 1..Len(list) : k > fetch.start =>
              \A n \in 1..Len(fetch.got) : fetch.got[n] # list[k]

ListIsDistinct == \A m, n \in 1..Len(list) : list[m] = list[n] => m = n

PagesInv == PagesTyped /\ PagesAreFull /\ PrefixFetched /\ ListIsDistinct /\ ListIsFetched

LEMMA SeqRange ==
  ASSUME NEW s \in Seq(Listable)
  PROVE  /\ \A x : x \in Range(s) <=> (\E n \in 1..Len(s) : s[n] = x)
         /\ IsInjective(s) <=> (\A m, n \in 1..Len(s) : s[m] = s[n] => m = n)
<1>1. DOMAIN s = 1..Len(s)
  OBVIOUS
<1>2. \A x : x \in Range(s) <=> (\E n \in 1..Len(s) : s[n] = x)
  BY <1>1 DEF Range
<1>3. IsInjective(s) <=> (\A m, n \in 1..Len(s) : s[m] = s[n] => m = n)
  BY <1>1 DEF IsInjective
<1> QED BY <1>2, <1>3

\* t is the list s with e put in at place i.
HasAt(t, s, i, e) ==
  /\ t \in Seq(Listable)
  /\ Len(t) = Len(s) + 1
  /\ \A k \in 1..(Len(s) + 1) : t[k] = IF k < i THEN s[k] ELSE IF k = i THEN e ELSE s[k - 1]

LEMMA InsertedInto ==
  ASSUME NEW s \in Seq(Listable), NEW i \in 1..(Len(s) + 1), NEW e \in Listable
  PROVE  HasAt(InsertAt(s, i, e), s, i, e)
<1> DEFINE before == SubSeq(s, 1, i - 1)
           after == SubSeq(s, i, Len(s))
<1>1. Len(s) \in Nat /\ \A k \in 1..Len(s) : s[k] \in Listable
  OBVIOUS
<1>2. /\ before \in Seq(Listable) /\ Len(before) = i - 1
      /\ \A k \in 1..(i - 1) : before[k] = s[k]
  <2>1. \A k \in 1..(i - 1) : s[k] \in Listable
    BY <1>1
  <2> QED BY <1>1, <2>1, SubSeqProperties
<1>3. /\ after \in Seq(Listable) /\ Len(after) = Len(s) - i + 1
      /\ \A k \in 1..(Len(s) - i + 1) : after[k] = s[i + k - 1]
  <2>1. \A k \in i..Len(s) : s[k] \in Listable
    BY <1>1
  <2> QED BY <1>1, <2>1, SubSeqProperties
<1>4. <<e>> \in Seq(Listable) /\ Len(<<e>>) = 1 /\ <<e>>[1] = e
  OBVIOUS
<1>5. InsertAt(s, i, e) = (before \o <<e>>) \o after
  BY DEF InsertAt
<1> HIDE DEF before, after
<1> DEFINE front == before \o <<e>>
           whole == front \o after
<1>6. /\ front \in Seq(Listable) /\ Len(front) = i
      /\ \A k \in 1..i : front[k] = IF k < i THEN s[k] ELSE e
  BY <1>2, <1>4, ConcatProperties
<1>7. InsertAt(s, i, e) = whole
  BY <1>5
<1> HIDE DEF front
<1>8. /\ whole \in Seq(Listable) /\ Len(whole) = Len(front) + Len(after)
      /\ \A k \in 1..(Len(front) + Len(after)) :
           whole[k] = IF k <= Len(front) THEN front[k] ELSE after[k - Len(front)]
  BY <1>3, <1>6, ConcatProperties
<1> HIDE DEF whole
<1>9. Len(whole) = Len(s) + 1
  BY <1>1, <1>3, <1>6, <1>8
<1>10. ASSUME NEW k \in 1..(Len(s) + 1)
       PROVE  whole[k] = IF k < i THEN s[k] ELSE IF k = i THEN e ELSE s[k - 1]
  <2>1. whole[k] = IF k <= i THEN front[k] ELSE after[k - i]
    BY <1>1, <1>3, <1>6, <1>8, <1>9
  <2>2. CASE k <= i
    BY <1>6, <1>9, <2>1, <2>2
  <2>3. CASE k > i
    <3>1. k - i \in 1..(Len(s) - i + 1) /\ i + (k - i) - 1 = k - 1
      BY <1>1, <1>9, <2>3
    <3>2. after[k - i] = s[k - 1]
      BY <1>3, <3>1
    <3> QED BY <1>1, <1>9, <2>1, <2>3, <3>2
  <2> QED BY <1>1, <1>9, <2>2, <2>3
<1> QED BY <1>7, <1>8, <1>9, <1>10 DEF HasAt

LEMMA RemovedFrom ==
  ASSUME NEW s \in Seq(Listable), NEW n \in 1..Len(s)
  PROVE  /\ RemoveAt(s, n) \in Seq(Listable)
         /\ Len(RemoveAt(s, n)) = Len(s) - 1
         /\ \A k \in 1..(Len(s) - 1) : RemoveAt(s, n)[k] = IF k < n THEN s[k] ELSE s[k + 1]
<1> DEFINE before == SubSeq(s, 1, n - 1)
           after == SubSeq(s, n + 1, Len(s))
<1>1. Len(s) \in Nat /\ \A k \in 1..Len(s) : s[k] \in Listable
  OBVIOUS
<1>2. /\ before \in Seq(Listable) /\ Len(before) = n - 1
      /\ \A k \in 1..(n - 1) : before[k] = s[k]
  <2>1. \A k \in 1..(n - 1) : s[k] \in Listable
    BY <1>1
  <2> QED BY <1>1, <2>1, SubSeqProperties
<1>3. /\ after \in Seq(Listable) /\ Len(after) = Len(s) - n
      /\ \A k \in 1..(Len(s) - n) : after[k] = s[n + k]
  <2>1. \A k \in (n + 1)..Len(s) : s[k] \in Listable
    BY <1>1
  <2> QED BY <1>1, <2>1, SubSeqProperties
<1>4. RemoveAt(s, n) = before \o after
  BY DEF RemoveAt
<1> HIDE DEF before, after
<1> DEFINE whole == before \o after
<1>5. /\ whole \in Seq(Listable) /\ Len(whole) = Len(before) + Len(after)
      /\ \A k \in 1..(Len(before) + Len(after)) :
           whole[k] = IF k <= Len(before) THEN before[k] ELSE after[k - Len(before)]
  BY <1>2, <1>3, ConcatProperties
<1>6. RemoveAt(s, n) = whole
  BY <1>4
<1> HIDE DEF whole
<1>7. Len(whole) = Len(s) - 1
  BY <1>1, <1>2, <1>3, <1>5
<1>8. ASSUME NEW k \in 1..(Len(s) - 1)
      PROVE  whole[k] = IF k < n THEN s[k] ELSE s[k + 1]
  <2>1. whole[k] = IF k <= n - 1 THEN before[k] ELSE after[k - (n - 1)]
    BY <1>1, <1>2, <1>3, <1>5, <1>7
  <2>2. CASE k < n
    BY <1>1, <1>2, <2>1, <2>2
  <2>3. CASE k >= n
    <3>1. k - (n - 1) \in 1..(Len(s) - n) /\ n + (k - (n - 1)) = k + 1
      BY <1>1, <2>3
    <3>2. after[k - (n - 1)] = s[k + 1]
      BY <1>3, <3>1
    <3> QED BY <1>1, <2>1, <2>3, <3>2
  <2> QED BY <1>1, <2>2, <2>3
<1> QED BY <1>5, <1>6, <1>7, <1>8

\* A page: the items from start on, Limit of them or those that there are.
LEMMA PageIs ==
  ASSUME list \in Seq(Listable), NEW start \in Nat
  PROVE  /\ Page(start) \in Seq(Listable)
         /\ Len(Page(start)) =
              IF start + Limit < Len(list) THEN Limit ELSE IF start <= Len(list) THEN Len(list) - start ELSE 0
         /\ \A k \in 1..Len(Page(start)) : start + k \in 1..Len(list) /\ Page(start)[k] = list[start + k]
<1> DEFINE last == IF start + Limit < Len(list) THEN start + Limit ELSE Len(list)
<1>1. Len(list) \in Nat /\ last \in Nat /\ last <= Len(list) /\ Limit \in Nat
  BY PaginationAssumption
<1>2. \A k \in (start + 1)..last : list[k] \in Listable
  BY <1>1
<1> HIDE DEF last
<1>3. /\ SubSeq(list, start + 1, last) \in Seq(Listable)
      /\ Len(SubSeq(list, start + 1, last)) = IF start + 1 <= last THEN last - (start + 1) + 1 ELSE 0
      /\ \A k \in 1..(last - (start + 1) + 1) :
           SubSeq(list, start + 1, last)[k] = list[start + 1 + k - 1]
  BY <1>1, <1>2, SubSeqProperties
<1>4. Page(start) = SubSeq(list, start + 1, last)
  BY DEF Page, last
<1>5. Len(Page(start)) =
        IF start + Limit < Len(list) THEN Limit ELSE IF start <= Len(list) THEN Len(list) - start ELSE 0
  BY <1>1, <1>3, <1>4 DEF last
<1>6. ASSUME NEW k \in 1..Len(Page(start))
      PROVE  start + k \in 1..Len(list) /\ Page(start)[k] = list[start + k]
  <2>1. k \in 1..(last - (start + 1) + 1) /\ start + 1 + k - 1 = start + k /\ start + k <= last
    BY <1>1, <1>3, <1>4
  <2>2. Page(start)[k] = list[start + k]
    BY <1>3, <1>4, <2>1
  <2>3. start + k \in 1..Len(list)
    BY <1>1, <2>1
  <2> QED BY <2>2, <2>3
<1> QED BY <1>3, <1>4, <1>5, <1>6

LEMMA FirstPageInv == PaginationInit => PagesInv
<1> SUFFICES ASSUME PaginationInit PROVE PagesInv
  OBVIOUS
<1>1. PICK n \in 0..MaxListed, all \in SetToSeqs(Listable) : n <= Len(all) /\ list = SubSeq(all, 1, n)
  BY DEF PaginationInit
<1>2. /\ all \in Seq(Listable) /\ Len(all) \in Nat
      /\ \A i, j \in 1..Len(all) : i # j => all[i] # all[j]
  <2>1. Cardinality(Listable) \in Nat
    BY PaginationAssumption, FS_CardinalityType
  <2> QED BY <2>1 DEF SetToSeqs
<1>3. n \in Nat
  BY PaginationAssumption
<1>4. list \in Seq(Listable) /\ Len(list) = n /\ \A k \in 1..n : list[k] = all[k]
  <2>1. \A k \in 1..n : all[k] \in Listable
    BY <1>1, <1>2, <1>3
  <2> QED BY <1>1, <1>3, <2>1, SubSeqProperties
<1>5. /\ fetch = [at |-> "page", start |-> 0, got |-> <<>>]
      /\ edits = [inserted |-> {}, removed |-> {}]
  BY DEF PaginationInit
<1>6. PagesTyped
  BY <1>4, <1>5 DEF PagesTyped
<1>7. ListIsDistinct
  <2> SUFFICES ASSUME NEW i \in 1..Len(list), NEW j \in 1..Len(list), list[i] = list[j]
               PROVE  i = j
    BY DEF ListIsDistinct
  <2>1. /\ i \in 1..n /\ i \in 1..Len(all) /\ list[i] = all[i]
        /\ j \in 1..n /\ j \in 1..Len(all) /\ list[j] = all[j]
    <3>1. n \in Nat /\ Len(all) \in Nat /\ n <= Len(all) /\ Len(list) = n
      BY <1>1, <1>2, <1>3, <1>4
    <3> QED BY <1>4, <3>1
  <2> QED BY <1>2, <2>1
<1>8. PagesAreFull /\ PrefixFetched /\ ListIsFetched
  BY <1>4, <1>5 DEF PagesAreFull, PrefixFetched, ListIsFetched
<1> QED BY <1>6, <1>7, <1>8 DEF PagesInv

LEMMA InsertionKeepsPages ==
  ASSUME PagesInv, NEW n \in 0..Len(list), NEW e \in Listable, Inserted(n, e)
  PROVE  PagesInv'
<1>1. /\ list \in Seq(Listable) /\ Len(list) \in Nat
      /\ fetch \in [at : {"page", "done"}, start : Nat, got : Seq(Listable)]
  BY DEF PagesInv, PagesTyped
<1>2. /\ list' \in Seq(Listable) /\ Len(list') = Len(list) + 1
      /\ \A k \in 1..Len(list') :
           list'[k] = IF k <= n THEN list[k] ELSE IF k = n + 1 THEN e ELSE list[k - 1]
  <2>1. PICK i \in 1..(Len(list) + 1) : i = n + 1 /\ list' = InsertAt(list, i, e)
    BY <1>1 DEF Inserted
  <2>2. list \in Seq(Listable)
    BY <1>1
  <2>3. HasAt(InsertAt(list, i, e), list, i, e)
    BY <2>2, InsertedInto
  <2>4. HasAt(list', list, i, e)
    BY <2>1, <2>3
  <2>5. /\ list' \in Seq(Listable) /\ Len(list') = Len(list) + 1
        /\ \A k \in 1..(Len(list) + 1) :
             list'[k] = IF k < i THEN list[k] ELSE IF k = i THEN e ELSE list[k - 1]
    BY ONLY <2>4 DEF HasAt
  <2>6. ASSUME NEW k \in 1..Len(list')
        PROVE  list'[k] = IF k <= n THEN list[k] ELSE IF k = n + 1 THEN e ELSE list[k - 1]
    <3>1. k \in 1..(Len(list) + 1) /\ (k < i <=> k <= n) /\ (k = i <=> k = n + 1)
      BY <1>1, <2>1, <2>5
    <3> QED BY ONLY <2>5, <3>1
  <2> QED BY ONLY <2>5, <2>6
<1>3. /\ fetch' = fetch /\ fetch.at = "page"
      /\ edits'.removed = edits.removed /\ edits'.inserted = edits.inserted \cup {e}
      /\ edits' \in [inserted : SUBSET Listable, removed : SUBSET Listable]
  BY DEF Inserted, PagesInv, PagesTyped
<1>4. \A k \in 1..Len(list) : list[k] # e
  <2>1. \A x : x \in Range(list) <=> (\E k \in 1..Len(list) : list[k] = x)
    BY <1>1, SeqRange
  <2> QED BY <2>1 DEF Inserted
<1>5. PagesTyped' /\ PagesAreFull'
  BY <1>1, <1>2, <1>3 DEF PagesInv, PagesTyped, PagesAreFull
<1>6. ListIsDistinct'
  <2>1. ASSUME NEW i \in 1..Len(list'), NEW j \in 1..Len(list'), list'[i] = list'[j]
        PROVE  i = j
    <3> DEFINE old(k) == IF k <= n THEN k ELSE k - 1
    <3>1. \A k \in 1..Len(list') : k # n + 1 => old(k) \in 1..Len(list) /\ list'[k] = list[old(k)]
      BY <1>1, <1>2
    <3>2. list'[n + 1] = e
      BY <1>1, <1>2
    <3>3. i = n + 1 <=> j = n + 1
      BY <1>4, <2>1, <3>1, <3>2
    <3>4. i # n + 1 => old(i) = old(j)
      BY <2>1, <3>1, <3>3 DEF PagesInv, ListIsDistinct
    <3> QED BY <1>1, <2>1, <3>3, <3>4
  <2> QED BY <2>1 DEF ListIsDistinct
<1>7. PrefixFetched'
  <2>1. ASSUME edits.removed = {}, NEW k \in 1..Len(list'), k <= fetch.start
        PROVE  list'[k] \in edits'.inserted \/ \E m \in 1..Len(fetch.got) : fetch.got[m] = list'[k]
    <3>1. CASE k <= n
      <4>1. k \in 1..Len(list) /\ list'[k] = list[k]
        BY <1>1, <1>2, <3>1
      <4> QED BY <1>3, <2>1, <4>1 DEF PagesInv, PrefixFetched
    <3>2. CASE k = n + 1
      BY <1>1, <1>2, <1>3, <2>1, <3>2
    <3>3. CASE k > n + 1
      <4>1. k - 1 \in 1..Len(list) /\ k - 1 <= fetch.start /\ list'[k] = list[k - 1]
        BY <1>1, <1>2, <2>1, <3>3
      <4> QED BY <1>3, <2>1, <4>1 DEF PagesInv, PrefixFetched
    <3> QED BY <1>1, <3>1, <3>2, <3>3
  <2> QED BY <1>3, <2>1 DEF PrefixFetched
<1>8. ListIsFetched'
  BY <1>3 DEF ListIsFetched
<1> QED BY <1>5, <1>6, <1>7, <1>8 DEF PagesInv

LEMMA RemovalKeepsPages ==
  ASSUME PagesInv, NEW n \in 0..Len(list), Removed(n)
  PROVE  PagesInv'
<1>1. /\ list \in Seq(Listable) /\ Len(list) \in Nat /\ n \in 1..Len(list)
      /\ fetch \in [at : {"page", "done"}, start : Nat, got : Seq(Listable)]
  BY DEF PagesInv, PagesTyped, Removed
<1>2. /\ list' \in Seq(Listable) /\ Len(list') = Len(list) - 1
      /\ \A k \in 1..Len(list') : list'[k] = IF k < n THEN list[k] ELSE list[k + 1]
  BY <1>1, RemovedFrom DEF Removed
<1>3. /\ fetch' = fetch /\ fetch.at = "page" /\ list[n] \in Listable
      /\ edits'.inserted = edits.inserted /\ edits'.removed = edits.removed \cup {list[n]}
      /\ edits' \in [inserted : SUBSET Listable, removed : SUBSET Listable]
  BY <1>1 DEF Removed, PagesInv, PagesTyped
<1>5. PagesTyped' /\ PagesAreFull'
  BY <1>1, <1>2, <1>3 DEF PagesInv, PagesTyped, PagesAreFull
<1>6. ListIsDistinct'
  BY <1>1, <1>2 DEF PagesInv, ListIsDistinct
<1>7. PrefixFetched'
  <2>1. ASSUME edits.inserted = {}, NEW k \in 1..Len(list'), k > fetch.start,
               NEW m \in 1..Len(fetch.got)
        PROVE  fetch.got[m] # list'[k]
    <3>1. PICK j \in 1..Len(list) : j > fetch.start /\ list'[k] = list[j]
      <4>1. CASE k < n
        BY <1>1, <1>2, <2>1, <4>1
      <4>2. CASE k >= n
        <5>1. k + 1 \in 1..Len(list) /\ k + 1 > fetch.start /\ list'[k] = list[k + 1]
          BY <1>1, <1>2, <2>1, <4>2
        <5> QED BY <5>1
      <4> QED BY <1>1, <4>1, <4>2
    <3>2. \A x \in 1..Len(fetch.got) : \A y \in 1..Len(list) : y > fetch.start => fetch.got[x] # list[y]
      BY <1>3, <2>1 DEF PagesInv, PrefixFetched
    <3> QED BY <2>1, <3>1, <3>2
  <2> QED BY <1>3, <2>1 DEF PagesInv, PrefixFetched
<1>8. ListIsFetched'
  BY <1>3 DEF ListIsFetched
<1> QED BY <1>5, <1>6, <1>7, <1>8 DEF PagesInv

LEMMA PageKeepsPages ==
  ASSUME PagesInv, FetchesPage
  PROVE  PagesInv'
<1> DEFINE items == Page(fetch.start)
           got == fetch.got \o items
           ends == Len(got) >= Len(list) \/ Len(items) < Limit
<1>1. /\ list \in Seq(Listable) /\ Len(list) \in Nat /\ fetch.at = "page"
      /\ fetch.got \in Seq(Listable) /\ fetch.start \in Nat /\ Len(fetch.got) = fetch.start
      /\ Limit \in Nat \ {0}
  BY PaginationAssumption DEF PagesInv, PagesTyped, PagesAreFull, FetchesPage
<1>2. /\ fetch' = [at |-> IF ends THEN "done" ELSE "page", got |-> got,
                   start |-> IF ends THEN fetch.start ELSE fetch.start + Limit]
      /\ list' = list /\ edits' = edits
  BY DEF FetchesPage, NextStart
<1>3. /\ items \in Seq(Listable)
      /\ Len(items) = IF fetch.start + Limit < Len(list) THEN Limit
                      ELSE IF fetch.start <= Len(list) THEN Len(list) - fetch.start ELSE 0
      /\ \A k \in 1..Len(items) :
           fetch.start + k \in 1..Len(list) /\ items[k] = list[fetch.start + k]
  BY <1>1, PageIs
<1> HIDE DEF items
<1>4. /\ got \in Seq(Listable) /\ Len(got) = fetch.start + Len(items)
      /\ \A k \in 1..Len(got) :
           got[k] = IF k <= fetch.start THEN fetch.got[k] ELSE items[k - fetch.start]
  <2>1. /\ got \in Seq(Listable) /\ Len(got) = Len(fetch.got) + Len(items)
        /\ \A k \in 1..(Len(fetch.got) + Len(items)) :
             got[k] = IF k <= Len(fetch.got) THEN fetch.got[k] ELSE items[k - Len(fetch.got)]
    <3>1. fetch.got \in Seq(Listable) /\ items \in Seq(Listable)
      BY <1>1, <1>3
    <3> QED BY <3>1, ConcatProperties
  <2> QED BY <1>1, <2>1
<1> HIDE DEF got
<1>5. \A k \in 1..Len(got) : k > fetch.start => k \in 1..Len(list) /\ got[k] = list[k]
  <2>1. ASSUME NEW k \in 1..Len(got), k > fetch.start
        PROVE  k \in 1..Len(list) /\ got[k] = list[k]
    <3>0. Len(items) \in Nat
      BY <1>3
    <3>1. k - fetch.start \in 1..Len(items) /\ fetch.start + (k - fetch.start) = k
      BY <1>1, <1>4, <2>1, <3>0
    <3>2. got[k] = items[k - fetch.start] /\ items[k - fetch.start] = list[k]
      <4>1. got[k] = items[k - fetch.start]
        BY <1>1, <1>4, <2>1
      <4> QED BY <1>3, <3>1, <4>1
    <3> QED BY <1>3, <2>1, <3>1, <3>2
  <2> QED BY <2>1
<1>6. \A k \in 1..fetch.start : k \in 1..Len(got) /\ got[k] = fetch.got[k]
  BY <1>1, <1>3, <1>4
<1>7. ~ends => Len(got) = fetch.start + Limit /\ Len(got) < Len(list)
  BY <1>1, <1>3, <1>4
<1>8. ends => Len(got) >= Len(list)
  BY <1>1, <1>3, <1>4
\* What is fetched now, at the end or not.
<1>9. ASSUME edits.inserted \cup edits.removed = {}
      PROVE  Len(got) <= Len(list) /\ \A k \in 1..Len(got) : got[k] = list[k]
  <2>1. fetch.start <= Len(list) /\ \A k \in 1..fetch.start : fetch.got[k] = list[k]
    BY <1>1, <1>9 DEF PagesInv, PrefixFetched
  <2> QED BY <1>1, <1>3, <1>4, <1>5, <1>6, <2>1
<1>10. ASSUME edits.removed = {}, NEW k \in 1..Len(list), k <= Len(got)
       PROVE  list[k] \in edits.inserted \/ \E n \in 1..Len(got) : got[n] = list[k]
  <2>1. CASE k <= fetch.start
    <3>1. list[k] \in edits.inserted \/ \E n \in 1..Len(fetch.got) : fetch.got[n] = list[k]
      BY <1>1, <1>10, <2>1 DEF PagesInv, PrefixFetched
    <3> QED BY <1>1, <1>6, <3>1
  <2>2. CASE k > fetch.start
    BY <1>1, <1>4, <1>5, <1>10, <2>2
  <2> QED BY <1>1, <2>1, <2>2
<1>11. ASSUME edits.inserted = {}, NEW n \in 1..Len(got), NEW k \in 1..Len(list), got[n] = list[k],
              k > fetch.start
       PROVE  n = k
  <2>1. \A m \in 1..fetch.start : fetch.got[m] # list[k]
    BY <1>1, <1>11 DEF PagesInv, PrefixFetched
  <2>2. n > fetch.start
    <3> SUFFICES ASSUME n <= fetch.start PROVE FALSE
      BY <1>1, <1>4
    <3>1. n \in 1..fetch.start
      BY <1>1
    <3>2. got[n] = fetch.got[n] /\ fetch.got[n] # list[k]
      BY <1>6, <2>1, <3>1
    <3> QED BY <1>11, <3>2
  <2> QED BY <1>5, <1>11, <2>2 DEF PagesInv, ListIsDistinct
<1>12. ASSUME edits.inserted = {}, NEW m \in 1..Len(got), NEW n \in 1..Len(got), got[m] = got[n]
       PROVE  m = n
  <2>1. CASE m > fetch.start
    BY <1>5, <1>11, <1>12, <2>1
  <2>2. CASE n > fetch.start
    BY <1>5, <1>11, <1>12, <2>2
  <2>3. CASE m <= fetch.start /\ n <= fetch.start
    BY <1>1, <1>4, <1>6, <1>12, <2>3 DEF PagesInv, PrefixFetched
  <2> QED BY <1>1, <1>4, <2>1, <2>2, <2>3
<1>13. PagesTyped'
  BY <1>1, <1>2, <1>4 DEF PagesInv, PagesTyped
<1>14. PagesAreFull' /\ ListIsDistinct'
  BY <1>1, <1>2, <1>7 DEF PagesInv, PagesAreFull, ListIsDistinct
<1>15. PrefixFetched'
  <2>1. CASE ends
    BY <1>2, <2>1 DEF PrefixFetched
  <2>2. CASE ~ends
    <3>1. fetch'.got = got /\ fetch'.start = Len(got)
      BY <1>2, <1>7, <2>2
    <3>2. edits.inserted = {} =>
            \A k \in 1..Len(list) : k > Len(got) => \A n \in 1..Len(got) : got[n] # list[k]
      BY <1>1, <1>3, <1>4, <1>11
    <3> QED BY <1>2, <1>9, <1>10, <1>12, <3>1, <3>2 DEF PrefixFetched
  <2> QED BY <2>1, <2>2
<1>16. ListIsFetched'
  <2>1. CASE ends
    <3>1. edits.inserted \cup edits.removed = {} => got = list
      <4>1. ASSUME edits.inserted \cup edits.removed = {}
            PROVE  Len(got) = Len(list) /\ \A k \in 1..Len(got) : got[k] = list[k]
        BY <1>1, <1>3, <1>4, <1>8, <1>9, <2>1, <4>1
      <4> QED BY <1>1, <1>4, <4>1, SeqEqual
    <3>2. edits.removed = {} => Range(list) \ edits.inserted \subseteq Range(got)
      <4>1. /\ \A x : x \in Range(list) <=> (\E k \in 1..Len(list) : list[k] = x)
            /\ \A x : x \in Range(got) <=> (\E n \in 1..Len(got) : got[n] = x)
        BY <1>1, <1>4, SeqRange
      <4>2. \A k \in 1..Len(list) : k <= Len(got)
        BY <1>1, <1>3, <1>4, <1>8, <2>1
      <4> QED BY <1>10, <4>1, <4>2
    <3>3. edits.inserted = {} => IsInjective(got)
      <4>1. IsInjective(got) <=> (\A m, n \in 1..Len(got) : got[m] = got[n] => m = n)
        BY <1>4, SeqRange
      <4> QED BY <1>12, <4>1
    <3>4. fetch'.got = got
      BY <1>2
    <3> QED BY <1>2, <3>1, <3>2, <3>3, <3>4 DEF ListIsFetched
  <2>2. CASE ~ends
    BY <1>2, <2>2 DEF ListIsFetched
  <2> QED BY <2>1, <2>2
<1> QED BY <1>13, <1>14, <1>15, <1>16 DEF PagesInv

\* A list that holds still is fetched whole and in order; one that changes loses an
\* item only to a removal and repeats one only after an insertion
\* (pagination.py 60-120).
THEOREM ListsAreFetchedWhole == PaginationSpec => []ListIsFetched
<1>1. PagesInv /\ [PaginationNext]_pagination => PagesInv'
  <2>1. ASSUME PagesInv, UNCHANGED pagination
        PROVE  PagesInv'
    <3>1. list' = list /\ fetch' = fetch /\ edits' = edits
      BY <2>1 DEF pagination
    <3>2. PagesTyped' /\ PagesAreFull' /\ PrefixFetched'
      BY <2>1, <3>1 DEF PagesInv, PagesTyped, PagesAreFull, PrefixFetched
    <3>3. ListIsDistinct' /\ ListIsFetched'
      BY <2>1, <3>1, Zenon DEF PagesInv, ListIsDistinct, ListIsFetched
    <3> QED BY <3>2, <3>3 DEF PagesInv
  <2> QED BY <2>1, PageKeepsPages, RemovalKeepsPages, InsertionKeepsPages DEF PaginationNext
<1>2. PagesInv => ListIsFetched
  BY DEF PagesInv
<1> QED BY <1>1, <1>2, FirstPageInv, PTL DEF PaginationSpec
-----------------------------------------------------------------------------
(* CronConflicts.                                                           *)

\* Every job has a preset and an expression.
ScheduleTyped ==
  schedule \in [Jobs -> [preset : Presets \cup {"custom"}, cron : Expressions]]

\* The expressions of two jobs have no run in common in what was looked at.
Apart(j, k, t) ==
  NextRuns(schedule[j].cron, t, Lookahead) \cap NextRuns(schedule[k].cron, t, Lookahead) = {}

VettedApart ==
  \A pair \in DOMAIN vetted :
    pair \subseteq Jobs /\ \E j, k \in pair : Apart(j, k, vetted[pair])

\* A PUT of one job leaves the pairs of other jobs as they are.
LEMMA OthersStayApart ==
  ASSUME ScheduleTyped, VettedApart, NEW j \in Jobs, NEW new,
         schedule' = [schedule EXCEPT ![j] = new],
         NEW pair \in Untouched(j), vetted'[pair] = vetted[pair]
  PROVE  pair \subseteq Jobs /\ \E k, l \in pair : Apart(k, l, vetted[pair])'
<1>1. pair \subseteq Jobs /\ j \notin pair
  BY DEF VettedApart, Untouched
<1>2. PICK k \in pair, l \in pair : Apart(k, l, vetted[pair])
  BY DEF VettedApart, Untouched
<1>3. schedule'[k] = schedule[k] /\ schedule'[l] = schedule[l]
  BY <1>1 DEF ScheduleTyped
<1>4. Apart(k, l, vetted[pair])'
  BY <1>2, <1>3 DEF Apart, NextRuns
<1> QED
  BY <1>1, <1>4

\* What was accepted stays as it was compared, whatever is put afterwards
\* (schedule.py 78-91).
LEMMA CronInvariant == CronSpec => [](ScheduleTyped /\ VettedApart)
<1>1. CronInit => ScheduleTyped /\ VettedApart
  <2> SUFFICES ASSUME CronInit
               PROVE  ScheduleTyped /\ VettedApart
    OBVIOUS
  <2>1. \A j \in Jobs : schedule[j] \in [preset : Presets, cron : Expressions]
    BY CronAssumption DEF CronInit, Scheduled, Expressions
  <2>2. DOMAIN vetted = {}
    BY DEF CronInit
  <2> QED
    BY <2>1, <2>2 DEF CronInit, ScheduleTyped, VettedApart
<1>2. ScheduleTyped /\ VettedApart /\ [CronNext]_cron => (ScheduleTyped /\ VettedApart)'
  <2> SUFFICES ASSUME ScheduleTyped, VettedApart, [CronNext]_cron
               PROVE  (ScheduleTyped /\ VettedApart)'
    OBVIOUS
  <2>1. ASSUME NEW j \in Jobs, NEW e \in Customs, PutCustomCron(j, e)
        PROVE  (ScheduleTyped /\ VettedApart)'
    <3>1. Scheduled("custom", e) \in [preset : Presets \cup {"custom"}, cron : Expressions]
      <4>1. e \in Expressions
        BY DEF Expressions
      <4> QED
        BY <4>1 DEF Scheduled
    <3>2. ScheduleTyped'
      BY <2>1, <3>1 DEF PutCustomCron, ScheduleTyped
    <3>3. ASSUME NEW k \in Jobs \ {j}
          PROVE  Apart(j, k, now)'
      <4>1. schedule'[j].cron = e /\ schedule'[k] = schedule[k] /\ now' = now
        BY <2>1 DEF PutCustomCron, ScheduleTyped, Scheduled
      <4>2. NextRuns(e, now, Lookahead) \cap NextRuns(schedule[k].cron, now, Lookahead) = {}
        BY <2>1 DEF PutCustomCron, check_conflicts
      <4> QED
        BY <4>1, <4>2 DEF Apart, NextRuns
    <3>4. ASSUME NEW pair \in DOMAIN vetted'
          PROVE  pair \subseteq Jobs /\ \E k, l \in pair : Apart(k, l, vetted[pair])'
      <4>1. vetted'[pair] = IF j \in pair THEN now ELSE vetted[pair]
        BY <2>1 DEF PutCustomCron
      <4>2. CASE pair \in Untouched(j)
        BY <2>1, <4>1, <4>2, OthersStayApart DEF PutCustomCron, Untouched
      <4>3. CASE pair \notin Untouched(j)
        <5>1. PICK k \in Jobs \ {j} : pair = {j, k}
          BY <2>1, <4>3 DEF PutCustomCron
        <5>2. vetted'[pair] = now /\ now' = now
          BY <2>1, <4>1, <5>1 DEF PutCustomCron
        <5> QED
          BY <3>3, <5>1, <5>2 DEF Apart, NextRuns
      <4> QED
        BY <4>2, <4>3
    <3> QED
      BY <3>2, <3>4 DEF VettedApart
  <2>2. ASSUME NEW j \in Jobs, NEW p \in Presets, PutPresetCron(j, p)
        PROVE  (ScheduleTyped /\ VettedApart)'
    <3>1. ScheduleTyped'
      BY <2>2 DEF PutPresetCron, ScheduleTyped, Scheduled, Expressions
    <3>2. ASSUME NEW pair \in DOMAIN vetted'
          PROVE  pair \subseteq Jobs /\ \E k, l \in pair : Apart(k, l, vetted[pair])'
      BY <2>2, OthersStayApart DEF PutPresetCron
    <3> QED
      BY <3>1, <3>2 DEF VettedApart
  <2>3. CASE Passes \/ UNCHANGED cron
    <3>1. UNCHANGED <<schedule, vetted>>
      BY <2>3 DEF Passes, cron
    <3> QED
      BY <3>1 DEF ScheduleTyped, VettedApart, Apart, NextRuns
  <2> QED
    BY <2>1, <2>2, <2>3 DEF CronNext
<1> QED
  BY <1>1, <1>2, PTL DEF CronSpec

(* A schedule that was accepted is right about the next Lookahead runs of    *)
(* both jobs, as long as croniter and APScheduler read them alike            *)
(* (cron_utils.py 21-33).                                                    *)
THEOREM VettedAreApart == CronSpec => []VettedJobsStayApart
<1>1. ScheduleTyped /\ VettedApart => VettedJobsStayApart
  <2> SUFFICES ASSUME ScheduleTyped, VettedApart, NEW pair \in DOMAIN vetted,
                      now > vetted[pair],
                      \A j \in pair : Due(j) /\ Foreseen(j, vetted[pair]),
                      \A j \in pair : ~MisreadCron(schedule[j].cron)
               PROVE  FALSE
    BY DEF VettedJobsStayApart
  <2>1. PICK j \in pair, k \in pair : Apart(j, k, vetted[pair])
    BY DEF VettedApart
  <2>2. ASSUME NEW l \in pair
        PROVE  now \in NextRuns(schedule[l].cron, vetted[pair], Lookahead)
    <3>1. CroniterRuns[schedule[l].cron] = TimerRuns[schedule[l].cron]
      BY DEF MisreadCron
    <3>2. now \in CroniterRuns[schedule[l].cron]
      BY <3>1 DEF Due
    <3> QED
      BY <3>1, <3>2 DEF NextRuns, Foreseen
  <2> QED
    BY <2>1, <2>2 DEF Apart
<1> QED
  BY <1>1, CronInvariant, PTL

-----------------------------------------------------------------------------
(* MediaViews.                                                              *)

EntryRow == [of : Episodes \cup {Movie}, status : StatusNames]

EntriesTyped == entry \in [Entries -> {NoEntry} \cup EntryRow]

Statuses == StatusNames \cup {NoStatus}

Seasons == {SeasonOf[e] : e \in Episodes}

Counts == [total : Nat, watched : Nat]

CountsRead == [at : {"counts"}, status : Statuses, raced : Nat]

SeasonsRead ==
  [at : {"seasons"}, status : Statuses, raced : Nat, season : [Seasons -> Counts]]

PageRead ==
  [at : {"page"}, status : Statuses, raced : Nat, season : [Seasons -> Counts],
   episode : [Episodes -> Statuses]]

ViewTyped == view \in {NoView} \cup CountsRead \cup SeasonsRead \cup PageRead

\* What the queries of a page have given is what they would give now, as long as
\* no sync has written since the first of them.
ViewIsCurrent ==
  view # NoView /\ view.raced = 0 =>
    /\ view.status = SeriesStatus(EveryUser)
    /\ view.at \in {"seasons", "page"} => view.season = [s \in Seasons |-> SeasonCounts(s)]
    /\ view.at = "page" => view.episode = [e \in Episodes |-> EpisodeStatus(e)]

ViewsInv == EntriesTyped /\ ViewTyped /\ ViewIsCurrent

\* The first status of an order is preferred to the others, and one of them is taken.
LEMMA PreferredIs ==
  ASSUME NEW statuses \in SUBSET StatusNames,
         NEW order \in {<<"watched", "watching", "planned", "dropped">>,
                        <<"watched", "watching", "dropped", "planned">>}
  PROVE  /\ Preferred(statuses, order) \in Statuses
         /\ Preferred(statuses, order) = "watched" <=> "watched" \in statuses
<1> DEFINE First(n) == n \in 1..4 /\ order[n] \in statuses /\ \A m \in 1..(n - 1) : order[m] \notin statuses
<1>1. /\ DOMAIN order = 1..4 /\ order[1] = "watched" /\ order[2] = "watching"
      /\ order[3] \in {"planned", "dropped"} /\ order[4] \in {"planned", "dropped"}
      /\ order[3] # order[4]
  OBVIOUS
<1>2. CASE statuses = {}
  BY <1>2, MediaViewsAssumption DEF Preferred, Statuses, StatusNames
<1>3. CASE statuses # {}
  <2>1. \E n \in 1..4 : First(n)
    <3>1. PICK s \in StatusNames : s \in statuses
      BY <1>3
    <3>2. \E n \in 1..4 : order[n] \in statuses
      BY <1>1, <3>1 DEF StatusNames
    <3> QED BY <3>2
  <2> DEFINE n == CHOOSE n \in DOMAIN order :
                    order[n] \in statuses /\ \A m \in 1..(n - 1) : order[m] \notin statuses
  <2>2. First(n)
    BY <1>1, <2>1
  <2>3. Preferred(statuses, order) = order[n]
    BY <1>3 DEF Preferred
  <2> HIDE DEF n
  <2>4. order[n] \in statuses /\ order[n] \in Statuses
    BY <2>2 DEF Statuses
  <2>5. "watched" \in statuses => n = 1
    BY <1>1, <2>2
  <2> QED BY <1>1, <2>3, <2>4, <2>5
<1> QED BY <1>2, <1>3

LEMMA MatchesAre ==
  ASSUME NEW what, NEW user
  PROVE  /\ Matches(what, user) \subseteq Entries
         /\ \A i \in Entries : i \in Matches(what, user) <=>
              entry[i] # NoEntry /\ entry[i].of = what /\ user \in {EveryUser, ViewerOf[i]}
BY DEF Matches

\* A line of episode e.
LineOf(line, e, user) ==
  \/ line = <<e, NoEntry>> /\ Matches(e, user) = {}
  \/ \E i \in Matches(e, user) : line = <<e, i>>

\* The lines of some episodes: one for every row of an episode, or one without a row.
LEMMA LinesAre ==
  ASSUME EntriesTyped, NEW S \in SUBSET Episodes, NEW user
  PROVE  /\ \A line \in Lines(S, user) :
              \E e \in S : LineOf(line, e, user)
         /\ \A e \in S : Matches(e, user) = {} => <<e, NoEntry>> \in Lines(S, user)
         /\ \A e \in S : \A i \in Matches(e, user) : <<e, i>> \in Lines(S, user)
         /\ IsFiniteSet(Lines(S, user))
<1>1. \A line : line \in Lines(S, user) <=>
        \E e \in S : line \in IF Matches(e, user) = {} THEN {<<e, NoEntry>>} ELSE {e} \X Matches(e, user)
  BY DEF Lines
<1>2. \A e \in S : \A line : line \in {e} \X Matches(e, user) <=> \E i \in Matches(e, user) : line = <<e, i>>
  OBVIOUS
<1>3. Lines(S, user) \subseteq Episodes \X (Entries \cup {NoEntry})
  BY <1>1, <1>2, MatchesAre
<1>4. IsFiniteSet(Episodes \X (Entries \cup {NoEntry}))
  BY MediaViewsAssumption, FS_Product, FS_AddElement
<1>5. IsFiniteSet(Lines(S, user))
  BY <1>3, <1>4, FS_Subset
<1> QED BY <1>1, <1>2, <1>5 DEF LineOf

LEMMA StatusIs ==
  ASSUME EntriesTyped, NEW e
  PROVE  /\ Status(<<e, NoEntry>>) = NoStatus
         /\ \A i \in Entries : Status(<<e, i>>) = entry[i].status
BY MediaViewsAssumption DEF Status

LEMMA CountedIs ==
  ASSUME NEW lines, IsFiniteSet(lines), NEW status
  PROVE  /\ Counted(lines, status) \in Nat
         /\ Counted(lines, status) = 0 <=> \A line \in lines : Status(line) # status
         /\ Counted(lines, status) = Cardinality(lines) <=> \A line \in lines : Status(line) = status
<1> DEFINE those == {line \in lines : Status(line) = status}
<1>1. those \in SUBSET lines /\ Counted(lines, status) = Cardinality(those)
  BY DEF Counted
<1>2. /\ IsFiniteSet(those) /\ Cardinality(those) \in Nat
      /\ Cardinality(lines) = Cardinality(those) => lines = those
  BY <1>1, FS_Subset, FS_CardinalityType
<1>3. Cardinality(those) = 0 <=> those = {}
  BY <1>2, FS_EmptySet
<1>4. those = lines <=> \A line \in lines : Status(line) = status
  OBVIOUS
<1>5. those = {} <=> \A line \in lines : Status(line) # status
  OBVIOUS
<1> HIDE DEF those
<1> QED BY <1>1, <1>2, <1>3, <1>4, <1>5

\* What the lists show of a series.
LEMMA SeriesStatusIs ==
  ASSUME EntriesTyped, NEW user
  PROVE  /\ SeriesStatus(user) \in Statuses
         /\ SeriesStatus(user) = "watched" <=>
              \A line \in Lines(Episodes, user) : Status(line) = "watched"
         /\ SeriesStatus(user) = "planned" <=>
              \A line \in Lines(Episodes, user) : Status(line) \notin {"watched", "watching", "dropped"}
<1> DEFINE lines == Lines(Episodes, user)
<1>1. IsFiniteSet(lines)
  BY LinesAre
<1>2. lines # {}
  <2>1. PICK e \in Episodes : TRUE
    BY MediaViewsAssumption
  <2>2. Matches(e, user) = {} => <<e, NoEntry>> \in lines
    BY LinesAre
  <2>3. \A i \in Matches(e, user) : <<e, i>> \in lines
    BY LinesAre
  <2> HIDE DEF lines
  <2> QED BY <2>2, <2>3
<1>3. PICK line \in lines : TRUE
  BY <1>2
<1>4. \A status \in StatusNames :
        /\ Counted(lines, status) \in Nat
        /\ Counted(lines, status) = 0 <=> \A l \in lines : Status(l) # status
        /\ Counted(lines, status) = Cardinality(lines) <=> \A l \in lines : Status(l) = status
  BY <1>1, CountedIs
<1>5. SeriesStatus(user) =
        IF lines = {} THEN NoStatus
        ELSE IF Counted(lines, "watched") = Cardinality(lines) THEN "watched"
        ELSE IF Counted(lines, "watched") + Counted(lines, "watching") > 0 THEN "watching"
        ELSE IF Counted(lines, "dropped") > 0 THEN "dropped"
        ELSE "planned"
  BY DEF SeriesStatus, compute_series_status
<1> HIDE DEF lines
<1>6. NoStatus \notin StatusNames
  BY MediaViewsAssumption
<1> QED BY <1>2, <1>3, <1>4, <1>5, <1>6 DEF Statuses, StatusNames, lines

LEMMA StatusesOfAre ==
  ASSUME EntriesTyped, NEW what, NEW user
  PROVE  /\ StatusesOf(what, user) \in SUBSET StatusNames
         /\ "watched" \in StatusesOf(what, user) <=>
              \E i \in Matches(what, user) : entry[i].status = "watched"
BY MatchesAre DEF StatusesOf, EntriesTyped, EntryRow

LEMMA EpisodeStatusIs ==
  ASSUME EntriesTyped, NEW e \in Episodes
  PROVE  /\ EpisodeStatus(e) \in Statuses
         /\ EpisodeStatus(e) = "watched" <=>
              \E i \in Matches(e, EveryUser) : entry[i].status = "watched"
BY StatusesOfAre, PreferredIs DEF EpisodeStatus

LEMMA OneMatch ==
  ASSUME NEW user, SingleRows(user), NEW e \in Episodes,
         NEW i \in Matches(e, user), NEW j \in Matches(e, user)
  PROVE  i = j
<1>1. IsFiniteSet(Matches(e, user)) /\ Cardinality(Matches(e, user)) <= 1
  BY MatchesAre, MediaViewsAssumption, FS_Subset DEF SingleRows
<1>2. Cardinality(Matches(e, user)) \in Nat /\ Cardinality(Matches(e, user)) # 0
  BY <1>1, FS_CardinalityType, FS_EmptySet
<1>3. Cardinality(Matches(e, user)) = 1
  BY <1>1, <1>2
<1> QED BY <1>1, <1>3, FS_Singleton

\* An episode is watched on all its lines if its one row says so.
LEMMA WatchedLines ==
  ASSUME EntriesTyped, NEW S \in SUBSET Episodes, NEW user, SingleRows(user)
  PROVE  (\A line \in Lines(S, user) : Status(line) = "watched") <=>
         (\A e \in S : \E i \in Matches(e, user) : entry[i].status = "watched")
<1>1. ASSUME \A line \in Lines(S, user) : Status(line) = "watched", NEW e \in S
      PROVE  \E i \in Matches(e, user) : entry[i].status = "watched"
  <2>1. Matches(e, user) # {}
    <3>1. Matches(e, user) = {} => <<e, NoEntry>> \in Lines(S, user)
      BY LinesAre
    <3>2. Status(<<e, NoEntry>>) # "watched"
      BY StatusIs, MediaViewsAssumption DEF StatusNames
    <3> QED BY <1>1, <3>1, <3>2
  <2>2. PICK i \in Matches(e, user) : TRUE
    BY <2>1
  <2>3. <<e, i>> \in Lines(S, user) /\ i \in Entries
    BY <2>2, LinesAre, MatchesAre
  <2> QED BY <1>1, <2>2, <2>3, StatusIs
<1>2. ASSUME \A e \in S : \E i \in Matches(e, user) : entry[i].status = "watched",
             NEW line \in Lines(S, user)
      PROVE  Status(line) = "watched"
  <2>1. PICK e \in S : LineOf(line, e, user)
    BY LinesAre
  <2>2. PICK i \in Matches(e, user) : entry[i].status = "watched"
    BY <1>2
  <2>3. line = <<e, i>> /\ i \in Entries
    BY <2>1, OneMatch, MatchesAre DEF LineOf
  <2> QED BY <2>2, <2>3, StatusIs
<1> QED BY <1>1, <1>2

\* Two lines of one episode are one line, if no episode has two rows.
LEMMA OneLine ==
  ASSUME EntriesTyped, NEW S \in SUBSET Episodes, NEW user, SingleRows(user),
         NEW k \in Lines(S, user), NEW l \in Lines(S, user), k[1] = l[1]
  PROVE  k = l
<1>0. \A line \in Lines(S, user) :
        \E e \in S : LineOf(line, e, user)
  BY LinesAre
<1>1. PICK d \in S : LineOf(k, d, user)
  BY <1>0
<1>2. PICK e \in S : LineOf(l, e, user)
  BY <1>0
<1>3. d = e
  BY <1>1, <1>2 DEF LineOf
<1> QED BY <1>1, <1>2, <1>3, OneMatch DEF LineOf

LEMMA SameNumber ==
  ASSUME NEW S, NEW T, IsFiniteSet(S), NEW f \in [S -> T],
         \A x, y \in S : f[x] = f[y] => x = y, \A z \in T : \E x \in S : f[x] = z
  PROVE  Cardinality(S) = Cardinality(T)
<1>1. f \in Bijection(S, T)
  BY DEF Bijection, Injection, Surjection, IsInjective
<1> QED BY <1>1, FS_Bijection DEF ExistsBijection

\* Then a season counts its episodes, and those that the page shows as watched.
LEMMA SeasonCountsAre ==
  ASSUME EntriesTyped, NEW s
  PROVE  /\ SeasonCounts(s) \in Counts
         /\ SingleRows(EveryUser) =>
              LET episodes == {e \in Episodes : SeasonOf[e] = s} IN
              SeasonCounts(s) =
                [total |-> Cardinality(episodes),
                 watched |-> Cardinality({e \in episodes : EpisodeStatus(e) = "watched"})]
<1> DEFINE episodes == {e \in Episodes : SeasonOf[e] = s}
           lines == Lines(episodes, EveryUser)
           watchedLines == {line \in lines : Status(line) = "watched"}
           watched == {e \in episodes : EpisodeStatus(e) = "watched"}
<1>1. episodes \in SUBSET Episodes
  OBVIOUS
<1>2. IsFiniteSet(lines) /\ IsFiniteSet(watchedLines)
  <2>1. IsFiniteSet(lines)
    BY <1>1, LinesAre
  <2>2. watchedLines \in SUBSET lines
    OBVIOUS
  <2> HIDE DEF lines, watchedLines
  <2> QED BY <2>1, <2>2, FS_Subset
<1>3. SeasonCounts(s) = [total |-> Cardinality(lines), watched |-> Cardinality(watchedLines)]
  BY DEF SeasonCounts, Counted
<1>4. SeasonCounts(s) \in Counts
  <2> HIDE DEF lines, watchedLines
  <2> QED BY <1>2, <1>3, FS_CardinalityType DEF Counts
<1>5. ASSUME SingleRows(EveryUser)
      PROVE  Cardinality(lines) = Cardinality(episodes) /\ Cardinality(watchedLines) = Cardinality(watched)
  <2> HIDE DEF episodes
  <2>1. \A k, l \in lines : k[1] = l[1] => k = l
    BY <1>1, <1>5, OneLine
  <2>2. /\ \A line \in lines :
              \E e \in episodes : LineOf(line, e, EveryUser)
        /\ \A e \in episodes : Matches(e, EveryUser) = {} => <<e, NoEntry>> \in lines
        /\ \A e \in episodes : \A i \in Matches(e, EveryUser) : <<e, i>> \in lines
    <3>1. \A line \in lines :
            \E e \in episodes : LineOf(line, e, EveryUser)
      BY <1>1, LinesAre
    <3>2. \A e \in episodes : Matches(e, EveryUser) = {} => <<e, NoEntry>> \in lines
      BY <1>1, LinesAre
    <3>3. \A e \in episodes : \A i \in Matches(e, EveryUser) : <<e, i>> \in lines
      BY <1>1, LinesAre
    <3> QED BY <3>1, <3>2, <3>3
  <2>3. \A line \in lines : line[1] \in episodes
    BY <2>2 DEF LineOf
  <2>4. \A e \in episodes : \E line \in lines : line[1] = e
    <3>1. ASSUME NEW e \in episodes
          PROVE  \E i \in {NoEntry} \cup Matches(e, EveryUser) : <<e, i>> \in lines
      BY <2>2
    <3> QED BY <3>1
  <2>5. \A line \in watchedLines : line[1] \in watched
    <3>1. ASSUME NEW line \in lines, Status(line) = "watched"
          PROVE  line[1] \in watched
      <4>1. PICK e \in episodes : LineOf(line, e, EveryUser)
        BY <2>2
      <4>2. line # <<e, NoEntry>>
        BY <3>1, StatusIs, MediaViewsAssumption DEF StatusNames
      <4>3. PICK i \in Matches(e, EveryUser) : line = <<e, i>>
        BY <4>1, <4>2 DEF LineOf
      <4>4. entry[i].status = "watched"
        BY <3>1, <4>3, StatusIs, MatchesAre
      <4>5. EpisodeStatus(e) = "watched"
        BY <1>1, <4>4, EpisodeStatusIs
      <4> QED BY <4>3, <4>5
    <3> QED BY <3>1
  <2>6. \A e \in watched : \E line \in watchedLines : line[1] = e
    <3>1. ASSUME NEW e \in episodes, EpisodeStatus(e) = "watched"
          PROVE  \E line \in lines : line[1] = e /\ Status(line) = "watched"
      <4>1. PICK i \in Matches(e, EveryUser) : entry[i].status = "watched"
        BY <1>1, <3>1, EpisodeStatusIs
      <4>2. <<e, i>> \in lines /\ Status(<<e, i>>) = "watched"
        BY <2>2, <4>1, StatusIs, MatchesAre
      <4> QED BY <4>2
    <3> QED BY <3>1
  <2>7. watchedLines \subseteq lines
    OBVIOUS
  <2> HIDE DEF lines, watchedLines, watched
  <2>8. Cardinality(lines) = Cardinality(episodes)
    <3> DEFINE f == [line \in lines |-> line[1]]
    <3>1. f \in [lines -> episodes]
      BY <2>3
    <3>2. /\ \A x, y \in lines : f[x] = f[y] => x = y
          /\ \A z \in episodes : \E x \in lines : f[x] = z
      BY <2>1, <2>4
    <3> HIDE DEF f
    <3> QED BY <1>2, <3>1, <3>2, SameNumber
  <2>9. Cardinality(watchedLines) = Cardinality(watched)
    <3> DEFINE f == [line \in watchedLines |-> line[1]]
    <3>1. f \in [watchedLines -> watched]
      BY <2>5
    <3>2. /\ \A x, y \in watchedLines : f[x] = f[y] => x = y
          /\ \A z \in watched : \E x \in watchedLines : f[x] = z
      BY <2>1, <2>6, <2>7
    <3> HIDE DEF f
    <3> QED BY <1>2, <3>1, <3>2, SameNumber
  <2> QED BY <2>8, <2>9
<1> QED BY <1>3, <1>4, <1>5

\* What the list shows to a user.
LEMMA ListsAgree ==
  ASSUME EntriesTyped, NEW user \in {ViewerOf[i] : i \in Entries}, SingleRows(user)
  PROVE  LET rows(status) == {entry[i].of : i \in {i \in Entries :
                                entry[i] # NoEntry /\ ViewerOf[i] = user /\ entry[i].status = status}}
         IN  /\ SeriesStatus(user) = "watched" <=> Episodes \subseteq rows("watched")
             /\ SeriesStatus(user) = "planned" <=>
                  Episodes \cap UNION {rows(s) : s \in StatusNames \ {"planned"}} = {}
             /\ MovieStatus(user) = "watched" <=> Movie \in rows("watched")
<1> DEFINE rows(status) == {entry[i].of : i \in {i \in Entries :
                              entry[i] # NoEntry /\ ViewerOf[i] = user /\ entry[i].status = status}}
<1>1. \A what : \A i : i \in Matches(what, user) <=>
        i \in Entries /\ entry[i] # NoEntry /\ entry[i].of = what /\ ViewerOf[i] = user
  <2>1. user # EveryUser
    BY MediaViewsAssumption
  <2> QED BY <2>1 DEF Matches
<1>2. \A what, status : what \in rows(status) <=>
        \E i \in Matches(what, user) : entry[i].status = status
  BY <1>1
<1> HIDE DEF rows
<1>3. SeriesStatus(user) = "watched" <=> Episodes \subseteq rows("watched")
  <2>1. SeriesStatus(user) = "watched" <=>
          \A e \in Episodes : \E i \in Matches(e, user) : entry[i].status = "watched"
    BY SeriesStatusIs, WatchedLines
  <2> QED BY <1>2, <2>1
<1>4. SeriesStatus(user) = "planned" <=>
        Episodes \cap UNION {rows(s) : s \in StatusNames \ {"planned"}} = {}
  <2> DEFINE others == {"watched", "watching", "dropped"}
  <2>1. SeriesStatus(user) = "planned" <=>
          \A line \in Lines(Episodes, user) : Status(line) \notin others
    BY SeriesStatusIs
  <2>2. (\A line \in Lines(Episodes, user) : Status(line) \notin others) <=>
        (\A e \in Episodes : \A i \in Matches(e, user) : entry[i].status \notin others)
    <3>1. ASSUME \A line \in Lines(Episodes, user) : Status(line) \notin others,
                 NEW e \in Episodes, NEW i \in Matches(e, user)
          PROVE  entry[i].status \notin others
      <4>1. <<e, i>> \in Lines(Episodes, user) /\ i \in Entries
        BY LinesAre, MatchesAre
      <4>2. Status(<<e, i>>) = entry[i].status
        BY <4>1, StatusIs
      <4> QED BY <3>1, <4>1, <4>2
    <3>2. ASSUME \A e \in Episodes : \A i \in Matches(e, user) : entry[i].status \notin others,
                 NEW line \in Lines(Episodes, user)
          PROVE  Status(line) \notin others
      <4>1. PICK e \in Episodes : LineOf(line, e, user)
        BY LinesAre
      <4>2. CASE line = <<e, NoEntry>>
        <5>1. Status(line) = NoStatus
          BY <4>2, StatusIs
        <5> QED BY <5>1, MediaViewsAssumption DEF StatusNames
      <4>3. CASE line # <<e, NoEntry>>
        <5>1. PICK i \in Matches(e, user) : line = <<e, i>>
          BY <4>1, <4>3 DEF LineOf
        <5>2. Status(line) = entry[i].status
          BY <5>1, StatusIs, MatchesAre
        <5> QED BY <3>2, <5>1, <5>2
      <4> QED BY <4>2, <4>3
    <3> QED BY <3>1, <3>2
  <2>3. StatusNames \ {"planned"} = others
    BY DEF StatusNames
  <2>4. Episodes \cap UNION {rows(s) : s \in others} = {} <=>
          \A e \in Episodes : \A s \in others : e \notin rows(s)
    OBVIOUS
  <2>5. (\A e \in Episodes : \A s \in others : e \notin rows(s)) <=>
        (\A e \in Episodes : \A i \in Matches(e, user) : entry[i].status \notin others)
    BY <1>2
  <2> HIDE DEF others
  <2> QED BY <2>1, <2>2, <2>3, <2>4, <2>5
<1>5. MovieStatus(user) = "watched" <=> Movie \in rows("watched")
  <2>1. MovieStatus(user) = "watched" <=> "watched" \in StatusesOf(Movie, user)
    BY StatusesOfAre, PreferredIs DEF MovieStatus
  <2> QED BY <1>2, <2>1, StatusesOfAre
<1> QED BY <1>3, <1>4, <1>5 DEF rows

LEMMA ViewsInductive ==
  ASSUME ViewsInv, [MediaNext]_mediaViews
  PROVE  ViewsInv'
<1>0. /\ SeriesStatus(EveryUser) \in Statuses
      /\ [s \in Seasons |-> SeasonCounts(s)] \in [Seasons -> Counts]
      /\ [e \in Episodes |-> EpisodeStatus(e)] \in [Episodes -> Statuses]
  BY SeriesStatusIs, SeasonCountsAre, EpisodeStatusIs DEF ViewsInv
<1>1. ASSUME entry' = entry
      PROVE  /\ SeriesStatus(EveryUser)' = SeriesStatus(EveryUser)
             /\ \A s : SeasonCounts(s)' = SeasonCounts(s)
             /\ \A e : EpisodeStatus(e)' = EpisodeStatus(e)
  BY <1>1 DEF SeriesStatus, compute_series_status, SeasonCounts, EpisodeStatus, StatusesOf,
              Counted, Status, Lines, Matches
<1>2. CASE UNCHANGED mediaViews
  BY <1>1, <1>2 DEF mediaViews, ViewsInv, EntriesTyped, ViewTyped, ViewIsCurrent
<1>3. CASE OpensPage
  <2>1. view' \in CountsRead /\ entry' = entry
    BY <1>0, <1>3 DEF OpensPage, CountsRead
  <2>2. ViewIsCurrent'
    BY <1>1, <1>3, <2>1 DEF OpensPage, ViewIsCurrent
  <2> QED BY <2>1, <2>2 DEF ViewsInv, EntriesTyped, ViewTyped
<1>4. CASE ReadsSeasons
  <2>1. view \in CountsRead /\ entry' = entry /\ view # NoView
    BY <1>4 DEF ReadsSeasons, ViewsInv, ViewTyped, NoView, SeasonsRead, PageRead
  <2>2. view' = [at |-> "seasons", status |-> view.status, raced |-> view.raced,
                 season |-> [s \in Seasons |-> SeasonCounts(s)]]
    BY <1>4 DEF ReadsSeasons, Seasons
  <2>3. view' \in SeasonsRead
    BY <1>0, <2>1, <2>2 DEF CountsRead, SeasonsRead
  <2>4. ViewIsCurrent'
    BY <1>1, <2>1, <2>2 DEF ViewsInv, ViewIsCurrent
  <2> QED BY <2>1, <2>3, <2>4 DEF ViewsInv, EntriesTyped, ViewTyped
<1>5. CASE ReadsEpisodes
  <2>1. view \in SeasonsRead /\ entry' = entry /\ view # NoView /\ view.at = "seasons"
    BY <1>5 DEF ReadsEpisodes, ViewsInv, ViewTyped, NoView, CountsRead, PageRead
  <2>2. view' = [at |-> "page", status |-> view.status, raced |-> view.raced,
                 season |-> view.season, episode |-> [e \in Episodes |-> EpisodeStatus(e)]]
    BY <1>5 DEF ReadsEpisodes
  <2>3. view' \in PageRead
    BY <1>0, <2>1, <2>2 DEF SeasonsRead, PageRead
  <2>4. ViewIsCurrent'
    BY <1>1, <2>1, <2>2 DEF ViewsInv, ViewIsCurrent
  <2> QED BY <2>1, <2>3, <2>4 DEF ViewsInv, EntriesTyped, ViewTyped
<1>6. CASE LeavesPage
  BY <1>6 DEF LeavesPage, ViewsInv, EntriesTyped, ViewTyped, ViewIsCurrent
<1>7. ASSUME NEW i \in Entries, NEW what \in Episodes \cup {Movie}, NEW status \in StatusNames,
             SyncWrites(i, what, status)
      PROVE  ViewsInv'
  <2>1. EntriesTyped'
    BY <1>7 DEF SyncWrites, ViewsInv, EntriesTyped, EntryRow
  <2>2. CASE view = NoView
    BY <1>7, <2>1, <2>2 DEF SyncWrites, ViewsInv, ViewTyped, ViewIsCurrent
  <2>3. CASE view # NoView
    <3>1. view \in CountsRead \cup SeasonsRead
      BY <1>7, <2>3 DEF SyncWrites, ViewsInv, ViewTyped, PageRead
    <3>2. view' = [view EXCEPT !.raced = @ + 1]
      BY <1>7, <2>3 DEF SyncWrites
    <3>3. view' \in CountsRead \cup SeasonsRead /\ view'.raced # 0
      <4>1. CASE view \in CountsRead
        BY <3>2, <4>1 DEF CountsRead
      <4>2. CASE view \in SeasonsRead
        BY <3>2, <4>2 DEF SeasonsRead
      <4> QED BY <3>1, <4>1, <4>2
    <3> QED BY <2>1, <3>3 DEF ViewsInv, ViewTyped, ViewIsCurrent
  <2> QED BY <2>2, <2>3
<1> QED BY <1>2, <1>3, <1>4, <1>5, <1>6, <1>7 DEF MediaNext

\* The list shows a user what that user's own rows say, and the page of a series
\* says the same in its three places if no sync commits between its queries, while
\* an episode counts for one row (media_service.py 25-330).
THEOREM ListsAndPagesAgree == MediaSpec => []PagesAgree
<1>1. MediaInit => ViewsInv
  BY DEF MediaInit, ViewsInv, EntriesTyped, ViewTyped, ViewIsCurrent
<1>2. ASSUME ViewsInv
      PROVE  PagesAgree
  <2>1. EntriesTyped
    BY <1>2 DEF ViewsInv
  <2>2. ASSUME view.at = "page", view.raced = 0, SingleRows(EveryUser)
        PROVE  /\ view.status = "watched" <=> \A e \in Episodes : view.episode[e] = "watched"
               /\ \A s \in DOMAIN view.season :
                    LET episodes == {e \in Episodes : SeasonOf[e] = s} IN
                    view.season[s] = [total |-> Cardinality(episodes),
                      watched |-> Cardinality({e \in episodes : view.episode[e] = "watched"})]
    <3>1. /\ view.status = SeriesStatus(EveryUser)
          /\ view.season = [s \in Seasons |-> SeasonCounts(s)]
          /\ view.episode = [e \in Episodes |-> EpisodeStatus(e)]
      BY <1>2, <2>2 DEF ViewsInv, ViewIsCurrent, NoView
    <3>2. view.status = "watched" <=> \A e \in Episodes : view.episode[e] = "watched"
      <4>1. SeriesStatus(EveryUser) = "watched" <=>
              \A e \in Episodes : \E i \in Matches(e, EveryUser) : entry[i].status = "watched"
        BY <2>1, <2>2, SeriesStatusIs, WatchedLines
      <4> QED BY <2>1, <3>1, <4>1, EpisodeStatusIs
    <3>3. ASSUME NEW s \in DOMAIN view.season
          PROVE  LET episodes == {e \in Episodes : SeasonOf[e] = s} IN
                 view.season[s] = [total |-> Cardinality(episodes),
                   watched |-> Cardinality({e \in episodes : view.episode[e] = "watched"})]
      <4> DEFINE episodes == {e \in Episodes : SeasonOf[e] = s}
      <4>1. view.season[s] = SeasonCounts(s)
        BY <3>1
      <4>2. {e \in episodes : EpisodeStatus(e) = "watched"} = {e \in episodes : view.episode[e] = "watched"}
        BY <3>1
      <4> QED BY <2>1, <2>2, <4>1, <4>2, SeasonCountsAre
    <3> QED BY <3>2, <3>3
  <2> QED BY <2>1, <2>2, ListsAgree DEF PagesAgree
<1> QED BY <1>1, <1>2, ViewsInductive, PTL DEF MediaSpec
=============================================================================
