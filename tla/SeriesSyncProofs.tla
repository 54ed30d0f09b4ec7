--------------------------- MODULE SeriesSyncProofs ---------------------------
(***************************************************************************)
(* Proofs about SeriesLibrary, second part: the unique indexes, the TMDB   *)
(* update, the pass of the watch sync, and imports that come again.        *)
(*                                                                         *)
(* UniqueInv adds to SeriesInv that what is committed passes every unique  *)
(* index. SettledInv adds what an import that nothing has raced knows of   *)
(* its series while it fetches the episodes. From them, each property is a *)
(* property of one commit: of the loops it goes through, by EveryTurn.     *)
(*                                                                         *)
(* Jellyfin's loop takes the longest, because it knows an episode twice,   *)
(* by id and by number: Known is what holds of its dictionaries between    *)
(* turns.                                                                  *)
(***************************************************************************)
EXTENDS SeriesLibraryProofs

-----------------------------------------------------------------------------
(* The unique indexes.                                                      *)

\* The last row of a table: after it, a flush has written the whole table.
LEMMA GreatestSlot ==
  ASSUME NEW t \in Tables, Slots[t] # {}
  PROVE  \E i \in Slots[t] : \A j \in Slots[t] : j <= i
<1>1. PICK n \in Nat : Slots[t] \subseteq 1..n
  BY SlotsAre
<1> DEFINE T == {n - i : i \in Slots[t]}
<1>2. T \subseteq Nat /\ T # {}
  BY <1>1
<1> HIDE DEF T
<1>3. PICK m \in T : \A k \in T : m <= k
  BY <1>2, LeastNumber
<1>4. PICK i \in Slots[t] : m = n - i
  BY <1>3 DEF T
<1>5. \A j \in Slots[t] : n - i <= n - j
  BY <1>3, <1>4 DEF T
<1> QED BY <1>1, <1>5

\* What is unique where the flush of a table ends is unique in the table.
LEMMA NotRefused ==
  ASSUME NEW r, NEW acc, ~Refused(r, acc)
  PROVE  Unique(HealsWritten(r, acc))
<1> DEFINE to == HealsWritten(r, acc)
<1> SUFFICES ASSUME NEW t \in Tables
             PROVE  UniqueIn(to[t], t)
  BY DEF Unique
<1>1. CASE Slots[t] = {}
  BY <1>1 DEF UniqueIn
<1>2. CASE Slots[t] # {}
  <2>1. PICK i \in Slots[t] : \A j \in Slots[t] : j <= i
    BY <1>2, GreatestSlot
  <2>2. UniqueIn(Partly(db[t], to[t], t, i), t)
    BY DEF Refused
  <2> HIDE DEF to
  <2>3. \A j \in Slots[t] : Partly(db[t], to[t], t, i)[j] = to[t][j]
    BY <2>1 DEF Partly
  <2> QED BY <2>2, <2>3 DEF UniqueIn
<1> QED BY <1>1, <1>2

\* No commit passes a unique index that refuses it.
LEMMA NothingUnique == Unique(Nothing)
BY NothingIs, TablesAre DEF Unique, UniqueIn, Indexed, Columns

LEMMA UniqueNext ==
  ASSUME SeriesInv, Unique(db), [Next]_vars
  PROVE  Unique(db')
<1>1. ASSUME NEW r \in Runs, ImportCommits(r)
      PROVE  Unique(db')
  BY <1>1 DEF ImportCommits
<1>2. ASSUME NEW r \in Runs, TmdbCommits(r)
      PROVE  Unique(db')
  BY <1>2 DEF TmdbCommits, Spoiled
<1>3. ASSUME NEW r \in Runs, WatchCommits(r)
      PROVE  Unique(db')
  <2>1. PICK p \in Passes(r) : ~Refused(r, PassOutcome(r, p)) /\ db' = HealsWritten(r, PassOutcome(r, p))
    BY <1>3 DEF WatchCommits
  <2> QED BY <2>1, NotRefused
<1>4. ASSUME NEW r \in Runs, NEW x, StartImport(r, x) \/ ImportSkips(r, x) \/ ImportSeries(r, x)
      PROVE  db' = db
  BY <1>4 DEF StartImport, ImportSkips, ImportSeries
<1>5. ASSUME NEW r \in Runs, ImportEpisodes(r) \/ ImportFails(r) \/ StartTmdb(r) \/ TmdbFails(r)
      PROVE  db' = db
  BY <1>5 DEF ImportEpisodes, ImportFails, StartTmdb, TmdbFails
<1>6. ASSUME NEW r \in Runs, NEW u, ListsNothing(r, u) \/ ReadsLibrary(r, u) \/ ListingFails(r, u)
      PROVE  db' = db
  BY <1>6 DEF ListsNothing, ReadsLibrary, ListingFails
<1>7. ASSUME NEW r \in Runs, StartWatch(r) \/ ReadsRows(r) \/ WatchFails(r)
      PROVE  db' = db
  BY <1>7 DEF StartWatch, ReadsRows, WatchFails
<1>8. CASE UNCHANGED vars
  BY <1>8 DEF vars
<1> QED BY <1>1, <1>2, <1>3, <1>4, <1>5, <1>6, <1>7, <1>8 DEF Next

UniqueInv == SeriesInv /\ Unique(db)

\* The database takes no commit that a unique index refuses (its guard in each of
\* the commits), so that what a run reads passes them all.
LEMMA UniqueInvariance == Spec => []UniqueInv
<1>1. Init => UniqueInv
  BY SeriesInvInit, NothingUnique DEF UniqueInv, Init
<1>2. UniqueInv /\ [Next]_vars => UniqueInv'
  BY SeriesInvNext, UniqueNext DEF UniqueInv
<1> QED BY <1>1, <1>2, PTL DEF Spec

-----------------------------------------------------------------------------
(* What a TMDB update comes to.                                             *)

\* Unique, but for the ids that TMDB gives to episodes.
LEMMA OnlyEpisodeIds ==
  ASSUME NEW v, NEW w, IsView(w), Unique(v), OtherColumns(v, w), SeasonIdsDiffer(w)
  PROVE  Unique([w EXCEPT !.episodes = [i \in Slots.episodes |-> [w.episodes[i] EXCEPT !.tmdb = Null]]])
<1> DEFINE E == [i \in Slots.episodes |-> [w.episodes[i] EXCEPT !.tmdb = Null]]
           x == [w EXCEPT !.episodes = E]
<1>1. "episodes" \in DOMAIN w /\ \A i \in Slots["episodes"] : w["episodes"][i] = [c \in Columns["episodes"] |-> w["episodes"][i][c]]
  BY TablesAre DEF IsView
<1>2. x["series"] = w["series"] /\ x["seasons"] = w["seasons"] /\ x["episodes"] = E
  BY <1>1
<1>3. \A i \in Slots["episodes"] : /\ E[i]["tmdb"] = Null
                                   /\ E[i]["jellyfin"] = w["episodes"][i]["jellyfin"]
                                   /\ E[i]["sonarr"] = w["episodes"][i]["sonarr"]
  BY <1>1, TablesAre
<1> HIDE DEF E, x
<1>4. \A t \in Tables : UniqueIn(v[t], t)
  BY DEF Unique
<1>5. UniqueIn(x["series"], "series")
  BY <1>2, <1>4, TablesAre DEF UniqueIn, Indexed, OtherColumns
<1>6. UniqueIn(x["seasons"], "seasons")
  BY <1>2, <1>4, TablesAre DEF UniqueIn, Indexed, OtherColumns, SeasonIdsDiffer
<1>7. UniqueIn(x["episodes"], "episodes")
  BY <1>2, <1>3, <1>4, TablesAre DEF UniqueIn, Indexed, OtherColumns
<1> QED BY <1>5, <1>6, <1>7, TablesAre DEF Unique, x, E

\* The members of a payload by their position.
LEMMA PayloadRange ==
  ASSUME NEW seen, NEW payload \in TmdbAnswers(seen), NEW s \in Named(seen), payload[s] # NoPayload
  PROVE  /\ \A season \in Range(payload[s]) : \E k \in 1..Len(payload[s]) : payload[s][k] = season
         /\ \A season \in Range(payload[s]) : \A ep \in Range(season.episodes) :
              \E k \in 1..Len(season.episodes) : season.episodes[k] = ep
<1> DEFINE x == seen.series[s].tmdb  p == payload[s]
<1>1. p \in {NoPayload} \cup IF x \in DOMAIN Payloads THEN Payloads[x] ELSE {}
  BY DEF TmdbAnswers, Payload
<1>2. x \in DOMAIN Payloads /\ p \in Payloads[x]
  BY <1>1
<1> HIDE DEF x, p
<1>3. p \in Seq(Range(p)) /\ \A season \in Range(p) : season.episodes \in Seq(Range(season.episodes))
  BY <1>2, SeriesTmdbAssumption
<1>4. ASSUME NEW q, q \in Seq(Range(q))
      PROVE  \A y \in Range(q) : \E k \in 1..Len(q) : q[k] = y
  BY <1>4, OwnRange DEF Range
<1>5. \A y \in Range(p) : \E k \in 1..Len(p) : p[k] = y
  BY <1>3, <1>4
<1>6. \A season \in Range(p) : \A ep \in Range(season.episodes) :
              \E k \in 1..Len(season.episodes) : season.episodes[k] = ep
  BY <1>3, <1>4
<1> QED BY <1>5, <1>6 DEF p

\* What a TMDB update comes to, for one answer.
LEMMA DuplicatesAlone ==
  ASSUME UniqueInv, NEW r \in Runs, NEW payload \in TmdbAnswers(db), NEW order \in SetToSeqs(Named(db)), NEW late,
         ~TmdbOutcome(db, payload, order, late, [t \in Tables |-> Room(r, t)]).full
  PROVE  LET acc == TmdbOutcome(db, payload, order, late, [t \in Tables |-> Room(r, t)])
             after == Flushed(acc, db)
         IN  /\ Unique([after EXCEPT !.episodes =
                          [i \in Slots.episodes |-> [after.episodes[i] EXCEPT !.tmdb = Null]]])
             /\ \A s \in DOMAIN payload \ acc.hurt : payload[s] # NoPayload =>
                 \A season \in Range(payload[s]) : \A ep \in Range(season.episodes) :
                   EpisodesAt(after, s, [season |-> season.number, number |-> ep.number]) # {}
<1> DEFINE room == [t \in Tables |-> Room(r, t)]
           acc == TmdbOutcome(db, payload, order, late, room)
           after == Flushed(acc, db)
<1>1. IsView(db) /\ Sound(db) /\ Unique(db)
  BY DEF UniqueInv, SeriesInv
<1>2. IsRoom(room)
  BY RoomIs
<1> HIDE DEF room
<1>3. /\ TmdbAcc(acc)
      /\ acc.full = TRUE \/ \A s \in Named(db) :
              s \in acc.hurt \/ payload[s] = NoPayload \/ (IsPayload(payload[s]) /\ PayloadHeld(acc.view, s, payload[s]))
  BY <1>1, <1>2, TmdbOutcomeIs
<1>4. acc.full # TRUE
  BY DEF room
<1> HIDE DEF acc
<1>5. IsView(acc.view) /\ Covers(db, acc.view)
  BY <1>3 DEF TmdbAcc, Grown, Extends
<1>6. after = acc.view
  BY <1>5, OverlayChanges DEF Flushed
<1>7. SeasonIdsDiffer(db)
  BY <1>1, TablesAre DEF Unique, UniqueIn, SeasonIdsDiffer, Indexed
<1>8. Unique([after EXCEPT !.episodes = [i \in Slots.episodes |-> [after.episodes[i] EXCEPT !.tmdb = Null]]])
  BY <1>1, <1>3, <1>5, <1>6, <1>7, OnlyEpisodeIds DEF TmdbAcc
<1> HIDE DEF after
<1>9. ASSUME NEW s \in DOMAIN payload \ acc.hurt, payload[s] # NoPayload,
             NEW season \in Range(payload[s]), NEW ep \in Range(season.episodes)
      PROVE  EpisodesAt(after, s, [season |-> season.number, number |-> ep.number]) # {}
  <2>1. s \in Named(db)
    BY <1>9 DEF TmdbAnswers
  <2>2. PayloadHeld(after, s, payload[s])
    BY <1>3, <1>4, <1>6, <1>9, <2>1
  <2>3. PICK k \in 1..Len(payload[s]) : payload[s][k] = season
    BY <1>9, <2>1, PayloadRange
  <2>4. SeasonHeld(after, s, season)
    BY <2>2, <2>3 DEF PayloadHeld
  <2>5. PICK m \in 1..Len(season.episodes) : season.episodes[m] = ep
    BY <1>9, <2>1, PayloadRange
  <2>6. \E p \in NumberedSeasons(after, s, season.number) : NumberedEpisodes(after, p, ep.number) # {}
    BY <2>4, <2>5 DEF SeasonHeld
  <2> QED BY <2>6 DEF EpisodesAt
<1> QED BY <1>8, <1>9 DEF after, acc, room

\* Only an episode id that is taken can lose the TMDB update, and a series is
\* brought up to its payload unless a season id is taken: the guards of
\* _process_seasons (update_tmdb_series_metadata_service.py:216) are enough.
THEOREM OnlyDuplicatesLose == Spec => []TmdbLosesOnlyDuplicates
<1>1. UniqueInv => TmdbLosesOnlyDuplicates
  <2> SUFFICES ASSUME UniqueInv, NEW r \in Runs,
                      NEW payload \in TmdbAnswers(db), NEW order \in SetToSeqs(Named(db)), NEW late \in Lates(db),
                      ~TmdbOutcome(db, payload, order, late, [t \in Tables |-> Room(r, t)]).full
               PROVE  LET acc == TmdbOutcome(db, payload, order, late, [t \in Tables |-> Room(r, t)])
                          after == Flushed(acc, db)
                      IN  /\ Unique([after EXCEPT !.episodes =
                                [i \in Slots.episodes |-> [after.episodes[i] EXCEPT !.tmdb = Null]]])
                          /\ \A s \in DOMAIN payload \ acc.hurt : payload[s] # NoPayload =>
                               \A season \in Range(payload[s]) : \A ep \in Range(season.episodes) :
                                 EpisodesAt(after, s, [season |-> season.number, number |-> ep.number]) # {}
    BY DEF TmdbLosesOnlyDuplicates
  <2> QED BY DuplicatesAlone
<1> QED BY <1>1, UniqueInvariance, PTL

-----------------------------------------------------------------------------
(* The heals of a pass of the watch sync.                                   *)

\* w has other Jellyfin ids than v, and is the same otherwise.
OnlyIds(v, w) ==
  \A t \in Tables : \A i \in Slots[t] : \A c \in Columns[t] \ {"jellyfin"} : w[t][i][c] = v[t][i][c]

\* Heals move nothing.
LEMMA OnlyIdsNumbered ==
  ASSUME NEW v, NEW w, OnlyIds(v, w)
  PROVE  /\ \A p, n : NumberedSeasons(w, p, n) = NumberedSeasons(v, p, n)
         /\ \A p, n : NumberedEpisodes(w, p, n) = NumberedEpisodes(v, p, n)
<1>1. /\ \A i \in Slots["seasons"] : /\ w["seasons"][i]["series"] = v["seasons"][i]["series"]
                                     /\ w["seasons"][i]["number"] = v["seasons"][i]["number"]
      /\ \A i \in Slots["episodes"] : /\ w["episodes"][i]["season"] = v["episodes"][i]["season"]
                                      /\ w["episodes"][i]["number"] = v["episodes"][i]["number"]
  BY TablesAre DEF OnlyIds
<1>2. ASSUME NEW p, NEW n
      PROVE  NumberedSeasons(w, p, n) = NumberedSeasons(v, p, n) /\ NumberedEpisodes(w, p, n) = NumberedEpisodes(v, p, n)
  <2>1. NumberedSeasons(w, p, n) = NumberedSeasons(v, p, n)
    <3>1. \A i \in NumberedSeasons(w, p, n) : i \in NumberedSeasons(v, p, n)
      BY <1>1, NumberedAre
    <3>2. \A i \in NumberedSeasons(v, p, n) : i \in NumberedSeasons(w, p, n)
      BY <1>1, NumberedAre
    <3> QED BY <3>1, <3>2
  <2>2. NumberedEpisodes(w, p, n) = NumberedEpisodes(v, p, n)
    <3>1. \A i \in NumberedEpisodes(w, p, n) : i \in NumberedEpisodes(v, p, n)
      BY <1>1, NumberedAre
    <3>2. \A i \in NumberedEpisodes(v, p, n) : i \in NumberedEpisodes(w, p, n)
      BY <1>1, NumberedAre
    <3> QED BY <3>1, <3>2
  <2> QED BY <2>1, <2>2
<1> QED BY <1>2

LEMMA PutOnlyIds ==
  ASSUME NEW v, NEW w, IsView(w), OnlyIds(v, w), NEW t \in Tables, NEW i \in Slots[t], NEW x
  PROVE  /\ OnlyIds(v, Put(w, t, i, "jellyfin", x))
         /\ \A u \in Tables : \A j \in Slots[u] :
              Put(w, t, i, "jellyfin", x)[u][j]["jellyfin"] = IF u = t /\ j = i THEN x ELSE w[u][j]["jellyfin"]
<1>1. \A u \in Tables : "jellyfin" \in Columns[u]
  BY TablesAre
<1> DEFINE z == Put(w, t, i, "jellyfin", x)
<1>2. \A u \in Tables : \A j \in Slots[u] : \A d \in Columns[u] :
              z[u][j][d] = IF u = t /\ j = i /\ d = "jellyfin" THEN x ELSE w[u][j][d]
  BY <1>1, PutIs
<1> HIDE DEF z
<1>3. OnlyIds(v, z)
  BY <1>2 DEF OnlyIds
<1> QED BY <1>1, <1>2, <1>3 DEF z

\* byId knows, of every series, the id that it has and the one it had.
HealKeys(seen, acc) ==
  /\ OnlyIds(seen, acc.view)
  /\ \A i \in Slots["seasons"] : acc.view["seasons"][i]["jellyfin"] = seen["seasons"][i]["jellyfin"]
  /\ \A i \in Slots["episodes"] : acc.view["episodes"][i]["jellyfin"] = seen["episodes"][i]["jellyfin"]
  /\ \A s \in Slots["series"] : LET x == acc.view["series"][s]["jellyfin"] IN
       x # Null => x \in DOMAIN acc.byId /\ acc.byId[x] = s
  /\ \A s \in Slots["series"] : LET x == seen["series"][s]["jellyfin"] IN
       x # Null => x \in DOMAIN acc.byId /\ acc.byId[x] = s

\* The dictionary of series ids of a pass is right throughout.
LEMMA HealedSeriesKeys ==
  ASSUME NEW seen, NEW acc, Heal3(seen, acc), HealKeys(seen, acc), NEW listing, NEW x, x # Null
  PROVE  HealKeys(seen, HealedSeries(seen, listing, acc, x))
<1> DEFINE found == ResolvedSeries(seen, acc.byId, listing, x)
           s == Min(found)
           w == Put(acc.view, "series", s, "jellyfin", x)
           b == HealedSeries(seen, listing, acc, x)
<1>0. "series" \in Tables /\ "seasons" \in Tables /\ "episodes" \in Tables /\ {"jellyfin", "tvdb", "imdb"} \subseteq Columns["series"]
  BY TablesAre
<1>1. found \subseteq Slots["series"] /\ (x \in DOMAIN acc.byId => found = {acc.byId[x]})
  <2>1. CASE x \in DOMAIN acc.byId
    BY <2>1 DEF ResolvedSeries, Heal3, Existing
  <2>2. CASE x \notin DOMAIN acc.byId
    <3> DEFINE by(c) == IF x \in DOMAIN listing.providers THEN With(seen, "series", c, listing.providers[x][c]) ELSE {}
    <3>1. found = IF by("tvdb") # {} THEN by("tvdb") ELSE by("imdb")
      BY <2>2 DEF ResolvedSeries
    <3>2. by("tvdb") \subseteq Slots["series"] /\ by("imdb") \subseteq Slots["series"]
      BY DEF With
    <3> QED BY <2>2, <3>1, <3>2
  <2> QED BY <2>1, <2>2
<1>2. CASE found = {}
  BY <1>2 DEF HealedSeries
<1>3. CASE found # {}
  <2>1. b = [acc EXCEPT !.view = w, !.byId = Also(acc.byId, x, s), !.of = Also(acc.of, x, s)]
    BY <1>3 DEF HealedSeries
  <2>2. s \in Slots["series"] /\ (x \in DOMAIN acc.byId => s = acc.byId[x])
    <3> HIDE DEF found
    <3>1. s \in found
      BY <1>0, <1>1, <1>3, FirstIs
    <3> HIDE DEF s
    <3> QED BY <1>1, <3>1
  <2>3. IsView(acc.view) /\ OnlyIds(seen, acc.view)
    BY DEF Heal3, Extends, HealKeys
  <2> HIDE DEF s, b
  <2>4. /\ OnlyIds(seen, w)
        /\ \A u \in Tables : \A j \in Slots[u] :
             w[u][j]["jellyfin"] = IF u = "series" /\ j = s THEN x ELSE acc.view[u][j]["jellyfin"]
    BY <1>0, <2>2, <2>3, PutOnlyIds
  <2> HIDE DEF w
  <2>5. b.view = w /\ b.byId = Also(acc.byId, x, s)
    BY <2>1 DEF Heal3
  <2>6. /\ \A y : y \in DOMAIN b.byId <=> y = x \/ y \in DOMAIN acc.byId
        /\ b.byId[x] = s
        /\ \A y \in DOMAIN acc.byId : b.byId[y] = acc.byId[y]
    <3>1. /\ \A y : y \in DOMAIN b.byId <=> y = x \/ y \in DOMAIN acc.byId
          /\ b.byId[x] = s
          /\ \A y \in DOMAIN acc.byId : y # x => b.byId[y] = acc.byId[y]
      BY <2>5 DEF Also
    <3> QED BY <2>2, <3>1
  <2>7. \A j \in Slots["series"] : LET y == w["series"][j]["jellyfin"] IN
          y # Null => y \in DOMAIN b.byId /\ b.byId[y] = j
    BY <1>0, <2>2, <2>4, <2>6 DEF HealKeys
  <2>8. \A j \in Slots["series"] : LET y == seen["series"][j]["jellyfin"] IN
          y # Null => y \in DOMAIN b.byId /\ b.byId[y] = j
    BY <2>6 DEF HealKeys
  <2>9. /\ \A i \in Slots["seasons"] : w["seasons"][i]["jellyfin"] = seen["seasons"][i]["jellyfin"]
        /\ \A i \in Slots["episodes"] : w["episodes"][i]["jellyfin"] = seen["episodes"][i]["jellyfin"]
    BY <1>0, <2>4 DEF HealKeys
  <2> QED BY <2>4, <2>5, <2>7, <2>8, <2>9 DEF HealKeys, b
<1> QED BY <1>2, <1>3

LEMMA HealsKeyed ==
  ASSUME NEW seen, IsView(seen), Sound(seen), Unique(seen), NEW listing, IsListing(listing), NEW order \in Orders(listing)
  PROVE  HealKeys(seen, SeriesHealed(seen, listing, order))
<1> DEFINE N == Len(order)
           t == HealTurns(seen, listing, order)
           X == {seen.series[s].jellyfin : s \in Slots.series} \ {Null}
           byId == [x \in X |-> Min(With(seen, "series", "jellyfin", x))]
           S == {n \in 0..N : HealKeys(seen, t[n])}
<1>0. Len(order) \in Nat /\ \A n \in 1..Len(order) : order[n] # Null
  BY OrdersAre DEF Enumerates
<1>1. /\ t[0] = [view |-> seen, of |-> <<>>, byId |-> byId]
      /\ \A n \in 1..N : t[n] = HealedSeries(seen, listing, t[n - 1], order[n])
  BY <1>0, HealTurnsAre
<1>2. \A n \in 0..N : Heal3(seen, t[n])
  BY <1>0, EveryHealTurn
<1>3. N \in Nat /\ \A n \in 1..N : order[n] # Null
  BY <1>0
<1> HIDE DEF t, N
<1>4. 0 \in S
  <2>1. \A s \in Slots["series"] : LET x == seen["series"][s]["jellyfin"] IN
          x # Null => x \in DOMAIN byId /\ byId[x] = s
    <3> SUFFICES ASSUME NEW s \in Slots["series"], seen["series"][s]["jellyfin"] # Null
                 PROVE  seen["series"][s]["jellyfin"] \in X /\ Min(With(seen, "series", "jellyfin", seen["series"][s]["jellyfin"])) = s
      OBVIOUS
    <3> DEFINE W == With(seen, "series", "jellyfin", seen["series"][s]["jellyfin"])
    <3>1. "series" \in Tables /\ "jellyfin" \in Columns["series"] /\ "jellyfin" \in Indexed["series"]
      BY TablesAre DEF Indexed
    <3>2. W \subseteq Slots["series"] /\ s \in W /\ \A i \in W : seen["series"][i]["jellyfin"] = seen["series"][s]["jellyfin"]
      BY DEF With
    <3>3. UniqueIn(seen["series"], "series")
      BY <3>1 DEF Unique
    <3>4. \A i \in W : i = s
      BY <3>1, <3>2, <3>3 DEF UniqueIn
    <3> HIDE DEF W
    <3>5. Min(W) \in W
      BY <3>1, <3>2, FirstIs
    <3> QED BY <3>4, <3>5 DEF W
  <2> HIDE DEF byId
  <2>2. t[0].view = seen /\ t[0].byId = byId
    BY <1>1
  <2>3. OnlyIds(seen, seen)
    BY DEF OnlyIds
  <2> QED BY <1>3, <2>1, <2>2, <2>3 DEF HealKeys
<1>5. ASSUME NEW n \in 1..N, n - 1 \in S
      PROVE  n \in S
  BY <1>1, <1>2, <1>3, <1>5, HealedSeriesKeys
<1>6. N \in 0..N
  BY <1>3
<1> HIDE DEF S
<1>7. N \in S
  BY <1>3, <1>4, <1>5, <1>6, EveryTurn
<1>8. HealKeys(seen, t[N])
  BY <1>7 DEF S
<1> QED BY <1>8 DEF SeriesHealed, t, N

\* Without twins among them, a number has one season.
LEMMA SeasonsAlone ==
  ASSUME NEW v, TwinSeasons(v) = {}
  PROVE  \A p, n : \A i, j \in NumberedSeasons(v, p, n) : i = j
<1>1. ASSUME NEW p, NEW n, NEW i \in NumberedSeasons(v, p, n)
      PROVE  NumberedSeasons(v, p, n) = {i}
  <2>1. i \in Existing(v, "seasons") /\ v["seasons"][i]["series"] = p /\ v["seasons"][i]["number"] = n
    BY <1>1, NumberedAre
  <2> QED BY <2>1 DEF TwinSeasons
<1> QED BY <1>1

\* Without twins, a place has one row.
LEMMA PlacesAlone ==
  ASSUME NEW v, NoTwins(v)
  PROVE  /\ \A p, n : \A i, j \in NumberedSeasons(v, p, n) : i = j
         /\ \A p, n : \A i, j \in NumberedEpisodes(v, p, n) : i = j
         /\ \A s, ep : \A i, j \in EpisodesAt(v, s, ep) : i = j
<1>1. \A p, n : \A i, j \in NumberedSeasons(v, p, n) : i = j
  BY SeasonsAlone DEF NoTwins
<1>2. ASSUME NEW p, NEW n, NEW i \in NumberedEpisodes(v, p, n)
      PROVE  NumberedEpisodes(v, p, n) = {i}
  <2>1. i \in Existing(v, "episodes") /\ v["episodes"][i]["season"] = p /\ v["episodes"][i]["number"] = n
    BY <1>2, NumberedAre
  <2> QED BY <2>1 DEF NoTwins, TwinEpisodes
<1>3. /\ \A p, n : \A i, j \in NumberedSeasons(v, p, n) : i = j
      /\ \A p, n : \A i, j \in NumberedEpisodes(v, p, n) : i = j
  BY <1>1, <1>2
<1>4. ASSUME NEW s, NEW ep, NEW i \in EpisodesAt(v, s, ep), NEW j \in EpisodesAt(v, s, ep)
      PROVE  i = j
  <2>1. PICK p \in NumberedSeasons(v, s, ep.season) : i \in NumberedEpisodes(v, p, ep.number)
    BY <1>4 DEF EpisodesAt
  <2>2. PICK q \in NumberedSeasons(v, s, ep.season) : j \in NumberedEpisodes(v, q, ep.number)
    BY <1>4 DEF EpisodesAt
  <2>3. p = q
    BY <1>3
  <2> QED BY <1>3, <2>1, <2>2, <2>3
<1> QED BY <1>3, <1>4

\* The triples of a view are the places of its episodes.
LEMMA TripleIs ==
  ASSUME NEW v, NEW w, OnlyIds(v, w), NEW s, NEW item
  PROVE  Triple(w, s, item) = EpisodesAt(v, s, item)
<1>1. Triple(w, s, item) = EpisodesAt(w, s, item)
  BY DEF Triple, EpisodesAt
<1>2. NumberedSeasons(w, s, item.season) = NumberedSeasons(v, s, item.season)
  BY OnlyIdsNumbered
<1>3. \A p : NumberedEpisodes(w, p, item.number) = NumberedEpisodes(v, p, item.number)
  BY OnlyIdsNumbered
<1> QED BY <1>1, <1>2, <1>3 DEF EpisodesAt

\* The episode that an item of the answer is about.
LEMMA EpisodeFound ==
  ASSUME NEW seen, NEW acc, OnlyIds(seen, acc.view), NEW late, NEW item
  PROVE  LET i == EpisodeOf(acc, late, item) IN
         /\ i # 0 => item.series \in DOMAIN acc.of /\ i \in EpisodesAt(seen, acc.of[item.series], item)
         /\ i = 0 => item.series \notin DOMAIN acc.of \/ EpisodesAt(seen, acc.of[item.series], item) = {}
<1> DEFINE found == Triple(acc.view, acc.of[item.series], item)
           at == EpisodesAt(seen, acc.of[item.series], item)
           i == EpisodeOf(acc, late, item)
<1>1. found = at
  BY TripleIs
<1>2. i = IF item.series \notin DOMAIN acc.of THEN 0 ELSE IF found = {} THEN 0 ELSE LastOf(found, late)
  BY DEF EpisodeOf
<1>3. at \subseteq Slots["episodes"] /\ "episodes" \in Tables
  BY NumberedAre, TablesAre DEF EpisodesAt
<1> HIDE DEF found, at, i
<1>4. at # {} => LastOf(at, late) \in at
  BY <1>3, LastIs
<1>5. 0 \notin Slots["episodes"]
  BY SlotsAre, TablesAre
<1>6. at # {} => LastOf(at, late) # 0
  BY <1>3, <1>4, <1>5
<1>7. /\ i # 0 => item.series \in DOMAIN acc.of /\ i \in at
      /\ i = 0 => item.series \notin DOMAIN acc.of \/ at = {}
  BY <1>1, <1>2, <1>4, <1>6
<1> QED BY <1>7 DEF at, i

\* Every Jellyfin id that the pass has set is that of an item of this place.
HealIds(seen, of, items, v) ==
  /\ \A p \in Slots["seasons"] : LET x == v["seasons"][p]["jellyfin"] IN
       \/ x = seen["seasons"][p]["jellyfin"]
       \/ \E k \in 1..Len(items) : /\ items[k].series \in DOMAIN of /\ items[k].of = x /\ x # Null
                                   /\ p \in NumberedSeasons(seen, of[items[k].series], items[k].season)
  /\ \A i \in Slots["episodes"] : LET x == v["episodes"][i]["jellyfin"] IN
       \/ x = seen["episodes"][i]["jellyfin"]
       \/ \E k \in 1..Len(items) : /\ items[k].series \in DOMAIN of /\ items[k].id = x
                                   /\ i \in EpisodesAt(seen, of[items[k].series], items[k])

\* The heals of an item.
LEMMA HealedEpisodeIs ==
  ASSUME NEW seen, IsView(seen), Sound(seen), NEW v, Extends("watch", seen, v), OnlyIds(seen, v), NEW i \in Existing(v, "episodes"), NEW item
  PROVE  LET w == HealedEpisode(v, i, item) IN
         /\ OnlyIds(seen, w)
         /\ \A s \in Slots["series"] : w["series"][s]["jellyfin"] = v["series"][s]["jellyfin"]
         /\ \A p \in Slots["seasons"] : w["seasons"][p]["jellyfin"] =
              IF p = seen["episodes"][i]["season"] /\ item.of # Null THEN item.of ELSE v["seasons"][p]["jellyfin"]
         /\ \A j \in Slots["episodes"] : w["episodes"][j]["jellyfin"] =
              IF j = i THEN item.id ELSE v["episodes"][j]["jellyfin"]
<1> DEFINE u == Put(v, "episodes", i, "jellyfin", item.id)
           p == v.episodes[i].season
           w == Put(u, "seasons", p, "jellyfin", item.of)
<1>0. "series" \in Tables /\ "seasons" \in Tables /\ "episodes" \in Tables /\ "season" \in Columns["episodes"] \ {"jellyfin"}
      /\ "jellyfin" \in Columns["episodes"]
  BY TablesAre
<1>1. i \in Slots["episodes"] /\ p \in Slots["seasons"] /\ p = seen["episodes"][i]["season"] /\ IsView(v)
  BY <1>0 DEF Extends, Sound, Existing, OnlyIds
<1>2. HealedEpisode(v, i, item) = IF item.of = Null THEN u ELSE w
  BY DEF HealedEpisode
<1>3. IsView(u)
  BY <1>0, <1>1, PutIs
<1> HIDE DEF p
<1>4. OnlyIds(seen, u) /\ \A y \in Tables : \A j \in Slots[y] :
        u[y][j]["jellyfin"] = IF y = "episodes" /\ j = i THEN item.id ELSE v[y][j]["jellyfin"]
  BY <1>0, <1>1, PutOnlyIds
<1> HIDE DEF u
<1>5. OnlyIds(seen, w) /\ \A y \in Tables : \A j \in Slots[y] :
        w[y][j]["jellyfin"] = IF y = "seasons" /\ j = p THEN item.of ELSE u[y][j]["jellyfin"]
  BY <1>0, <1>1, <1>3, <1>4, PutOnlyIds
<1> HIDE DEF w
<1>6. CASE item.of = Null
  BY <1>0, <1>2, <1>4, <1>6
<1>7. CASE item.of # Null
  BY <1>0, <1>1, <1>2, <1>4, <1>5, <1>7
<1> QED BY <1>6, <1>7

\* What the loop over the items does to the library.
ItemHeals(seen, healed, items, acc) ==
  /\ Item5(seen, acc)
  /\ acc.of = healed.of
  /\ OnlyIds(seen, acc.view) /\ HealIds(seen, healed.of, items, acc.view)
  /\ \A s \in Slots["series"] : acc.view["series"][s]["jellyfin"] = healed.view["series"][s]["jellyfin"]

\* The heals of one item, and of all.
LEMMA ProcessedHeals ==
  ASSUME NEW seen, IsView(seen), Sound(seen), NEW healed, NEW items, Len(items) \in Nat, NEW k \in 1..Len(items),
         NEW acc, ItemHeals(seen, healed, items, acc), NEW pick, NEW late,
         items[k].id # Null, items[k].status \in Statuses
  PROVE  ItemHeals(seen, healed, items, Processed(pick, late, acc, items[k]))
<1> DEFINE item == items[k]
           i == EpisodeOf(acc, late, item)
           b == Processed(pick, late, acc, item)
           w == HealedEpisode(acc.view, i, item)
           of == healed.of
<1>1. CASE i = 0
  BY <1>1 DEF Processed
<1>2. CASE i # 0
  <2>1. Item5(seen, b) /\ Item5(seen, acc)
    BY ProcessedIs DEF ItemHeals
  <2>2. b.view = w /\ b.of = acc.of
    BY <1>2, <2>1 DEF Processed, Item5
  <2>3. item.series \in DOMAIN of /\ i \in EpisodesAt(seen, of[item.series], item)
    <3>1. OnlyIds(seen, acc.view) /\ acc.of = of
      BY DEF ItemHeals
    <3>2. i # 0 => item.series \in DOMAIN acc.of /\ i \in EpisodesAt(seen, acc.of[item.series], item)
      BY <3>1, EpisodeFound
    <3> HIDE DEF item, i, of
    <3> QED BY ONLY <1>2, <3>1, <3>2
  <2>4. OnlyIds(seen, acc.view) /\ HealIds(seen, of, items, acc.view) /\ acc.of = of
    BY DEF ItemHeals
  <2>5. PICK p \in NumberedSeasons(seen, of[item.series], item.season) : i \in NumberedEpisodes(seen, p, item.number)
    BY <2>3 DEF EpisodesAt
  <2>6. seen["episodes"][i]["season"] = p /\ i \in Existing(seen, "episodes")
    BY <2>5, NumberedAre
  <2>7. i \in Existing(acc.view, "episodes") /\ Extends("watch", seen, acc.view)
    BY <2>1, <2>6, TablesAre DEF Item5
  <2> HIDE DEF i, b, of
  <2>8. /\ OnlyIds(seen, w)
        /\ \A s \in Slots["series"] : w["series"][s]["jellyfin"] = acc.view["series"][s]["jellyfin"]
        /\ \A q \in Slots["seasons"] : w["seasons"][q]["jellyfin"] =
              IF q = p /\ item.of # Null THEN item.of ELSE acc.view["seasons"][q]["jellyfin"]
        /\ \A j \in Slots["episodes"] : w["episodes"][j]["jellyfin"] =
              IF j = i THEN item.id ELSE acc.view["episodes"][j]["jellyfin"]
    <3> HIDE DEF item, w
    <3> DEFINE u == HealedEpisode(acc.view, i, item)
    <3>1. /\ OnlyIds(seen, u)
          /\ \A s \in Slots["series"] : u["series"][s]["jellyfin"] = acc.view["series"][s]["jellyfin"]
          /\ \A q \in Slots["seasons"] : u["seasons"][q]["jellyfin"] =
                IF q = seen["episodes"][i]["season"] /\ item.of # Null THEN item.of
                ELSE acc.view["seasons"][q]["jellyfin"]
          /\ \A j \in Slots["episodes"] : u["episodes"][j]["jellyfin"] =
                IF j = i THEN item.id ELSE acc.view["episodes"][j]["jellyfin"]
      BY ONLY IsView(seen), Sound(seen), <2>4, <2>7, HealedEpisodeIs
    <3>2. w = u
      BY DEF w
    <3> HIDE DEF u
    <3> QED BY ONLY <2>6, <3>1, <3>2
  <2> HIDE DEF w
  <2>9. ASSUME NEW q \in Slots["seasons"]
        PROVE  LET x == w["seasons"][q]["jellyfin"] IN
       \/ x = seen["seasons"][q]["jellyfin"]
       \/ \E n \in 1..Len(items) : /\ items[n].series \in DOMAIN of /\ items[n].of = x /\ x # Null
                                   /\ q \in NumberedSeasons(seen, of[items[n].series], items[n].season)
    <3>1. CASE q = p /\ item.of # Null
      BY <2>3, <2>8, <3>1
    <3>2. CASE ~(q = p /\ item.of # Null)
      <4>1. w["seasons"][q]["jellyfin"] = acc.view["seasons"][q]["jellyfin"]
        BY <2>8, <3>2
      <4> QED BY <2>4, <4>1 DEF HealIds
    <3> QED BY <3>1, <3>2
  <2>10. ASSUME NEW j \in Slots["episodes"]
         PROVE  LET x == w["episodes"][j]["jellyfin"] IN
       \/ x = seen["episodes"][j]["jellyfin"]
       \/ \E n \in 1..Len(items) : /\ items[n].series \in DOMAIN of /\ items[n].id = x
                                   /\ j \in EpisodesAt(seen, of[items[n].series], items[n])
    <3>1. CASE j = i
      BY <2>3, <2>8, <3>1
    <3>2. CASE j # i
      <4>1. w["episodes"][j]["jellyfin"] = acc.view["episodes"][j]["jellyfin"]
        BY <2>8, <3>2
      <4> QED BY <2>4, <4>1 DEF HealIds
    <3> QED BY <3>1, <3>2
  <2>11. HealIds(seen, of, items, w)
    BY <2>9, <2>10 DEF HealIds
  <2> QED BY <2>1, <2>2, <2>4, <2>8, <2>11 DEF ItemHeals, b, of
<1> QED BY <1>1, <1>2

LEMMA EveryItemHeals ==
  ASSUME NEW seen, IsView(seen), Sound(seen), NEW healed, Heal3(seen, healed), HealKeys(seen, healed),
         NEW items, Len(items) \in Nat,
         \A n \in 1..Len(items) : items[n].id # Null /\ items[n].status \in Statuses,
         NEW late, NEW episodes, NEW loaded \in Seq(WatchRows(episodes)), NEW pick \in WatchPicks(loaded)
  PROVE  \A n \in 0..Len(items) : ItemHeals(seen, healed, items, ItemTurns(healed, items, late, loaded, pick)[n])
<1> DEFINE N == Len(items)
           t == ItemTurns(healed, items, late, loaded, pick)
           S == {n \in 0..N : ItemHeals(seen, healed, items, t[n])}
<1>1. /\ t[0] = BeforeItems(healed, loaded, pick)
      /\ \A n \in 1..N : t[n] = Processed(pick, late, t[n - 1], items[n])
  BY ItemTurnsAre
<1>2. \A n \in 0..N : Item5(seen, t[n])
  BY EveryItemTurn
<1>3. N \in Nat /\ \A n \in 1..N : items[n].id # Null /\ items[n].status \in Statuses
  OBVIOUS
<1> HIDE DEF t
<1>4. 0 \in S
  <2>1. t[0].view = healed.view /\ t[0].of = healed.of
    BY <1>1 DEF BeforeItems
  <2>2. HealIds(seen, healed.of, items, healed.view)
    BY DEF HealKeys, HealIds
  <2>3. Item5(seen, t[0])
    BY <1>2, <1>3
  <2>4. OnlyIds(seen, healed.view)
    BY DEF HealKeys
  <2>5. ItemHeals(seen, healed, items, t[0])
    BY <2>1, <2>2, <2>3, <2>4 DEF ItemHeals
  <2> QED BY <1>3, <2>5
<1>5. ASSUME NEW n \in 1..N, n - 1 \in S
      PROVE  n \in S
  <2>1. ItemHeals(seen, healed, items, t[n - 1]) /\ items[n].id # Null /\ items[n].status \in Statuses
    BY <1>3, <1>5
  <2>2. ItemHeals(seen, healed, items, Processed(pick, late, t[n - 1], items[n]))
    BY <1>5, <2>1, ProcessedHeals
  <2> QED BY <1>1, <1>3, <1>5, <2>2
<1> HIDE DEF S, N
<1>6. \A n \in 0..N : n \in S
  BY <1>3, <1>4, <1>5, EveryTurn
<1> QED BY <1>6 DEF S, t, N

\* What a pass does to the library.
LEMMA WatchHeals ==
  ASSUME NEW seen, IsView(seen), Sound(seen), Unique(seen), NEW listing \in Listings, NEW order \in Orders(listing), NEW late,
         NEW episodes, NEW loaded \in Seq(WatchRows(episodes)), NEW pick \in WatchPicks(loaded)
  PROVE  LET healed == SeriesHealed(seen, listing, order) IN
         /\ Heal3(seen, healed) /\ HealKeys(seen, healed)
         /\ ItemHeals(seen, healed, listing.episodes, WatchOutcome(seen, listing, order, late, loaded, pick))
<1> DEFINE healed == SeriesHealed(seen, listing, order)
           items == listing.episodes
           acc == ItemTurns(healed, items, late, loaded, pick)[Len(items)]
<1>1. IsListing(listing)
  BY ListingsAre
<1>2. Heal3(seen, healed) /\ HealKeys(seen, healed)
  BY <1>1, HealsAre, HealsKeyed
<1>3. Len(items) \in Nat /\ \A n \in 1..Len(items) : items[n].id # Null /\ items[n].status \in Statuses
  BY <1>1 DEF IsListing
<1> HIDE DEF healed, items
<1>4. \A n \in 0..Len(items) : ItemHeals(seen, healed, items, ItemTurns(healed, items, late, loaded, pick)[n])
  BY <1>2, <1>3, EveryItemHeals
<1>5. Len(items) \in 0..Len(items)
  BY <1>3
<1>6. ItemHeals(seen, healed, items, acc)
  BY <1>4, <1>5
<1>7. WatchOutcome(seen, listing, order, late, loaded, pick) = Drops(acc)
  BY DEF WatchOutcome, healed, items
<1> HIDE DEF acc
<1>8. ItemHeals(seen, healed, items, Drops(acc))
  <2> DEFINE d == Drops(acc)
  <2>1. Item5(seen, acc)
    BY <1>6 DEF ItemHeals
  <2>2. Item5(seen, d) /\ d.view = acc.view /\ d.of = acc.of
    BY <2>1, DropsIs
  <2> HIDE DEF d
  <2>3. ItemHeals(seen, healed, items, d)
    BY <1>6, <2>2 DEF ItemHeals
  <2> QED BY <2>3 DEF d
<1> QED BY <1>2, <1>7, <1>8 DEF healed, items

\* No two rows of t have the same Jellyfin id, before a pass or after it.
IdsApart(t, from, to) ==
  \A j, k \in Slots[t] : \A x :
    x # Null /\ x \in {from[j]["jellyfin"], to[j]["jellyfin"]} /\ x \in {from[k]["jellyfin"], to[k]["jellyfin"]}
      => j = k

\* The indexes check row by row: no moment of a flush has an id twice if no two
\* rows share one, old or new.
LEMMA ApartUnique ==
  ASSUME NEW v, Unique(v), NEW w, OnlyIds(v, w), NEW t \in Tables, IdsApart(t, v[t], w[t]), NEW i \in Slots[t]
  PROVE  UniqueIn(Partly(v[t], w[t], t, i), t)
<1> DEFINE rows == Partly(v[t], w[t], t, i)
<1>1. \A j \in Slots[t] : rows[j] = IF j <= i THEN w[t][j] ELSE v[t][j]
  BY DEF Partly
<1> HIDE DEF rows
<1>2. Indexed[t] \subseteq Columns[t]
  BY TablesAre DEF Indexed
<1>3. ASSUME NEW c \in Indexed[t], c # "jellyfin", NEW j \in Slots[t], NEW k \in Slots[t],
             rows[j][c] # Null, rows[j][c] = rows[k][c]
      PROVE  j = k
  <2>1. rows[j][c] = v[t][j][c] /\ rows[k][c] = v[t][k][c]
    BY <1>1, <1>2, <1>3 DEF OnlyIds
  <2> QED BY <1>3, <2>1 DEF Unique, UniqueIn
<1>4. ASSUME NEW j \in Slots[t], NEW k \in Slots[t],
             rows[j]["jellyfin"] # Null, rows[j]["jellyfin"] = rows[k]["jellyfin"]
      PROVE  j = k
  <2>1. /\ rows[j]["jellyfin"] \in {v[t][j]["jellyfin"], w[t][j]["jellyfin"]}
        /\ rows[k]["jellyfin"] \in {v[t][k]["jellyfin"], w[t][k]["jellyfin"]}
    BY <1>1
  <2> QED BY <1>4, <2>1 DEF IdsApart
<1> QED BY <1>3, <1>4 DEF UniqueIn, rows

\* The heals of a pass share no id with another row unless Jellyfin has moved one.
LEMMA HealsApart ==
  ASSUME NEW v, Unique(v), NoTwins(v), NEW listing, IsListing(listing), NEW healed, HealKeys(v, healed),
         NEW acc, ItemHeals(v, healed, listing.episodes, acc), ~Misplaced(v, listing, healed.of)
  PROVE  \A t \in Tables : IdsApart(t, v[t], acc.view[t])
<1> DEFINE w == acc.view
           of == healed.of
           eps == listing.episodes
           items == {item \in Range(eps) : item.series \in DOMAIN of}
<1>1. \A k \in 1..Len(eps) : eps[k].series \in DOMAIN of => eps[k] \in items
  BY DEF IsListing, Range
<1>2. /\ \A item \in items : With(v, "episodes", "jellyfin", item.id) \subseteq EpisodesAt(v, of[item.series], item)
      /\ \A item \in items : With(v, "seasons", "jellyfin", item.of) \subseteq NumberedSeasons(v, of[item.series], item.season)
      /\ \A item, other \in items : item.id = other.id => Place(of, item) = Place(of, other)
      /\ \A item, other \in items : item.of = other.of /\ item.of # Null =>
           <<of[item.series], item.season>> = <<of[other.series], other.season>>
  BY DEF Misplaced
<1>3. OnlyIds(v, w) /\ HealIds(v, of, eps, w) /\ \A s \in Slots["series"] : w["series"][s]["jellyfin"] = healed.view["series"][s]["jellyfin"]
  BY DEF ItemHeals
<1> HIDE DEF w, items
<1>4. IdsApart("series", v["series"], w["series"])
  <2>1. ASSUME NEW s \in Slots["series"], NEW x, x # Null,
               x \in {v["series"][s]["jellyfin"], w["series"][s]["jellyfin"]}
        PROVE  healed.byId[x] = s
    <3>1. w["series"][s]["jellyfin"] = healed.view["series"][s]["jellyfin"]
      BY <1>3
    <3> QED BY <2>1, <3>1 DEF HealKeys
  <2> QED BY ONLY <2>1 DEF IdsApart
<1>5. IdsApart("seasons", v["seasons"], w["seasons"])
  <2>1. ASSUME NEW x, x # Null, NEW j \in Slots["seasons"], NEW k \in Slots["seasons"],
               v["seasons"][j]["jellyfin"] = x, v["seasons"][k]["jellyfin"] = x
        PROVE  j = k
    BY <2>1, TablesAre DEF Unique, UniqueIn, Indexed
  <2>2. ASSUME NEW x, x # Null, NEW j \in Slots["seasons"], NEW item \in items, item.of = x,
               v["seasons"][j]["jellyfin"] = x
        PROVE  j \in NumberedSeasons(v, of[item.series], item.season)
    <3>1. j \in With(v, "seasons", "jellyfin", item.of)
      BY <2>2 DEF With
    <3> QED BY <1>2, <3>1
  <2>3. ASSUME NEW x, x # Null, NEW j \in Slots["seasons"], x \in {v["seasons"][j]["jellyfin"], w["seasons"][j]["jellyfin"]}
        PROVE  v["seasons"][j]["jellyfin"] = x \/ \E item \in items : item.of = x /\ j \in NumberedSeasons(v, of[item.series], item.season)
    BY <1>1, <1>3, <2>3 DEF HealIds
  <2>4. ASSUME NEW x, x # Null, NEW j \in Slots["seasons"], NEW k \in Slots["seasons"],
               x \in {v["seasons"][j]["jellyfin"], w["seasons"][j]["jellyfin"]},
               x \in {v["seasons"][k]["jellyfin"], w["seasons"][k]["jellyfin"]}
        PROVE  j = k
    <3>1. CASE v["seasons"][j]["jellyfin"] = x /\ v["seasons"][k]["jellyfin"] = x
      BY <2>1, <2>4, <3>1
    <3>2. CASE \E item \in items : item.of = x
      <4>1. PICK item \in items : item.of = x
        BY <3>2
      <4>2. ASSUME NEW other \in items, other.of = x
            PROVE  of[other.series] = of[item.series] /\ other.season = item.season
        BY <1>2, <2>4, <4>1, <4>2
      <4>3. ASSUME NEW y \in {j, k}
            PROVE  y \in NumberedSeasons(v, of[item.series], item.season)
        <5>1. y \in Slots["seasons"] /\ x \in {v["seasons"][y]["jellyfin"], w["seasons"][y]["jellyfin"]}
          BY <2>4, <4>3
        <5>2. CASE v["seasons"][y]["jellyfin"] = x
          BY <2>2, <2>4, <4>1, <5>1, <5>2
        <5>3. CASE \E other \in items : other.of = x /\ y \in NumberedSeasons(v, of[other.series], other.season)
          <6>1. PICK other \in items : other.of = x /\ y \in NumberedSeasons(v, of[other.series], other.season)
            BY <5>3
          <6> QED BY <4>2, <6>1
        <5> QED BY <2>3, <2>4, <5>1, <5>2, <5>3
      <4> QED BY <4>3, PlacesAlone
    <3> QED BY <2>3, <2>4, <3>1, <3>2
  <2> QED BY <2>4 DEF IdsApart
<1>6. IdsApart("episodes", v["episodes"], w["episodes"])
  <2>1. ASSUME NEW x, x # Null, NEW j \in Slots["episodes"], NEW k \in Slots["episodes"],
               v["episodes"][j]["jellyfin"] = x, v["episodes"][k]["jellyfin"] = x
        PROVE  j = k
    BY <2>1, TablesAre DEF Unique, UniqueIn, Indexed
  <2>2. ASSUME NEW x, x # Null, NEW j \in Slots["episodes"], NEW item \in items, item.id = x,
               v["episodes"][j]["jellyfin"] = x
        PROVE  j \in EpisodesAt(v, of[item.series], item)
    <3>1. j \in With(v, "episodes", "jellyfin", item.id)
      BY <2>2 DEF With
    <3> QED BY <1>2, <3>1
  <2>3. ASSUME NEW x, x # Null, NEW j \in Slots["episodes"], x \in {v["episodes"][j]["jellyfin"], w["episodes"][j]["jellyfin"]}
        PROVE  v["episodes"][j]["jellyfin"] = x \/ \E item \in items : item.id = x /\ j \in EpisodesAt(v, of[item.series], item)
    BY <1>1, <1>3, <2>3 DEF HealIds
  <2>4. ASSUME NEW x, x # Null, NEW j \in Slots["episodes"], NEW k \in Slots["episodes"],
               x \in {v["episodes"][j]["jellyfin"], w["episodes"][j]["jellyfin"]},
               x \in {v["episodes"][k]["jellyfin"], w["episodes"][k]["jellyfin"]}
        PROVE  j = k
    <3>1. CASE v["episodes"][j]["jellyfin"] = x /\ v["episodes"][k]["jellyfin"] = x
      BY <2>1, <2>4, <3>1
    <3>2. CASE \E item \in items : item.id = x
      <4>1. PICK item \in items : item.id = x
        BY <3>2
      <4>2. ASSUME NEW other \in items, other.id = x
            PROVE  EpisodesAt(v, of[other.series], other) = EpisodesAt(v, of[item.series], item)
        <5>1. Place(of, item) = Place(of, other)
          BY <1>2, <4>1, <4>2
        <5>2. of[item.series] = of[other.series] /\ item.season = other.season /\ item.number = other.number
          BY <5>1 DEF Place
        <5> QED BY <5>2 DEF EpisodesAt
      <4>3. ASSUME NEW y \in {j, k}
            PROVE  y \in EpisodesAt(v, of[item.series], item)
        <5>1. y \in Slots["episodes"] /\ x \in {v["episodes"][y]["jellyfin"], w["episodes"][y]["jellyfin"]}
          BY <2>4, <4>3
        <5>2. CASE v["episodes"][y]["jellyfin"] = x
          BY <2>2, <2>4, <4>1, <5>1, <5>2
        <5>3. CASE \E other \in items : other.id = x /\ y \in EpisodesAt(v, of[other.series], other)
          <6>1. PICK other \in items : other.id = x /\ y \in EpisodesAt(v, of[other.series], other)
            BY <5>3
          <6> QED BY <4>2, <6>1
        <5> QED BY <2>3, <2>4, <5>1, <5>2, <5>3
      <4> QED BY <4>3, PlacesAlone
    <3> QED BY <2>3, <2>4, <3>1, <3>2
  <2> QED BY <2>4 DEF IdsApart
<1> QED BY <1>4, <1>5, <1>6, TablesAre DEF w

\* A pass that nothing has raced works on what is committed.
LEMMA PassHeals ==
  ASSUME UniqueInv, NEW r \in Runs, Decided(r), NEW p \in Passes(r)
  PROVE  LET acc == PassOutcome(r, p)
             healed == SeriesHealed(db, p.listing, p.order)
         IN  /\ IsView(db) /\ Sound(db) /\ Unique(db) /\ run[r].seen = db /\ run[r].loaded = watch[run[r].user]
             /\ p.listing \in Listings /\ IsListing(p.listing) /\ p.order \in Orders(p.listing)
             /\ p.pick \in WatchPicks(run[r].loaded) /\ run[r].user \in Users
             /\ acc = WatchOutcome(db, p.listing, p.order, p.late, run[r].loaded, p.pick)
             /\ Heal3(db, healed) /\ HealKeys(db, healed)
             /\ ItemHeals(db, healed, p.listing.episodes, acc)
             /\ HealsWritten(r, acc) = acc.view
<1> DEFINE acc == PassOutcome(r, p)
           healed == SeriesHealed(db, p.listing, p.order)
<1>1. /\ IsView(db) /\ Sound(db) /\ Unique(db)
      /\ At(r, "rows") /\ ~run[r].raced
  BY DEF UniqueInv, SeriesInv, Decided
<1>2. /\ RowsRun(run[r], db, watch)
      /\ p.listing \in Listings /\ p.order \in Orders(p.listing) /\ p.pick \in WatchPicks(run[r].loaded)
  BY <1>1, PassIs DEF UniqueInv
<1>3. run[r].seen = db /\ run[r].loaded = watch[run[r].user] /\ run[r].user \in Users
      /\ run[r].loaded \in Seq(WatchRows(Existing(db, "episodes")))
  BY <1>1, <1>2 DEF RowsRun, PassRun, Past
<1>4. IsListing(p.listing)
  BY <1>2, ListingsAre
<1>5. acc = WatchOutcome(db, p.listing, p.order, p.late, run[r].loaded, p.pick)
  BY <1>3 DEF PassOutcome
<1> HIDE DEF acc
<1>6. Heal3(db, healed) /\ HealKeys(db, healed) /\ ItemHeals(db, healed, p.listing.episodes, acc)
  BY <1>1, <1>2, <1>3, <1>5, WatchHeals
<1>7. IsView(acc.view) /\ Covers(db, acc.view)
  BY <1>6 DEF ItemHeals, Item5, Extends
<1>8. HealsWritten(r, acc) = acc.view
  BY <1>3, <1>7, OverlayChanges DEF HealsWritten
<1> QED BY <1>1, <1>2, <1>3, <1>4, <1>5, <1>6, <1>8 DEF acc

\* So nothing refuses its heals.
LEMMA HealsNotRefused ==
  ASSUME UniqueInv, NEW r \in Runs, Decided(r), NEW p \in Passes(r), NoTwins(db),
         ~Misplaced(db, p.listing, SeriesHealed(db, p.listing, p.order).of)
  PROVE  ~Refused(r, PassOutcome(r, p))
<1> DEFINE acc == PassOutcome(r, p)
           healed == SeriesHealed(db, p.listing, p.order)
<1>1. /\ Unique(db) /\ IsListing(p.listing) /\ HealKeys(db, healed)
      /\ ItemHeals(db, healed, p.listing.episodes, acc) /\ HealsWritten(r, acc) = acc.view
  BY PassHeals
<1> HIDE DEF acc, healed
<1>2. \A t \in Tables : IdsApart(t, db[t], acc.view[t])
  BY <1>1, HealsApart DEF healed
<1>3. OnlyIds(db, acc.view)
  BY <1>1 DEF ItemHeals
<1>4. \A t \in Tables : \A i \in Slots[t] : UniqueIn(Partly(db[t], acc.view[t], t, i), t)
  BY <1>1, <1>2, <1>3, ApartUnique
<1> QED BY <1>1, <1>4 DEF Refused, acc

\* No heal of a pass of the watch sync is refused by a unique index unless Jellyfin
\* has moved an id or two rows stand in one place
\* (sync_jellyfin_watched_series_service.py: one refused heal loses the pass).
THEOREM HealsAreTaken == Spec => []HealsCollideOnlyWhenMoved
<1>1. UniqueInv => HealsCollideOnlyWhenMoved
  BY HealsNotRefused DEF HealsCollideOnlyWhenMoved, NoTwins
<1> QED BY <1>1, UniqueInvariance, PTL

-----------------------------------------------------------------------------
(* The rows that a pass writes.                                             *)

\* The items that are about episode i.
ItemsOf(v, of, eps, i) ==
  {n \in DOMAIN eps : eps[n].series \in DOMAIN of /\ i \in EpisodesAt(v, of[eps[n].series], eps[n])}

\* One turn of the loop: nothing, or one episode is resolved.
Turned(v, of, eps, pick, a, b, k) ==
  \/ /\ \A i \in Slots["episodes"] : k \notin ItemsOf(v, of, eps, i)
     /\ b = a
  \/ \E i \in Slots["episodes"] :
       /\ k \in ItemsOf(v, of, eps, i)
       /\ \A j \in Slots["episodes"] : k \in ItemsOf(v, of, eps, j) => j = i
       /\ b.resolved = a.resolved \cup {i}
       /\ \A j \in Slots["episodes"] : b.status[j] = IF j = i /\ pick[i] # 0 THEN eps[k].status ELSE a.status[j]
       /\ b.added = IF pick[i] # 0 \/ eps[k].status \notin Begun THEN a.added
                    ELSE Append(a.added, [episode |-> i, status |-> eps[k].status])

\* What one item does to the rows, and all of the first N.
LEMMA ProcessedTurns ==
  ASSUME NEW v, NoTwins(v), NEW healed, NEW eps, DOMAIN eps = 1..Len(eps), NEW k \in 1..Len(eps),
         NEW acc, ItemHeals(v, healed, eps, acc), NEW pick, NEW late
  PROVE  Turned(v, healed.of, eps, pick, acc, Processed(pick, late, acc, eps[k]), k)
<1> DEFINE item == eps[k]
           i == EpisodeOf(acc, late, item)
           b == Processed(pick, late, acc, item)
           of == healed.of
           w == HealedEpisode(acc.view, i, item)
<1>1. OnlyIds(v, acc.view) /\ acc.of = of /\ Item5(v, acc)
  BY DEF ItemHeals
<1>2. /\ i # 0 => item.series \in DOMAIN of /\ i \in EpisodesAt(v, of[item.series], item)
      /\ i = 0 => item.series \notin DOMAIN of \/ EpisodesAt(v, of[item.series], item) = {}
  <2>1. OnlyIds(v, acc.view) /\ acc.of = of
    BY <1>1
  <2>2. /\ i # 0 => item.series \in DOMAIN acc.of /\ i \in EpisodesAt(v, acc.of[item.series], item)
        /\ i = 0 => item.series \notin DOMAIN acc.of \/ EpisodesAt(v, acc.of[item.series], item) = {}
    <3> HIDE DEF item, of
    <3> QED BY ONLY <2>1, EpisodeFound
  <2> HIDE DEF item, i, of
  <2> QED BY <2>1, <2>2
<1>3. CASE i = 0
  <2>1. b = acc
    BY <1>3 DEF Processed
  <2>2. \A j \in Slots["episodes"] : k \notin ItemsOf(v, of, eps, j)
    BY <1>2, <1>3 DEF ItemsOf
  <2> QED BY <2>1, <2>2 DEF Turned
<1>4. CASE i # 0
  <2>1. i \in Slots["episodes"] /\ i \in Existing(v, "episodes")
    <3>1. i \in Existing(v, "episodes")
      BY <1>2, <1>4, NumberedAre DEF EpisodesAt
    <3> QED BY <3>1 DEF Existing
  <2>2. k \in ItemsOf(v, of, eps, i)
    BY <1>2, <1>4 DEF ItemsOf
  <2>3. \A j \in Slots["episodes"] : k \in ItemsOf(v, of, eps, j) => j = i
    BY <1>2, <1>4, PlacesAlone DEF ItemsOf
  <2>4. b = [acc EXCEPT
              !.view = w, !.resolved = @ \cup {i},
              !.status[i] = IF pick[i] # 0 THEN item.status ELSE @,
              !.added = IF pick[i] # 0 \/ item.status \notin Begun THEN @
                        ELSE Append(@, [episode |-> i, status |-> item.status])]
    BY <1>4 DEF Processed
  <2> HIDE DEF i, b, w
  <2>5. /\ b.resolved = acc.resolved \cup {i}
        /\ b.status = [acc.status EXCEPT ![i] = IF pick[i] # 0 THEN item.status ELSE @]
        /\ b.added = IF pick[i] # 0 \/ item.status \notin Begun THEN acc.added
                     ELSE Append(acc.added, [episode |-> i, status |-> item.status])
    BY <1>1, <2>4 DEF Item5
  <2>6. \A j \in Slots["episodes"] : b.status[j] = IF j = i /\ pick[i] # 0 THEN item.status ELSE acc.status[j]
    BY <1>1, <2>1, <2>5 DEF Item5
  <2>7. Turned(v, of, eps, pick, acc, b, k)
    BY <2>1, <2>2, <2>3, <2>5, <2>6 DEF Turned
  <2> QED BY <2>7 DEF b
<1> QED BY <1>3, <1>4

\* No two items are about one episode.
OneItem(v, of, eps) == \A i \in Slots["episodes"] : \A m, n \in ItemsOf(v, of, eps, i) : m = n

\* The row is of an episode without one, for an item that has been begun.
NewRow(v, of, eps, pick, row, N) ==
  /\ row.episode \in Slots["episodes"] /\ pick[row.episode] = 0
  /\ \E k \in 1..N : k \in ItemsOf(v, of, eps, row.episode) /\ eps[k].status \in Begun /\ row.status = eps[k].status

\* What the loop has made of the rows after N items.
RowsSo(v, of, eps, loaded, pick, acc, N) ==
  /\ \A i \in Slots["episodes"] : i \in acc.resolved <=> \E k \in 1..N : k \in ItemsOf(v, of, eps, i)
  /\ \A i \in Slots["episodes"] : \A k \in 1..N :
       pick[i] # 0 /\ k \in ItemsOf(v, of, eps, i) => acc.status[i] = eps[k].status
  /\ \A i \in Slots["episodes"] :
       pick[i] # 0 /\ (\A k \in 1..N : k \notin ItemsOf(v, of, eps, i)) => acc.status[i] = loaded[pick[i]].status
  /\ Len(acc.added) \in Nat
  /\ \A m \in 1..Len(acc.added) : NewRow(v, of, eps, pick, acc.added[m], N)
  /\ \A i \in Slots["episodes"] : \A k \in 1..N :
       pick[i] = 0 /\ k \in ItemsOf(v, of, eps, i) /\ eps[k].status \in Begun =>
         \E m \in 1..Len(acc.added) : acc.added[m].episode = i
  /\ \A m, n \in 1..Len(acc.added) : acc.added[m].episode = acc.added[n].episode => m = n

LEMMA TurnedRows ==
  ASSUME NEW v, NEW of, NEW eps, OneItem(v, of, eps), NEW loaded, NEW pick, NEW a, NEW b, NEW S, a.added \in Seq(S), b.added \in Seq(S),
         NEW N \in Nat, N # 0, RowsSo(v, of, eps, loaded, pick, a, N - 1), Turned(v, of, eps, pick, a, b, N)
  PROVE  RowsSo(v, of, eps, loaded, pick, b, N)
<1>0. \A k : k \in 1..N <=> k = N \/ k \in 1..(N - 1)
  OBVIOUS
<1>1. \A row : NewRow(v, of, eps, pick, row, N - 1) => NewRow(v, of, eps, pick, row, N)
  BY <1>0 DEF NewRow
<1>2. CASE (\A i \in Slots["episodes"] : N \notin ItemsOf(v, of, eps, i)) /\ b = a
  BY <1>0, <1>2, <1>1 DEF RowsSo
<1>3. ASSUME NEW i \in Slots["episodes"],
             N \in ItemsOf(v, of, eps, i),
             \A j \in Slots["episodes"] : N \in ItemsOf(v, of, eps, j) => j = i,
             b.resolved = a.resolved \cup {i},
             \A j \in Slots["episodes"] : b.status[j] = IF j = i /\ pick[i] # 0 THEN eps[N].status ELSE a.status[j],
             b.added = IF pick[i] # 0 \/ eps[N].status \notin Begun THEN a.added
                       ELSE Append(a.added, [episode |-> i, status |-> eps[N].status])
      PROVE  RowsSo(v, of, eps, loaded, pick, b, N)
  <2>1. \A k \in 1..(N - 1) : k \notin ItemsOf(v, of, eps, i)
    BY <1>0, <1>3 DEF OneItem
  <2>2. \A j \in Slots["episodes"] : j \in b.resolved <=> \E k \in 1..N : k \in ItemsOf(v, of, eps, j)
    BY <1>0, <1>3 DEF RowsSo
  <2>3. \A j \in Slots["episodes"] : \A k \in 1..N :
          pick[j] # 0 /\ k \in ItemsOf(v, of, eps, j) => b.status[j] = eps[k].status
    BY <1>0, <1>3, <2>1 DEF RowsSo
  <2>4. \A j \in Slots["episodes"] :
          pick[j] # 0 /\ (\A k \in 1..N : k \notin ItemsOf(v, of, eps, j)) => b.status[j] = loaded[pick[j]].status
    BY <1>0, <1>3 DEF RowsSo
  <2>5. CASE pick[i] # 0 \/ eps[N].status \notin Begun
    <3>1. b.added = a.added
      BY <1>3, <2>5
    <3>2. \A j \in Slots["episodes"] : \A k \in 1..N :
            pick[j] = 0 /\ k \in ItemsOf(v, of, eps, j) /\ eps[k].status \in Begun =>
              \E m \in 1..Len(b.added) : b.added[m].episode = j
      BY <1>0, <1>3, <2>5, <3>1 DEF RowsSo
    <3>3. \A m \in 1..Len(b.added) : NewRow(v, of, eps, pick, b.added[m], N)
      BY <1>1, <3>1 DEF RowsSo
    <3> QED BY <2>2, <2>3, <2>4, <3>1, <3>2, <3>3 DEF RowsSo
  <2>6. CASE pick[i] = 0 /\ eps[N].status \in Begun
    <3> DEFINE row == [episode |-> i, status |-> eps[N].status]
    <3>1. /\ b.added = Append(a.added, row) /\ row.episode = i /\ row.status = eps[N].status
      BY <1>3, <2>6
    <3> HIDE DEF row
    <3>2. /\ Len(a.added) \in Nat /\ Len(b.added) = Len(a.added) + 1
          /\ b.added[Len(a.added) + 1] = row
          /\ \A m \in 1..Len(a.added) : b.added[m] = a.added[m]
      BY <3>1
    <3>3. \A m : m \in 1..Len(b.added) <=> m = Len(a.added) + 1 \/ m \in 1..Len(a.added)
      BY <3>2
    <3>4. \A m \in 1..Len(a.added) : a.added[m].episode # i
      BY <2>1 DEF RowsSo, NewRow
    <3>5. \A m \in 1..Len(b.added) : NewRow(v, of, eps, pick, b.added[m], N)
      <4> TAKE m \in 1..Len(b.added)
      <4>1. CASE m = Len(a.added) + 1
        BY <1>0, <1>3, <2>6, <3>1, <3>2, <4>1 DEF NewRow
      <4>2. CASE m \in 1..Len(a.added)
        BY <1>1, <3>2, <4>2 DEF RowsSo
      <4> QED BY <3>3, <4>1, <4>2
    <3>6. \A j \in Slots["episodes"] : \A k \in 1..N :
            pick[j] = 0 /\ k \in ItemsOf(v, of, eps, j) /\ eps[k].status \in Begun =>
              \E m \in 1..Len(b.added) : b.added[m].episode = j
      <4> SUFFICES ASSUME NEW j \in Slots["episodes"], NEW k \in 1..N,
                          pick[j] = 0 /\ k \in ItemsOf(v, of, eps, j) /\ eps[k].status \in Begun
                   PROVE  \E m \in 1..Len(b.added) : b.added[m].episode = j
        OBVIOUS
      <4>1. CASE k = N
        BY <1>3, <3>1, <3>2, <3>3, <4>1
      <4>2. CASE k \in 1..(N - 1)
        <5>1. PICK m \in 1..Len(a.added) : a.added[m].episode = j
          BY <4>2 DEF RowsSo
        <5> QED BY <3>2, <3>3, <5>1
      <4> QED BY <1>0, <4>1, <4>2
    <3>7. \A m, n \in 1..Len(b.added) : b.added[m].episode = b.added[n].episode => m = n
      <4> TAKE m, n \in 1..Len(b.added)
      <4>1. CASE m \in 1..Len(a.added) /\ n \in 1..Len(a.added)
        BY <3>2, <4>1 DEF RowsSo
      <4>2. CASE ~(m \in 1..Len(a.added) /\ n \in 1..Len(a.added))
        BY <3>1, <3>2, <3>3, <3>4, <4>2
      <4> QED BY <4>1, <4>2
    <3>8. Len(b.added) \in Nat
      BY <3>2
    <3> QED BY <2>2, <2>3, <2>4, <3>5, <3>6, <3>7, <3>8 DEF RowsSo
  <2> QED BY <2>5, <2>6
<1> QED BY <1>2, <1>3 DEF Turned

LEMMA EveryItemRows ==
  ASSUME NEW seen, IsView(seen), Sound(seen), NoTwins(seen), NEW healed, Heal3(seen, healed), HealKeys(seen, healed),
         NEW items, Len(items) \in Nat, DOMAIN items = 1..Len(items),
         \A n \in 1..Len(items) : items[n].id # Null /\ items[n].status \in Statuses,
         OneItem(seen, healed.of, items),
         NEW late, NEW episodes, NEW loaded \in Seq(WatchRows(episodes)), NEW pick \in WatchPicks(loaded)
  PROVE  \A n \in 0..Len(items) :
           RowsSo(seen, healed.of, items, loaded, pick, ItemTurns(healed, items, late, loaded, pick)[n], n)
<1> DEFINE N == Len(items)
           of == healed.of
           R == WatchRows(Existing(seen, "episodes"))
           t == ItemTurns(healed, items, late, loaded, pick)
           S == {n \in 0..N : RowsSo(seen, of, items, loaded, pick, t[n], n)}
<1>1. /\ t[0] = BeforeItems(healed, loaded, pick)
      /\ \A n \in 1..N : t[n] = Processed(pick, late, t[n - 1], items[n])
  BY ItemTurnsAre
<1>2. \A n \in 0..N : ItemHeals(seen, healed, items, t[n])
  BY EveryItemHeals
<1>3. N \in Nat /\ DOMAIN items = 1..N
  OBVIOUS
<1> HIDE DEF t, of
<1>4. 0 \in S
  <2>1. t[0].resolved = {} /\ t[0].added = <<>>
        /\ \A i \in Slots["episodes"] : pick[i] # 0 => t[0].status[i] = loaded[pick[i]].status
    BY <1>1 DEF BeforeItems
  <2>2. Len(<<>>) = 0 /\ 1..0 = {}
    OBVIOUS
  <2>3. RowsSo(seen, of, items, loaded, pick, t[0], 0)
    BY <2>1, <2>2 DEF RowsSo
  <2> QED BY <1>3, <2>3
<1>5. ASSUME NEW n \in 1..N, n - 1 \in S
      PROVE  n \in S
  <2>1. ItemHeals(seen, healed, items, t[n - 1]) /\ ItemHeals(seen, healed, items, t[n])
    BY <1>2, <1>3, <1>5
  <2>2. t[n - 1].added \in Seq(R) /\ t[n].added \in Seq(R)
    BY <2>1 DEF ItemHeals, Item5
  <2>3. RowsSo(seen, of, items, loaded, pick, t[n - 1], n - 1) /\ n \in Nat /\ n # 0
    BY <1>3, <1>5
  <2>4. Turned(seen, of, items, pick, t[n - 1], Processed(pick, late, t[n - 1], items[n]), n)
    BY <1>5, <2>1, ProcessedTurns DEF of
  <2>5. Turned(seen, of, items, pick, t[n - 1], t[n], n)
    BY <1>1, <1>5, <2>4
  <2>6. OneItem(seen, of, items)
    BY DEF of
  <2> HIDE DEF R
  <2>7. RowsSo(seen, of, items, loaded, pick, t[n], n)
    BY <2>2, <2>3, <2>5, <2>6, TurnedRows
  <2> QED BY <1>3, <1>5, <2>7
<1> HIDE DEF S, N
<1>6. \A n \in 0..N : n \in S
  BY <1>3, <1>4, <1>5, EveryTurn
<1> QED BY <1>6 DEF S, t, N, of

\* What a pass makes of the rows.
RowsDone(v, of, eps, loaded, pick, acc) ==
  /\ \A i \in Slots["episodes"] : pick[i] # 0 => \A k \in ItemsOf(v, of, eps, i) : acc.status[i] = eps[k].status
  /\ \A i \in Slots["episodes"] : pick[i] # 0 /\ ItemsOf(v, of, eps, i) = {} =>
       acc.status[i] = IF loaded[pick[i]].status = Watched THEN loaded[pick[i]].status ELSE Dropped
  /\ Len(acc.added) \in Nat
  /\ \A m \in 1..Len(acc.added) : NewRow(v, of, eps, pick, acc.added[m], Len(eps))
  /\ \A i \in Slots["episodes"] : \A k \in ItemsOf(v, of, eps, i) :
       pick[i] = 0 /\ eps[k].status \in Begun => \E m \in 1..Len(acc.added) : acc.added[m].episode = i
  /\ \A m, n \in 1..Len(acc.added) : acc.added[m].episode = acc.added[n].episode => m = n

\* What a pass does to the rows: updates, additions, drops.
LEMMA WatchRowsDone ==
  ASSUME NEW seen, IsView(seen), Sound(seen), NoTwins(seen), Unique(seen), NEW listing \in Listings, NEW order \in Orders(listing), NEW late,
         OneItem(seen, SeriesHealed(seen, listing, order).of, listing.episodes),
         NEW episodes, NEW loaded \in Seq(WatchRows(episodes)), NEW pick \in WatchPicks(loaded)
  PROVE  RowsDone(seen, SeriesHealed(seen, listing, order).of, listing.episodes, loaded, pick,
                  WatchOutcome(seen, listing, order, late, loaded, pick))
<1> DEFINE healed == SeriesHealed(seen, listing, order)
           of == healed.of
           items == listing.episodes
           N == Len(items)
           acc == ItemTurns(healed, items, late, loaded, pick)[N]
           d == Drops(acc)
<1>1. IsListing(listing)
  BY ListingsAre
<1>2. Heal3(seen, healed) /\ HealKeys(seen, healed)
  BY <1>1, HealsAre, HealsKeyed
<1>3. N \in Nat /\ DOMAIN items = 1..N /\ \A n \in 1..N : items[n].id # Null /\ items[n].status \in Statuses
  BY <1>1 DEF IsListing
<1>4. N \in 0..N
  BY <1>3
<1>5. RowsSo(seen, of, items, loaded, pick, acc, N)
  <2> HIDE DEF healed, items
  <2>1. OneItem(seen, healed.of, items)
    BY DEF healed, items
  <2> QED BY <1>2, <1>3, <1>4, <2>1, EveryItemRows
<1>6. Item5(seen, acc)
  <2> HIDE DEF healed, items
  <2>1. \A n \in 0..N : ItemHeals(seen, healed, items, ItemTurns(healed, items, late, loaded, pick)[n])
    BY <1>2, <1>3, EveryItemHeals
  <2> QED BY <1>4, <2>1 DEF ItemHeals
<1>7. WatchOutcome(seen, listing, order, late, loaded, pick) = d
  BY DEF WatchOutcome
<1> HIDE DEF healed, of, items, N, acc
<1>8. /\ d.added = acc.added
      /\ \A i \in Slots["episodes"] : d.status[i] =
              IF i \in acc.resolved \/ acc.status[i] = Watched THEN acc.status[i] ELSE Dropped
  BY <1>6, DropsIs
<1> HIDE DEF d
<1>9. \A i : ItemsOf(seen, of, items, i) \subseteq 1..N
  BY <1>3 DEF ItemsOf
<1>10. \A i \in Slots["episodes"] : pick[i] # 0 => \A k \in ItemsOf(seen, of, items, i) : d.status[i] = items[k].status
  BY <1>5, <1>8, <1>9 DEF RowsSo
<1>11. \A i \in Slots["episodes"] : pick[i] # 0 /\ ItemsOf(seen, of, items, i) = {} =>
       d.status[i] = IF loaded[pick[i]].status = Watched THEN loaded[pick[i]].status ELSE Dropped
  BY <1>5, <1>8, <1>9 DEF RowsSo
<1>12. /\ Len(d.added) \in Nat
       /\ \A m \in 1..Len(d.added) : NewRow(seen, of, items, pick, d.added[m], N)
       /\ \A i \in Slots["episodes"] : \A k \in ItemsOf(seen, of, items, i) :
            pick[i] = 0 /\ items[k].status \in Begun => \E m \in 1..Len(d.added) : d.added[m].episode = i
       /\ \A m, n \in 1..Len(d.added) : d.added[m].episode = d.added[n].episode => m = n
  BY <1>5, <1>8, <1>9 DEF RowsSo
<1>13. RowsDone(seen, of, items, loaded, pick, d)
  BY <1>10, <1>11, <1>12 DEF RowsDone, N
<1> QED BY <1>7, <1>13 DEF of, items, healed

\* after has the rows of before, with the status of their episodes, and then those added.
RowsJoined(before, pick, acc, after) ==
  /\ Len(before) \in Nat /\ Len(acc.added) \in Nat /\ DOMAIN before = 1..Len(before)
  /\ DOMAIN after = 1..(Len(before) + Len(acc.added))
  /\ \A n \in 1..Len(before) : LET i == before[n].episode IN
       /\ i \in Slots["episodes"] /\ pick[i] = n
       /\ after[n].episode = i /\ after[n].status = acc.status[i]
  /\ \A n \in 1..Len(acc.added) : after[Len(before) + n] = acc.added[n]

\* The rows of a user that has one of each episode, after a pass.
LEMMA AfterRows ==
  ASSUME NEW before, NEW E, before \in Seq(WatchRows(E)), E \subseteq Slots["episodes"], OneEach(before),
         NEW pick \in WatchPicks(before), NEW acc,
         acc.status \in [Slots["episodes"] -> Statuses \cup {Dropped}], acc.added \in Seq(WatchRows(E))
  PROVE  RowsJoined(before, pick, acc, RowsWritten(before, pick, before, acc))
<1> DEFINE after == RowsWritten(before, pick, before, acc)
<1>1. /\ after \in Seq(WatchRows(E)) /\ Len(after) = Len(before) + Len(acc.added)
      /\ \A n \in 1..Len(before) : after[n] =
              LET i == before[n].episode IN
              IF pick[i] = n /\ acc.status[i] # before[n].status
              THEN [before[n] EXCEPT !.status = acc.status[i]] ELSE before[n]
      /\ \A n \in 1..Len(acc.added) : after[Len(before) + n] = acc.added[n]
  BY RowsWrittenAre
<1> HIDE DEF after
<1>2. DOMAIN after = 1..Len(after) /\ DOMAIN before = 1..Len(before) /\ Len(before) \in Nat /\ Len(acc.added) \in Nat
  BY <1>1
<1>3. ASSUME NEW n \in 1..Len(before)
      PROVE  LET i == before[n].episode IN
              /\ i \in Slots["episodes"] /\ pick[i] = n
              /\ after[n].episode = i /\ after[n].status = acc.status[i]
  <2> DEFINE i == before[n].episode
  <2>1. before[n] \in WatchRows(E)
    BY <1>2
  <2>2. i \in Slots["episodes"] /\ before[n] = [episode |-> i, status |-> before[n].status]
    BY <2>1 DEF WatchRows
  <2>3. pick[i] \in 0..Len(before) /\ IF pick[i] = 0 THEN \A m \in DOMAIN before : before[m].episode # i ELSE before[pick[i]].episode = i
    BY <2>2 DEF WatchPicks
  <2>4. pick[i] # 0
    BY <1>2, <2>3
  <2>5. pick[i] \in DOMAIN before /\ before[pick[i]].episode = i
    BY <1>2, <2>3, <2>4
  <2>6. pick[i] = n
    BY <1>2, <2>5 DEF OneEach
  <2>7. after[n] = IF acc.status[i] # before[n].status THEN [before[n] EXCEPT !.status = acc.status[i]] ELSE before[n]
    BY <1>1, <2>6
  <2> HIDE DEF i
  <2>8. after[n].episode = i /\ after[n].status = acc.status[i]
    BY <2>2, <2>7
  <2> QED BY <2>2, <2>6, <2>8 DEF i
<1> QED BY <1>1, <1>2, <1>3 DEF RowsJoined, after

\* Does the pass leave the rows as the answer has them?
RowsFollow(v, of, eps, before, after) ==
  LET statuses(rows, i) == {rows[n].status : n \in {n \in DOMAIN rows : rows[n].episode = i}}
      items(i) == {n \in DOMAIN eps : LET ep == eps[n] IN ep.series \in DOMAIN of /\ i \in EpisodesAt(v, of[ep.series], ep)}
      listed(i) == {eps[n].status : n \in items(i)}
  IN  (\A i \in Slots.episodes : \A m, n \in items(i) : m = n) =>
        /\ OneEach(after)
        /\ \A i \in Slots.episodes :
             statuses(after, i) =
               IF listed(i) # {}
               THEN IF statuses(before, i) # {} THEN listed(i) ELSE listed(i) \cap Begun
               ELSE {IF st = Watched THEN st ELSE Dropped : st \in statuses(before, i)}

\* A pass that does so leaves the rows as the answer has them.
LEMMA DoneFollows ==
  ASSUME NEW v, NEW of, NEW eps, OneItem(v, of, eps), DOMAIN eps = 1..Len(eps),
         NEW before, NEW E, before \in Seq(WatchRows(E)), E \subseteq Slots["episodes"], OneEach(before),
         NEW pick \in WatchPicks(before), NEW acc,
         acc.status \in [Slots["episodes"] -> Statuses \cup {Dropped}], acc.added \in Seq(WatchRows(E)),
         RowsDone(v, of, eps, before, pick, acc)
  PROVE  RowsFollow(v, of, eps, before, RowsWritten(before, pick, before, acc))
<1> DEFINE after == RowsWritten(before, pick, before, acc)
           A == Len(before)
           B == Len(acc.added)
           statuses(rows, i) == {rows[n].status : n \in {n \in DOMAIN rows : rows[n].episode = i}}
           items(i) == ItemsOf(v, of, eps, i)
           listed(i) == {eps[n].status : n \in items(i)}
<1>1. /\ A \in Nat /\ B \in Nat /\ DOMAIN before = 1..A /\ DOMAIN after = 1..(A + B)
      /\ \A n \in 1..A : LET i == before[n].episode IN
              /\ i \in Slots["episodes"] /\ pick[i] = n
              /\ after[n].episode = i /\ after[n].status = acc.status[i]
      /\ \A n \in 1..B : after[A + n] = acc.added[n]
  <2>1. RowsJoined(before, pick, acc, after)
    BY AfterRows
  <2> HIDE DEF after
  <2> QED BY <2>1 DEF RowsJoined
<1>2. \A i \in Slots["episodes"] : /\ pick[i] \in 0..A
                                   /\ pick[i] = 0 => \A n \in 1..A : before[n].episode # i
                                   /\ pick[i] # 0 => pick[i] \in 1..A /\ before[pick[i]].episode = i
  BY <1>1 DEF WatchPicks
<1> HIDE DEF after, A, B
<1>3. ASSUME NEW n \in DOMAIN after
      PROVE  n \in 1..A \/ \E m \in 1..B : n = A + m
  <2>1. CASE n <= A
    BY <1>1, <2>1
  <2>2. CASE n > A
    <3>1. n - A \in 1..B /\ n = A + (n - A)
      BY <1>1, <2>2
    <3> QED BY <3>1
  <2> QED BY <1>1, <2>1, <2>2
<1>4. \A n \in 1..A : n \in DOMAIN after
  BY <1>1
<1>5. \A m \in 1..B : A + m \in DOMAIN after
  BY <1>1
<1>6. \A m \in 1..B : /\ acc.added[m].episode \in Slots["episodes"] /\ pick[acc.added[m].episode] = 0
                      /\ \E k \in items(acc.added[m].episode) : eps[k].status \in Begun /\ acc.added[m].status = eps[k].status
  BY DEF RowsDone, NewRow, B
<1>7. /\ \A i \in Slots["episodes"] : \A k \in items(i) : pick[i] = 0 /\ eps[k].status \in Begun => \E m \in 1..B : acc.added[m].episode = i
      /\ \A m, n \in 1..B : acc.added[m].episode = acc.added[n].episode => m = n
      /\ \A i \in Slots["episodes"] : pick[i] # 0 => \A k \in items(i) : acc.status[i] = eps[k].status
      /\ \A i \in Slots["episodes"] : pick[i] # 0 /\ items(i) = {} =>
           acc.status[i] = IF before[pick[i]].status = Watched THEN before[pick[i]].status ELSE Dropped
  BY DEF RowsDone, B
<1>8. \A i \in Slots["episodes"] : \A m, n \in items(i) : m = n
  BY DEF OneItem
<1> HIDE DEF items
<1>9. OneEach(after)
  <2> SUFFICES ASSUME NEW m \in DOMAIN after, NEW n \in DOMAIN after, after[m].episode = after[n].episode
               PROVE  m = n
    BY DEF OneEach
  <2>1. CASE m \in 1..A /\ n \in 1..A
    BY <1>1, <2>1
  <2>2. ASSUME NEW j \in 1..B, NEW k \in 1..B, m = A + j, n = A + k
        PROVE  m = n
    <3>1. after[A + j] = acc.added[j] /\ after[A + k] = acc.added[k]
      BY <1>1
    <3>2. acc.added[j].episode = acc.added[k].episode
      BY <2>2, <3>1
    <3>3. j = k
      BY <1>7, <3>2
    <3> QED BY <2>2, <3>3
  <2>3. ASSUME NEW j \in 1..A, NEW k \in 1..B, after[j].episode = after[A + k].episode
        PROVE  FALSE
    <3>1. pick[after[j].episode] = j /\ j # 0
      BY <1>1
    <3>2. after[A + k] = acc.added[k]
      BY <1>1
    <3>3. pick[acc.added[k].episode] = 0
      BY <1>6
    <3> QED BY <2>3, <3>1, <3>2, <3>3
  <2> QED BY <1>3, <2>1, <2>2, <2>3
<1>10. ASSUME NEW i \in Slots["episodes"], pick[i] # 0
       PROVE  statuses(after, i) = {acc.status[i]} /\ statuses(before, i) = {before[pick[i]].status}
  <2>1. pick[i] \in 1..A /\ before[pick[i]].episode = i /\ pick[i] \in DOMAIN after /\ pick[i] \in DOMAIN before
    BY <1>1, <1>2, <1>4, <1>10
  <2>2. after[pick[i]].episode = i /\ after[pick[i]].status = acc.status[i]
    BY <1>1, <2>1
  <2>3. \A n \in DOMAIN after : after[n].episode = i => n = pick[i]
    BY <1>9, <2>1, <2>2 DEF OneEach
  <2>4. \A n \in DOMAIN before : before[n].episode = i => n = pick[i]
    BY <2>1 DEF OneEach
  <2>5. statuses(after, i) = {acc.status[i]}
    BY <2>1, <2>2, <2>3
  <2>6. statuses(before, i) = {before[pick[i]].status}
    BY <2>1, <2>4
  <2> QED BY <2>5, <2>6
<1>11. ASSUME NEW i \in Slots["episodes"], pick[i] = 0
       PROVE  statuses(after, i) = listed(i) \cap Begun /\ statuses(before, i) = {}
  <2>1. statuses(before, i) = {}
    BY <1>1, <1>2, <1>11
  <2>2. ASSUME NEW n \in DOMAIN after, after[n].episode = i
        PROVE  after[n].status \in listed(i) \cap Begun
    <3>1. n \notin 1..A
      BY <1>1, <1>11, <2>2
    <3>2. PICK m \in 1..B : n = A + m
      BY <1>3, <3>1
    <3>3. after[n] = acc.added[m]
      BY <1>1, <3>2
    <3>4. acc.added[m].episode = i
      BY <2>2, <3>3
    <3> QED BY <1>6, <3>3, <3>4
  <2>3. ASSUME NEW k \in items(i), eps[k].status \in Begun
        PROVE  eps[k].status \in statuses(after, i)
    <3>1. PICK m \in 1..B : acc.added[m].episode = i
      BY <1>7, <1>11, <2>3
    <3>2. PICK l \in items(i) : acc.added[m].status = eps[l].status
      BY <1>6, <3>1
    <3>3. l = k
      BY <1>8, <3>2
    <3>4. A + m \in DOMAIN after /\ after[A + m].episode = i /\ after[A + m].status = eps[k].status
      BY <1>1, <1>5, <3>1, <3>2, <3>3
    <3> QED BY <3>4
  <2>4. statuses(after, i) = listed(i) \cap Begun
    BY <2>2, <2>3
  <2> QED BY <2>1, <2>4
<1>12. ASSUME NEW i \in Slots["episodes"]
       PROVE  statuses(after, i) =
               IF listed(i) # {}
               THEN IF statuses(before, i) # {} THEN listed(i) ELSE listed(i) \cap Begun
               ELSE {IF st = Watched THEN st ELSE Dropped : st \in statuses(before, i)}
  <2>1. CASE pick[i] = 0
    BY <1>11, <2>1
  <2>2. CASE pick[i] # 0 /\ items(i) # {}
    <3>1. PICK k \in items(i) : TRUE
      BY <2>2
    <3>2. listed(i) = {eps[k].status} /\ acc.status[i] = eps[k].status
      BY <1>7, <1>8, <2>2, <3>1
    <3> QED BY <1>10, <2>2, <3>2
  <2>3. CASE pick[i] # 0 /\ items(i) = {}
    <3>1. listed(i) = {}
      BY <2>3
    <3>2. acc.status[i] = IF before[pick[i]].status = Watched THEN before[pick[i]].status ELSE Dropped
      BY <1>7, <2>3
    <3>3. statuses(before, i) = {before[pick[i]].status} /\ statuses(after, i) = {acc.status[i]}
      BY <1>10, <2>3
    <3> DEFINE dropped == {IF st = Watched THEN st ELSE Dropped : st \in statuses(before, i)}
    <3> HIDE DEF statuses, listed
    <3>4. dropped = {IF before[pick[i]].status = Watched THEN before[pick[i]].status ELSE Dropped}
      BY <3>3
    <3> HIDE DEF dropped
    <3>5. statuses(after, i) = dropped
      BY <3>2, <3>3, <3>4
    <3> QED BY <3>1, <3>5 DEF dropped
  <2> QED BY <2>1, <2>2, <2>3
<1> QED BY <1>9, <1>12 DEF RowsFollow, items, ItemsOf, after

\* Every pass does, for every answer.
LEMMA PassFollows ==
  ASSUME UniqueInv, NEW r \in Runs, Decided(r), NoTwins(db), OneEach(watch[run[r].user]), NEW p \in Passes(r)
  PROVE  RowsFollow(db, SeriesHealed(db, p.listing, p.order).of, p.listing.episodes, watch[run[r].user],
                    RowsWritten(watch[run[r].user], p.pick, run[r].loaded, PassOutcome(r, p)))
<1> DEFINE acc == PassOutcome(r, p)
           healed == SeriesHealed(db, p.listing, p.order)
           eps == p.listing.episodes
           before == watch[run[r].user]
           E == Existing(db, "episodes")
           after == RowsWritten(before, p.pick, before, acc)
<1>1. /\ IsView(db) /\ Sound(db) /\ Unique(db) /\ run[r].loaded = before /\ run[r].user \in Users
      /\ p.listing \in Listings /\ IsListing(p.listing) /\ p.order \in Orders(p.listing)
      /\ p.pick \in WatchPicks(before)
      /\ acc = WatchOutcome(db, p.listing, p.order, p.late, before, p.pick)
      /\ ItemHeals(db, healed, eps, acc)
  BY PassHeals
<1>2. before \in Seq(WatchRows(E)) /\ E \subseteq Slots["episodes"]
  BY <1>1 DEF UniqueInv, SeriesInv, WatchIs, Existing
<1>3. DOMAIN eps = 1..Len(eps)
  BY <1>1 DEF IsListing
<1>4. acc.status \in [Slots["episodes"] -> Statuses \cup {Dropped}] /\ acc.added \in Seq(WatchRows(E))
  BY <1>1 DEF ItemHeals, Item5
<1> HIDE DEF acc, before, E
<1>5. OneItem(db, healed.of, eps) => RowsDone(db, healed.of, eps, before, p.pick, acc)
  BY <1>1, <1>2, WatchRowsDone
<1> HIDE DEF healed, eps
<1>6. OneItem(db, healed.of, eps) => RowsFollow(db, healed.of, eps, before, after)
  BY <1>1, <1>2, <1>3, <1>4, <1>5, DoneFollows DEF before
<1>7. ~OneItem(db, healed.of, eps) => RowsFollow(db, healed.of, eps, before, after)
  BY DEF OneItem, ItemsOf, RowsFollow
<1> QED BY <1>1, <1>6, <1>7 DEF acc, before, eps, healed

\* After a pass, the watch_history rows of a user say what Jellyfin says, and no
\* episode has a second row: the rows found by episode, the rows added, the drops
\* (sync_jellyfin_watched_series_service.py:247, :280).
THEOREM RowsAreFollowing == Spec => []RowsFollowJellyfin
<1>1. UniqueInv => RowsFollowJellyfin
  BY PassFollows DEF RowsFollowJellyfin, NoTwins, RowsFollow
<1> QED BY <1>1, UniqueInvariance, PTL

-----------------------------------------------------------------------------
(* What an import knows of a series while it fetches its episodes.          *)

\* Row i of the series has the identifier of ids in column c.
Hit(v, i, c, ids) == ids[c] # Null /\ v["series"][i][c] = ids[c]

\* The search for a series, by one of its identifiers.
LEMMA MatchingIs ==
  ASSUME NEW v, NEW cols, NEW ids
  PROVE  Matching(v, cols, ids) = {i \in Slots["series"] : \E c \in cols : Hit(v, i, c, ids)}
<1>1. \A i \in Matching(v, cols, ids) : i \in Slots["series"] /\ \E c \in cols : Hit(v, i, c, ids)
  BY DEF Matching, With, Hit
<1>2. \A i \in Slots["series"] : (\E c \in cols : Hit(v, i, c, ids)) => i \in Matching(v, cols, ids)
  BY DEF Matching, With, Hit
<1> QED BY <1>1, <1>2

\* The two imports and the identifiers they fill.
LEMMA KindsAre ==
  /\ External = {"tmdb", "imdb", "tvdb"}
  /\ Fills["sonarr"] = {"sonarr", "tvdb", "imdb"}
  /\ Fills["jellyfin"] = {"jellyfin"} \cup External
  /\ \A kind \in ImportKinds :
       /\ kind = "sonarr" \/ kind = "jellyfin"
       /\ kind \in Columns["series"] /\ kind \in Fills[kind] /\ External \subseteq Columns["series"]
       /\ Fills[kind] \subseteq {kind} \cup External
BY TablesAre DEF External, Fills, ImportKinds

\* The series that the item was found to be, or was made, is what it is found to be
\* from then on, and has all the identifiers that the import would fill.
LEMMA FilledIsFound ==
  ASSUME NEW kind \in ImportKinds, NEW v, NEW w, NEW ids, NEW s \in Slots["series"],
         \/ Candidates(v, kind, ids) = {s}
         \/ Candidates(v, kind, ids) = {} /\ s \notin Existing(v, "series") /\ ~Nameless(kind, ids),
         \A j \in Slots["series"] : j # s => w["series"][j] = v["series"][j],
         \A c \in Columns["series"] : w["series"][s][c] =
           IF c \in Fills[kind] /\ v["series"][s][c] = Null THEN ids[c] ELSE v["series"][s][c]
  PROVE  /\ Candidates(w, kind, ids) = {s}
         /\ \A c \in Fills[kind] : w["series"][s][c] = Null => ids[c] = Null
<1> DEFINE own(x) == Matching(x, {kind}, ids)
           ext(x) == Matching(x, External, ids)
<1>1. \A i \in Slots["series"] \ {s} : \A c \in Columns["series"] : Hit(w, i, c, ids) <=> Hit(v, i, c, ids)
  BY DEF Hit
<1>2. \A c \in Columns["series"] : Hit(v, s, c, ids) => Hit(w, s, c, ids)
  BY DEF Hit
<1>3. \A c \in Fills[kind] : ids[c] # Null /\ v["series"][s][c] = Null => Hit(w, s, c, ids)
  BY KindsAre DEF Hit
<1>4. \A i \in Slots["series"] \ {s} : (i \in own(w) <=> i \in own(v)) /\ (i \in ext(w) <=> i \in ext(v))
  BY <1>1, MatchingIs, KindsAre
<1>5. (s \in own(v) => s \in own(w)) /\ (s \in ext(v) => s \in ext(w))
  BY <1>2, MatchingIs, KindsAre
<1>6. own(v) \subseteq Slots["series"] /\ ext(v) \subseteq Slots["series"]
      /\ own(w) \subseteq Slots["series"] /\ ext(w) \subseteq Slots["series"]
  BY MatchingIs
<1>7. /\ Candidates(v, kind, ids) = IF own(v) # {} THEN own(v) ELSE ext(v)
      /\ Candidates(w, kind, ids) = IF own(w) # {} THEN own(w) ELSE ext(w)
  BY DEF Candidates
<1>8. ASSUME s \notin Existing(v, "series"), ~Nameless(kind, ids)
      PROVE  s \in own(w) \/ s \in ext(w)
  <2>1. PICK c \in Fills[kind] : ids[c] # Null
    BY <1>8 DEF Nameless
  <2>2. v["series"][s][c] = Null
    BY <1>8, <2>1, KindsAre DEF Existing, Exists
  <2>3. Hit(w, s, c, ids)
    BY <1>3, <2>1, <2>2
  <2> QED BY <2>3, <2>1, MatchingIs, KindsAre
<1>9. \A c \in Fills[kind] : w["series"][s][c] = Null => ids[c] = Null
  BY KindsAre
<1> HIDE DEF own, ext
<1>10. CASE own(v) = {s}
  <2>1. own(w) = {s}
    BY <1>4, <1>5, <1>6, <1>10
  <2> QED BY <1>7, <1>9, <2>1
<1>11. CASE own(v) = {} /\ ext(v) \subseteq {s} /\ (s \in own(w) \/ s \in ext(w))
  <2>1. own(w) \subseteq {s} /\ ext(w) \subseteq {s}
    BY <1>4, <1>6, <1>11
  <2> QED BY <1>7, <1>9, <1>11, <2>1
<1>12. Candidates(v, kind, ids) = {s} => (own(v) = {s} \/ (own(v) = {} /\ ext(v) = {s}))
  BY <1>7
<1>13. Candidates(v, kind, ids) = {} => own(v) = {} /\ ext(v) = {}
  BY <1>7
<1> QED BY <1>5, <1>8, <1>10, <1>11, <1>12, <1>13

\* Not ambiguous, so there is one.
LEMMA OneCandidate ==
  ASSUME NEW kind, NEW v, NEW ids, NEW s \in Candidates(v, kind, ids), ~Ambiguous(v, kind, ids)
  PROVE  Candidates(v, kind, ids) = {s}
<1> DEFINE S == Candidates(v, kind, ids)
<1>1. S \subseteq Slots["series"] /\ "series" \in Tables
  BY MatchingIs, TablesAre DEF Candidates
<1>2. IsFiniteSet(S)
  BY <1>1, SlotsFinite
<1>3. Cardinality(S) \in Nat /\ ~(Cardinality(S) > 1)
  BY <1>2, FS_CardinalityType DEF Ambiguous
<1> HIDE DEF S
<1>4. ASSUME NEW i \in S, i # s
      PROVE  FALSE
  <2>1. {s, i} \subseteq S
    BY <1>4 DEF S
  <2>2. Cardinality({s, i}) <= Cardinality(S)
    BY <1>2, <2>1, FS_Subset
  <2>3. Cardinality({s, i}) = 2
    <3>1. IsFiniteSet({s}) /\ Cardinality({s}) = 1
      BY FS_Singleton
    <3>2. Cardinality({s} \cup {i}) = Cardinality({s}) + 1
      BY <3>1, <1>4, FS_AddElement
    <3>3. {s} \cup {i} = {s, i}
      OBVIOUS
    <3> QED BY <3>1, <3>2, <3>3
  <2> QED BY <1>3, <2>2, <2>3
<1> QED BY <1>4 DEF S

\* The state x of an import that fetches the episodes of an item, over its view v:
\* the item is found to be its series, there is nothing more to fill, and the
\* dictionary of Sonarr's seasons has every season of the series and of the item.
Settled(x, v) ==
  /\ Candidates(v, x.kind, x.item.ids) = {x.series}
  /\ \A c \in Fills[x.kind] : v["series"][x.series][c] = Null => x.item.ids[c] = Null
  /\ x.kind = "sonarr" /\ x.item.ids.sonarr # Null =>
       /\ \A n : n \in DOMAIN x.seasons <=> NumberedSeasons(v, x.series, n) # {}
       /\ \A n \in DOMAIN x.seasons : x.seasons[n] \in NumberedSeasons(v, x.series, n)
       /\ x.item.seasons \subseteq DOMAIN x.seasons

Settling(r) == At(r, "episodes") /\ ~run[r].raced => Settled(run[r], View(r))

SettledInv == SeriesInv /\ \A r \in Runs : Settling(r)

\* Only a season that is NULL nowhere is a key.
LEMMA KeysAre ==
  ASSUME NEW v, NEW s, NEW late
  PROVE  LET seasons == SeasonsByNumber(v, s, late) IN
         /\ \A n : n \in DOMAIN seasons <=> NumberedSeasons(v, s, n) # {}
         /\ \A n \in DOMAIN seasons : seasons[n] \in NumberedSeasons(v, s, n)
BY SeasonsByNumberAre

\* Once a series is found or created, the import knows all it will need.
LEMMA ImportedIsSettled ==
  ASSUME NEW r, NEW item, ~Ambiguous(View(r), run[r].kind, item.ids),
         NEW late, NEW s, NEW filled, NEW after, NEW seasons,
         SeriesImported(r, item, late, s, filled, after, seasons),
         NEW y, y.kind = run[r].kind, y.item = item, y.series = s, y.seasons = seasons
  PROVE  Settled(y, after.view)
<1> DEFINE kind == run[r].kind
           ids == item.ids
           v == View(r)
           listed == kind = "sonarr" /\ ids.sonarr # Null
           numbers == IF listed THEN item.seasons ELSE {}
           room == [t \in Tables |-> Room(r, t)]
           w == after.view
<1>1. /\ kind \in ImportKinds /\ IsItem(item)
      /\ IsView(v) /\ Sound(v)
      /\ s \in Slots["series"]
      /\ s \in Existing(v, "series") \/ ~Nameless(kind, ids)
      /\ IF Candidates(v, kind, ids) # {} THEN s \in Candidates(v, kind, ids)
         ELSE s \notin Existing(v, "series")
      /\ filled = FilledSeries(v, kind, s, ids)
      /\ after = AddedSeasons(filled, s, numbers, late, room)
      /\ ~after.full
      /\ seasons = IF listed THEN SeasonsByNumber(w, s, late) ELSE <<>>
  BY DEF SeriesImported
<1>2. IsFiniteSet(numbers) /\ Null \notin numbers
  BY <1>1, FS_EmptySet DEF IsItem
<1>3. IsRoom(room)
  BY DEF IsRoom, Room
<1>4. \/ Candidates(v, kind, ids) = {s}
      \/ Candidates(v, kind, ids) = {} /\ s \notin Existing(v, "series") /\ ~Nameless(kind, ids)
  BY <1>1, OneCandidate
<1>10. "series" \in Tables /\ (listed => numbers = item.seasons)
  BY TablesAre
<1> HIDE DEF room, numbers, v, w, listed
<1>5. /\ Extends(kind, v, filled)
      /\ s \in Existing(filled, "series")
      /\ \A j \in Slots["series"] : j # s => filled["series"][j] = v["series"][j]
      /\ \A c \in Columns["series"] : filled["series"][s][c] =
           IF c \in Fills[kind] /\ v["series"][s][c] = Null THEN ids[c] ELSE v["series"][s][c]
  <2> DEFINE z == FilledSeries(v, kind, s, ids)
  <2>1. /\ Extends(kind, v, z)
        /\ s \in Existing(z, "series")
        /\ \A t \in Tables : \A j \in Slots[t] : t # "series" \/ j # s => z[t][j] = v[t][j]
        /\ \A c \in Columns["series"] : z["series"][s][c] =
             IF c \in Fills[kind] /\ v["series"][s][c] = Null THEN ids[c] ELSE v["series"][s][c]
    BY <1>1, FilledSeriesGrows
  <2> HIDE DEF z
  <2>2. filled = z
    BY <1>1 DEF z
  <2> QED BY <1>10, <2>1, <2>2
<1>6. IsView(filled) /\ Sound(filled)
  BY <1>5 DEF Extends
<1>7. /\ ~after.full => \A n \in numbers : NumberedSeasons(w, s, n) # {}
      /\ w["series"] = filled["series"]
  <2> DEFINE z == AddedSeasons(filled, s, numbers, late, room)
  <2>1. /\ ~z.full => \A n \in numbers : NumberedSeasons(z.view, s, n) # {}
        /\ z.view["series"] = filled["series"]
    BY <1>2, <1>3, <1>5, <1>6, AddedSeasonsAlone
  <2> HIDE DEF z
  <2>2. after = z
    BY <1>1 DEF z
  <2> QED BY <2>1, <2>2 DEF w
<1>8. /\ Candidates(w, kind, ids) = {s}
      /\ \A c \in Fills[kind] : w["series"][s][c] = Null => ids[c] = Null
  <2>1. \A j \in Slots["series"] : j # s => w["series"][j] = v["series"][j]
    BY <1>5, <1>7
  <2>2. \A c \in Columns["series"] : w["series"][s][c] =
           IF c \in Fills[kind] /\ v["series"][s][c] = Null THEN ids[c] ELSE v["series"][s][c]
    BY <1>5, <1>7
  <2>3. kind \in ImportKinds /\ s \in Slots["series"]
    BY <1>1
  <2> HIDE DEF kind, ids
  <2> QED BY ONLY <1>4, <2>1, <2>2, <2>3, FilledIsFound
<1>9. ASSUME listed
      PROVE  /\ \A n : n \in DOMAIN seasons <=> NumberedSeasons(w, s, n) # {}
             /\ \A n \in DOMAIN seasons : seasons[n] \in NumberedSeasons(w, s, n)
             /\ item.seasons \subseteq DOMAIN seasons
  <2>1. seasons = SeasonsByNumber(w, s, late)
    BY <1>1, <1>9
  <2>2. /\ \A n : n \in DOMAIN seasons <=> NumberedSeasons(w, s, n) # {}
        /\ \A n \in DOMAIN seasons : seasons[n] \in NumberedSeasons(w, s, n)
    BY <2>1, KeysAre
  <2>3. \A n \in item.seasons : NumberedSeasons(w, s, n) # {}
    BY <1>1, <1>7, <1>9, <1>10
  <2> QED BY <2>2, <2>3
<1> QED BY <1>8, <1>9 DEF Settled, listed, w

-----------------------------------------------------------------------------
\* A step of q that leaves the tables alone, and a commit of q.
LEMMA LocalSettles ==
  ASSUME SettledInv, NEW q \in Runs, NEW y, run' = [run EXCEPT ![q] = y], db' = db,
         y = NoRun \/ (y.at = "episodes" /\ ~y.raced => Settled(y, Overlay(db, y.mine)))
  PROVE  \A r \in Runs : Settling(r)'
<1> SUFFICES ASSUME NEW r \in Runs
             PROVE  Settling(r)'
  OBVIOUS
<1>1. run'[r] = IF r = q THEN y ELSE run[r]
  BY DEF SettledInv, SeriesInv
<1>2. CASE r = q
  BY <1>1, <1>2 DEF Settling, At, Live, View
<1>3. CASE r # q
  BY <1>1, <1>3 DEF SettledInv, Settling, At, Live, View
<1> QED BY <1>2, <1>3

LEMMA CommitSettles ==
  ASSUME SettledInv, NEW q \in Runs, NEW y, run' = Committed(q, y), y = NoRun \/ y.at # "episodes"
  PROVE  \A r \in Runs : Settling(r)'
<1> SUFFICES ASSUME NEW r \in Runs, At(r, "episodes")', ~run'[r].raced
             PROVE  FALSE
  BY DEF Settling
<1>1. run'[r] # NoRun /\ run'[r].at = "episodes"
  BY DEF At, Live
<1>2. r # q
  BY <1>1 DEF Committed
<1>3. Live(r)
  BY <1>1, <1>2 DEF Committed, Live
<1>4. CASE Unread(r)
  <2>1. run'[r] = run[r] /\ (run[r].at = "listed" \/ run[r].at = "users")
    BY <1>2, <1>3, <1>4 DEF Committed, Unread, At
  <2> QED BY <1>1, <2>1
<1>5. CASE ~Unread(r)
  <2>1. run'[r] = [run[r] EXCEPT !.raced = TRUE]
    BY <1>2, <1>3, <1>5 DEF Committed
  <2>2. "raced" \in DOMAIN run[r]
    BY <1>3 DEF SettledInv, SeriesInv, RunIs
  <2> QED BY <2>1, <2>2
<1> QED BY <1>4, <1>5

\* What an import knows stays true until it has its episodes: nothing but a commit
\* of another, which races it, touches its view.
LEMMA ImportSeriesSettles ==
  ASSUME SettledInv, NEW q \in Runs, NEW item, ImportSeries(q, item)
  PROVE  \A r \in Runs : Settling(r)'
<1>0. SeriesInv /\ ~Ambiguous(View(q), run[q].kind, item.ids) /\ db' = db /\ (At(q, "listed") \/ At(q, "series"))
  BY DEF SettledInv, ImportSeries, NextItem
<1>1. PICK late, s, filled, after, seasons :
        /\ SeriesImported(q, item, late, s, filled, after, seasons)
        /\ run' = [run EXCEPT ![q] =
             [kind |-> run[q].kind, at |-> "episodes", done |-> run[q].done, item |-> item, series |-> s,
              seasons |-> seasons, mine |-> Changes(db, after.view), raced |-> run[q].raced]]
  BY <1>0, ImportSeriesIs
<1> DEFINE y == [kind |-> run[q].kind, at |-> "episodes", done |-> run[q].done, item |-> item, series |-> s,
                 seasons |-> seasons, mine |-> Changes(db, after.view), raced |-> run[q].raced]
<1>2. /\ y.kind = run[q].kind /\ y.item = item /\ y.series = s /\ y.seasons = seasons
      /\ y.mine = Changes(db, after.view)
      /\ run' = [run EXCEPT ![q] = y]
  BY <1>1
<1> HIDE DEF y
<1>3. Settled(y, after.view)
  BY <1>0, <1>1, <1>2, ImportedIsSettled
<1>4. Overlay(db, y.mine) = after.view
  <2>1. Extends(run[q].kind, Overlay(db, run[q].mine), after.view)
    BY <1>1 DEF SeriesImported, View
  <2>2. ImportRun(run[q], db) /\ IsView(db)
    BY <1>0, ImportIs DEF SeriesInv
  <2> QED BY <1>2, <2>1, <2>2, ImportNow
<1> QED BY <1>0, <1>2, <1>3, <1>4, LocalSettles

LEMMA SettledNext ==
  ASSUME SettledInv, [Next]_vars
  PROVE  SettledInv'
<1>0. SeriesInv'
  BY SeriesInvNext DEF SettledInv
<1>1. ASSUME NEW q \in Runs, NEW item, ImportSeries(q, item)
      PROVE  \A r \in Runs : Settling(r)'
  BY <1>1, ImportSeriesSettles
\* The other steps that leave the tables alone.
<1>2. ASSUME NEW q \in Runs, NEW y, run' = [run EXCEPT ![q] = y], db' = db, y = NoRun \/ y.at # "episodes"
      PROVE  \A r \in Runs : Settling(r)'
  BY <1>2, LocalSettles
<1>3. ASSUME NEW q \in Runs, NEW kind, StartImport(q, kind)
      PROVE  \A r \in Runs : Settling(r)'
  <2> DEFINE y == [kind |-> kind, at |-> "listed", done |-> <<>>, mine |-> Nothing, raced |-> FALSE]
  <2>1. run' = [run EXCEPT ![q] = y] /\ db' = db /\ y.at = "listed"
    BY <1>3 DEF StartImport
  <2> HIDE DEF y
  <2> QED BY <1>2, <2>1
<1>4. \A q \in Runs : \A item, w : ItemDone(q, item, w).at = "series"
  BY DEF ItemDone
<1>5. ASSUME NEW q \in Runs, NEW item, ImportSkips(q, item)
      PROVE  \A r \in Runs : Settling(r)'
  <2>1. run' = [run EXCEPT ![q] = ItemDone(q, item, View(q))] /\ db' = db
    BY <1>5 DEF ImportSkips
  <2> QED BY <1>2, <1>4, <2>1
<1>6. ASSUME NEW q \in Runs, ImportEpisodes(q)
      PROVE  \A r \in Runs : Settling(r)'
  <2>1. PICK late : run' = [run EXCEPT ![q] = ItemDone(q, run[q].item, EpisodesImported(q, late).view)]
    BY <1>6 DEF ImportEpisodes
  <2>2. db' = db
    BY <1>6 DEF ImportEpisodes
  <2> QED BY <1>2, <1>4, <2>1, <2>2
<1>7. ASSUME NEW q \in Runs, ImportFails(q) \/ TmdbFails(q) \/ WatchFails(q)
      PROVE  \A r \in Runs : Settling(r)'
  <2>1. run' = [run EXCEPT ![q] = NoRun] /\ db' = db
    BY <1>7 DEF ImportFails, TmdbFails, WatchFails
  <2> QED BY <1>2, <2>1
<1>8. ASSUME NEW q \in Runs, StartTmdb(q)
      PROVE  \A r \in Runs : Settling(r)'
  <2> DEFINE y == [kind |-> "tmdb", at |-> "fetch", seen |-> db, mine |-> Nothing, raced |-> FALSE]
  <2>1. run' = [run EXCEPT ![q] = y] /\ db' = db /\ y.at = "fetch"
    BY <1>8 DEF StartTmdb
  <2> HIDE DEF y
  <2> QED BY <1>2, <2>1
<1>9. \A left, open : WithUsers(left, open) = NoRun \/ WithUsers(left, open).at # "episodes"
  BY DEF WithUsers
<1>10. ASSUME NEW q \in Runs, NEW u, StartWatch(q) \/ ListsNothing(q, u) \/ ListingFails(q, u)
       PROVE  \A r \in Runs : Settling(r)'
  <2>1. PICK left, open : run' = [run EXCEPT ![q] = WithUsers(left, open)] \/ run' = [run EXCEPT ![q] = NoRun]
    <3>1. CASE StartWatch(q)
      BY <3>1 DEF StartWatch
    <3>2. CASE ListsNothing(q, u)
      BY <3>2 DEF ListsNothing, SettledInv, SeriesInv
    <3>3. CASE ListingFails(q, u)
      BY <3>3 DEF ListingFails, SettledInv, SeriesInv
    <3> QED BY <1>10, <3>1, <3>2, <3>3
  <2>2. db' = db
    BY <1>10 DEF StartWatch, ListsNothing, ListingFails
  <2> QED BY <1>2, <1>9, <2>1, <2>2
<1>11. ASSUME NEW q \in Runs, NEW u, ReadsLibrary(q, u)
       PROVE  \A r \in Runs : Settling(r)'
  <2> DEFINE y == [kind |-> "watch", at |-> "library", left |-> run[q].left \ {u}, user |-> u, seen |-> db,
                   mine |-> Nothing, raced |-> FALSE]
  <2>1. run' = [run EXCEPT ![q] = y] /\ db' = db /\ y.at = "library"
    BY <1>11 DEF ReadsLibrary, SettledInv, SeriesInv
  <2> HIDE DEF y
  <2> QED BY <1>2, <2>1
<1>12. ASSUME NEW q \in Runs, ReadsRows(q)
       PROVE  \A r \in Runs : Settling(r)'
  <2> DEFINE x == run[q]
             y == [kind |-> "watch", at |-> "rows", left |-> x.left, user |-> x.user, seen |-> x.seen,
                   loaded |-> watch[x.user], mine |-> Nothing, raced |-> x.raced]
  <2>1. run' = [run EXCEPT ![q] = y] /\ db' = db /\ y.at = "rows"
    BY <1>12 DEF ReadsRows, SettledInv, SeriesInv
  <2> HIDE DEF y
  <2> QED BY <1>2, <2>1
<1>13. ASSUME NEW q \in Runs, ImportCommits(q) \/ TmdbCommits(q) \/ WatchCommits(q)
       PROVE  \A r \in Runs : Settling(r)'
  <2>1. PICK y : run' = Committed(q, y) /\ (y = NoRun \/ y.at # "episodes")
    BY <1>9, <1>13 DEF ImportCommits, TmdbCommits, WatchCommits
  <2> QED BY <2>1, CommitSettles
<1>14. ASSUME UNCHANGED vars
       PROVE  \A r \in Runs : Settling(r)'
  <2>1. run' = run /\ db' = db
    BY <1>14 DEF vars
  <2> QED BY <2>1 DEF SettledInv, Settling, At, Live, View
<1> QED BY <1>0, <1>1, <1>3, <1>5, <1>6, <1>7, <1>8, <1>10, <1>11, <1>12, <1>13, <1>14 DEF Next, SettledInv

\* What an import knows of a series holds while it fetches the episodes: it would
\* find the series again, with nothing to fill, and its seasons by number.
THEOREM SettledInvariance == Spec => []SettledInv
<1>1. Init => SettledInv
  BY SeriesInvInit DEF Init, SettledInv, Settling, At, Live
<1>2. SettledInv /\ [Next]_vars => SettledInv'
  BY SettledNext
<1> QED BY <1>1, <1>2, PTL DEF Spec

-----------------------------------------------------------------------------
(* Sonarr's import: every episode of the seasons it lists ends where Sonarr *)
(* puts it.                                                                 *)

\* The episode ep of Sonarr's answer has a row in the season p.
SonarrHas(v, p, ep) ==
  \E i \in Slots["episodes"] : /\ v["episodes"][i]["season"] = p
                               /\ v["episodes"][i]["number"] = ep.number
                               /\ v["episodes"][i]["sonarr"] = ep.id

\* A turn brings its own episode in line, and leaves those with other ids.
LEMMA SonarrTurnHolds ==
  ASSUME NEW a, NEW b, NEW ep, NEW seasons, NEW room, 
         Sonarred(a, b, ep, seasons, room), b.full # TRUE, IsSeasons(a.view, seasons), ep.number # Null
  PROVE  /\ a.full # TRUE
         /\ ep.season \in DOMAIN seasons => SonarrHas(b.view, seasons[ep.season], ep)
         /\ \A p, e : e.id # ep.id /\ e.number # Null /\ SonarrHas(a.view, p, e) => SonarrHas(b.view, p, e)
<1>0. /\ "episodes" \in Tables /\ "seasons" \in Tables
      /\ {"season", "number", "sonarr"} \subseteq Columns["episodes"]
  BY TablesAre
<1> DEFINE p == seasons[ep.season]
           row == Row("episodes", [season |-> seasons[ep.season], number |-> ep.number, sonarr |-> ep.id])
<1>1. CASE ep.season \notin DOMAIN seasons /\ b = a
  BY <1>1
<1>2. ASSUME ep.season \in DOMAIN seasons, b.full = a.full, b.new \in room["episodes"],
             Inserted(a.view, b.view, "episodes", b.new, row)
      PROVE  /\ a.full # TRUE
             /\ SonarrHas(b.view, p, ep)
             /\ \A q, e : e.number # Null /\ SonarrHas(a.view, q, e) => SonarrHas(b.view, q, e)
  <2>1. row["season"] = p /\ row["number"] = ep.number /\ row["sonarr"] = ep.id
    BY RowsAre
  <2> HIDE DEF row, p
  <2>3. b.new \in Slots["episodes"] \ Existing(a.view, "episodes")
        /\ \A j \in Slots["episodes"] : b.view["episodes"][j] = IF j = b.new THEN row ELSE a.view["episodes"][j]
    BY <1>0, <1>2 DEF Inserted
  <2>4. SonarrHas(b.view, p, ep)
    BY <2>1, <2>3 DEF SonarrHas
  <2>5. ASSUME NEW q, NEW e, SonarrHas(a.view, q, e), e.number # Null
        PROVE  SonarrHas(b.view, q, e)
    <3>1. PICK i \in Slots["episodes"] : /\ a.view["episodes"][i]["season"] = q
                                         /\ a.view["episodes"][i]["number"] = e.number
                                         /\ a.view["episodes"][i]["sonarr"] = e.id
      BY <2>5 DEF SonarrHas
    <3>2. i \in Existing(a.view, "episodes")
      BY <1>0, <2>5, <3>1 DEF Existing, Exists
    <3>3. b.view["episodes"][i] = a.view["episodes"][i]
      BY <2>3, <3>2
    <3> QED BY <3>1, <3>3 DEF SonarrHas
  <2> QED BY <1>2, <2>4, <2>5
<1>3. ASSUME ep.season \in DOMAIN seasons, b.full = a.full,
             NEW i \in With(a.view, "episodes", "sonarr", ep.id),
             \A t \in Tables : \A j \in Slots[t] : \A c \in Columns[t] :
               b.view[t][j][c] =
                 IF t = "episodes" /\ j = i /\ c = "season" THEN p
                 ELSE IF t = "episodes" /\ j = i /\ c = "number" THEN ep.number
                 ELSE a.view[t][j][c]
      PROVE  /\ a.full # TRUE
             /\ SonarrHas(b.view, p, ep)
             /\ \A q, e : e.id # ep.id /\ SonarrHas(a.view, q, e) => SonarrHas(b.view, q, e)
  <2>1. i \in Slots["episodes"] /\ a.view["episodes"][i]["sonarr"] = ep.id
    BY DEF With
  <2> HIDE DEF p
  <2>2. /\ b.view["episodes"][i]["season"] = p /\ b.view["episodes"][i]["number"] = ep.number
        /\ b.view["episodes"][i]["sonarr"] = ep.id
    BY <1>0, <1>3, <2>1
  <2>3. \A j \in Slots["episodes"] : j # i =>
          /\ b.view["episodes"][j]["season"] = a.view["episodes"][j]["season"]
          /\ b.view["episodes"][j]["number"] = a.view["episodes"][j]["number"]
          /\ b.view["episodes"][j]["sonarr"] = a.view["episodes"][j]["sonarr"]
    BY <1>0, <1>3
  <2>4. SonarrHas(b.view, p, ep)
    BY <2>1, <2>2 DEF SonarrHas
  <2>5. ASSUME NEW q, NEW e, e.id # ep.id, SonarrHas(a.view, q, e)
        PROVE  SonarrHas(b.view, q, e)
    <3>1. PICK j \in Slots["episodes"] : /\ a.view["episodes"][j]["season"] = q
                                         /\ a.view["episodes"][j]["number"] = e.number
                                         /\ a.view["episodes"][j]["sonarr"] = e.id
      BY <2>5 DEF SonarrHas
    <3>2. j # i
      BY <2>1, <2>5, <3>1
    <3> QED BY <2>3, <3>1, <3>2 DEF SonarrHas
  <2> QED BY <1>3, <2>4, <2>5
<1>4. \/ ep.season \notin DOMAIN seasons /\ b = a
      \/ /\ ep.season \in DOMAIN seasons /\ b.full = a.full /\ b.new \in room["episodes"]
         /\ Inserted(a.view, b.view, "episodes", b.new, row)
      \/ /\ ep.season \in DOMAIN seasons /\ b.full = a.full
         /\ \E i \in With(a.view, "episodes", "sonarr", ep.id) :
              \A t \in Tables : \A j \in Slots[t] : \A c \in Columns[t] :
               b.view[t][j][c] =
                 IF t = "episodes" /\ j = i /\ c = "season" THEN p
                 ELSE IF t = "episodes" /\ j = i /\ c = "number" THEN ep.number
                 ELSE a.view[t][j][c]
  BY DEF Sonarred
<1> HIDE DEF row
<1> QED BY <1>1, <1>2, <1>3, <1>4

\* Every turn leaves what the turns before have brought in line.
LEMMA EverySonarrHeld ==
  ASSUME NEW v, IsView(v), Sound(v), NEW seasons, IsSeasons(v, seasons), NEW episodes, NEW room,
         IsRoom(room), Len(episodes) \in Nat, \A n \in 1..Len(episodes) : episodes[n].number # Null,
         \A m, n \in 1..Len(episodes) : episodes[m].id = episodes[n].id => m = n,
         AfterSonarr(v, seasons, episodes, room).full # TRUE
  PROVE  \A k \in 1..Len(episodes) : episodes[k].season \in DOMAIN seasons =>
           SonarrHas(AfterSonarr(v, seasons, episodes, room).view, seasons[episodes[k].season], episodes[k])
<1> DEFINE N == Len(episodes)
           t == SonarrTurns(v, seasons, episodes, room)
           Held(n) == \A k \in 1..n : episodes[k].season \in DOMAIN seasons =>
                        SonarrHas(t[n].view, seasons[episodes[k].season], episodes[k])
           S == {n \in 0..N : t[n].full = TRUE \/ Held(n)}
<1>0. N \in Nat /\ \A n \in 1..N : episodes[n].number # Null
  OBVIOUS
<1>1. /\ t[0] = Bare(v)
      /\ \A n \in 1..N : t[n] = SonarrEpisode(t[n - 1], episodes[n], seasons, room)
  BY SonarrTurnsAre
<1>2. \A n \in 0..N : Grown("sonarr", v, t[n])
  BY EverySonarrTurn
<1>3. AfterSonarr(v, seasons, episodes, room) = t[N]
  BY DEF AfterSonarr
<1>9. \A m, n \in 1..N : episodes[m].id = episodes[n].id => m = n
  OBVIOUS
<1> HIDE DEF t, N
<1>4. 0 \in S
  BY <1>0
<1>5. ASSUME NEW n \in 1..N, n - 1 \in S
      PROVE  n \in S
  <2> DEFINE acc == t[n - 1]  ep == episodes[n]  b == t[n]
  <2>0. n - 1 \in 0..N /\ n \in 0..N /\ ep.number # Null /\ \A k : k \in 1..n <=> k = n \/ k \in 1..(n - 1)
    BY <1>0
  <2>2. Grown("sonarr", v, acc)
    BY <1>2, <2>0
  <2>3. b = SonarrEpisode(acc, ep, seasons, room)
    BY <1>1
  <2>1. \A k \in 1..(n - 1) : episodes[k].id # ep.id /\ episodes[k].number # Null
    BY <1>0, <1>9
  <2>6. acc.full = TRUE \/ \A k \in 1..(n - 1) : episodes[k].season \in DOMAIN seasons =>
                        SonarrHas(acc.view, seasons[episodes[k].season], episodes[k])
    BY <1>5
  <2> HIDE DEF acc, b
  <2>4. IsSeasons(acc.view, seasons)
    BY <2>2, SeasonsStay DEF Grown
  <2>5. Sonarred(acc, b, ep, seasons, room)
    BY <2>0, <2>2, <2>3, <2>4, SonarrEpisodeIs
  <2>7. CASE b.full # TRUE
    <3>1. /\ acc.full # TRUE
          /\ ep.season \in DOMAIN seasons => SonarrHas(b.view, seasons[ep.season], ep)
          /\ \A p, e : e.id # ep.id /\ e.number # Null /\ SonarrHas(acc.view, p, e) => SonarrHas(b.view, p, e)
      BY <2>0, <2>4, <2>5, <2>7, SonarrTurnHolds
    <3>2. \A k \in 1..n : episodes[k].season \in DOMAIN seasons =>
            SonarrHas(b.view, seasons[episodes[k].season], episodes[k])
      BY <2>0, <2>1, <2>6, <3>1
    <3> QED BY <2>0, <3>2 DEF b
  <2>8. CASE b.full = TRUE
    BY <2>0, <2>8 DEF b
  <2> QED BY <2>7, <2>8
<1> HIDE DEF S
<1>6. \A n \in 0..N : n \in S
  BY <1>0, <1>4, <1>5, EveryTurn
<1>7. N \in S
  BY <1>0, <1>6
<1>8. t[N].full = TRUE \/ Held(N)
  BY <1>7 DEF S
<1> QED BY <1>3, <1>8 DEF N

-----------------------------------------------------------------------------
(* A second import of the same item.                                        *)

\* A value that is there already.
LEMMA PutNothing ==
  ASSUME NEW v, IsView(v), NEW t \in Tables, NEW i \in Slots[t], NEW c \in Columns[t]
  PROVE  Put(v, t, i, c, v[t][i][c]) = v
<1> DEFINE x == v[t][i][c]  w == Put(v, t, i, c, x)
<1>1. /\ IsView(w)
      /\ \A u \in Tables : \A j \in Slots[u] : \A d \in Columns[u] :
           w[u][j][d] = IF u = t /\ j = i /\ d = c THEN x ELSE v[u][j][d]
  BY PutIs
<1> HIDE DEF w
<1>2. \A u \in Tables : \A j \in Slots[u] : \A d \in Columns[u] : w[u][j][d] = v[u][j][d]
  BY <1>1
<1>3. w = v
  BY <1>1, <1>2, SameView
<1> QED BY <1>3 DEF w

\* There is nothing more to fill.
LEMMA FillsNothing ==
  ASSUME NEW kind \in ImportKinds, NEW v, IsView(v), NEW s \in Slots["series"], NEW ids,
         \A c \in Fills[kind] : v["series"][s][c] = Null => ids[c] = Null
  PROVE  FilledSeries(v, kind, s, ids) = v
<1> DEFINE row == [c \in Columns.series |->
              IF c \in Fills[kind] /\ v.series[s][c] = Null THEN ids[c] ELSE v.series[s][c]]
           w == PutRow(v, "series", s, row)
<1>1. "series" \in Tables /\ row = [c \in Columns["series"] |-> row[c]]
      /\ \A c \in Columns["series"] : row[c] = v["series"][s][c]
  BY TablesAre
<1> HIDE DEF row
<1>2. /\ IsView(w)
      /\ \A u \in Tables : \A j \in Slots[u] : w[u][j] = IF u = "series" /\ j = s THEN row ELSE v[u][j]
  BY <1>1, PutRowIs
<1> HIDE DEF w
<1>3. \A u \in Tables : \A j \in Slots[u] : \A d \in Columns[u] : w[u][j][d] = v[u][j][d]
  BY <1>1, <1>2
<1>4. w = v
  BY <1>2, <1>3, SameView
<1> QED BY <1>4 DEF w, row, FilledSeries

\* There is no season to add.
LEMMA AddsNoSeason ==
  ASSUME NEW v, NEW s, NEW numbers, NEW late, NEW room, numbers \subseteq DOMAIN SeasonsByNumber(v, s, late)
  PROVE  AddedSeasons(v, s, numbers, late, room) = Bare(v)
<1> DEFINE q == SetToSeq(numbers \ DOMAIN SeasonsByNumber(v, s, late))
<1>1. numbers \ DOMAIN SeasonsByNumber(v, s, late) = {}
  OBVIOUS
<1>2. Enumerates(q, {})
  BY <1>1, FS_EmptySet, SetToSeqIs
<1> HIDE DEF q
<1>3. Len(q) \in Nat /\ \A n \in 1..Len(q) : FALSE
  BY <1>2 DEF Enumerates
<1>4. Len(q) = 0
  BY <1>3
<1>5. SeasonTurns(v, s, q, room)[0] = Bare(v)
  BY <1>3, SeasonTurnsAre
<1> QED BY <1>4, <1>5 DEF AddedSeasons, AfterSeasons, q

\* A dictionary of all the seasons of s.
SeasonKeys(v, s, seasons) ==
  /\ \A n : n \in DOMAIN seasons <=> NumberedSeasons(v, s, n) # {}
  /\ \A n \in DOMAIN seasons : seasons[n] \in NumberedSeasons(v, s, n)

\* Sonarr's episodes of these seasons have their rows.
SonarrHasAll(v, seasons, episodes) ==
  \A k \in 1..Len(episodes) : episodes[k].season \in DOMAIN seasons =>
    SonarrHas(v, seasons[episodes[k].season], episodes[k])

\* There is nothing for Sonarr's loop to change.
LEMMA SonarrAgain ==
  ASSUME NEW v, IsView(v), TwinSeasons(v) = {}, Unique(v), NEW s, NEW seasons, NEW again,
         SeasonKeys(v, s, seasons), NEW episodes, NEW room, Len(episodes) \in Nat,
         \A k \in 1..Len(episodes) : episodes[k].id # Null, SonarrHasAll(v, seasons, episodes)
  PROVE  AfterSonarr(v, SeasonsByNumber(v, s, again), episodes, room).view = v
<1> DEFINE N == Len(episodes)
           keys == SeasonsByNumber(v, s, again)
           t == SonarrTurns(v, keys, episodes, room)
           S == {n \in 0..N : IsAcc(t[n]) /\ t[n].view = v}
<1>0. N \in Nat /\ "episodes" \in Tables /\ {"season", "number", "sonarr"} \subseteq Columns["episodes"]
      /\ \A k \in 1..N : episodes[k].id # Null
  BY TablesAre
<1>1. /\ t[0] = Bare(v)
      /\ \A n \in 1..N : t[n] = SonarrEpisode(t[n - 1], episodes[n], keys, room)
  BY SonarrTurnsAre
<1>2. \A n \in DOMAIN keys : n \in DOMAIN seasons /\ keys[n] = seasons[n]
  <2>1. /\ \A n : n \in DOMAIN keys <=> NumberedSeasons(v, s, n) # {}
        /\ \A n \in DOMAIN keys : keys[n] \in NumberedSeasons(v, s, n)
    BY KeysAre
  <2>2. \A p, n : \A i, j \in NumberedSeasons(v, p, n) : i = j
    BY SeasonsAlone
  <2> HIDE DEF keys
  <2> QED BY <2>1, <2>2 DEF SeasonKeys
<1>3. \A k \in 1..N : episodes[k].season \in DOMAIN keys => SonarrHas(v, keys[episodes[k].season], episodes[k])
  BY <1>2 DEF SonarrHasAll
<1>4. \A i, j \in Slots["episodes"] :
        v["episodes"][i]["sonarr"] # Null /\ v["episodes"][i]["sonarr"] = v["episodes"][j]["sonarr"] => i = j
  <2>1. "sonarr" \in Indexed["episodes"]
    BY DEF Indexed
  <2> QED BY <1>0, <2>1 DEF Unique, UniqueIn
<1> HIDE DEF t, N, keys
<1>5. 0 \in S
  BY <1>0, <1>1 DEF Bare, IsAcc
<1>6. ASSUME NEW n \in 1..N, n - 1 \in S
      PROVE  n \in S
  <2> DEFINE ep == episodes[n]  acc == t[n - 1]  b == t[n]
  <2>0. n \in 0..N /\ b = SonarrEpisode(acc, ep, keys, room) /\ IsAcc(acc) /\ acc.view = v
    BY <1>0, <1>1, <1>6
  <2> HIDE DEF acc
  <2>1. IsAcc(b) /\ b.view = v => n \in S
    BY <2>0
  <2> HIDE DEF b
  <2>2. CASE ep.season \notin DOMAIN keys
    BY <2>0, <2>1, <2>2 DEF SonarrEpisode
  <2>3. CASE ep.season \in DOMAIN keys
    <3> DEFINE known == With(v, "episodes", "sonarr", ep.id)
               k == Min(known)
               p == keys[ep.season]
               u == Put(v, "episodes", k, "season", p)
    <3>1. PICK i \in Slots["episodes"] : /\ v["episodes"][i]["season"] = p
                                         /\ v["episodes"][i]["number"] = ep.number
                                         /\ v["episodes"][i]["sonarr"] = ep.id
      BY <1>3, <2>3 DEF SonarrHas
    <3>2. i \in known /\ known \subseteq Slots["episodes"]
      BY <1>0, <3>1 DEF With
    <3>3. \A j \in known : j = i
      BY <1>4, <3>1 DEF With
    <3>4. k = i
      <4> HIDE DEF known
      <4>1. Min(known) \in known
        BY <1>0, <3>2, FirstIs
      <4> QED BY <3>3, <4>1
    <3>5. u = v
      BY <1>0, <3>1, <3>4, PutNothing
    <3>6. Put(u, "episodes", k, "number", ep.number) = v
      BY <1>0, <3>1, <3>4, <3>5, PutNothing
    <3>7. b = [acc EXCEPT !.view = Put(u, "episodes", k, "number", ep.number)]
      BY <2>0, <2>3, <3>2 DEF SonarrEpisode
    <3>8. b = [acc EXCEPT !.view = v]
      BY <3>6, <3>7
    <3>9. IsAcc(b) /\ b.view = v
      BY <2>0, <3>8 DEF IsAcc
    <3> QED BY <2>1, <3>9
  <2> QED BY <2>2, <2>3
<1> HIDE DEF S
<1>7. \A n \in 0..N : n \in S
  BY <1>0, <1>5, <1>6, EveryTurn
<1>8. N \in S
  BY <1>0, <1>7
<1> QED BY <1>8 DEF S, AfterSonarr, t, N, keys

\* The table of series is the same.
SameSeries(v, w) ==
  \A i \in Slots["series"] : \A c \in Columns["series"] : w["series"][i][c] = v["series"][i][c]

\* Seasons and episodes are added without touching the table of series.
LEMMA SameSeriesInserted ==
  ASSUME NEW v, NEW w, NEW t \in Tables, t # "series", NEW i, NEW row, Inserted(v, w, t, i, row)
  PROVE  SameSeries(v, w)
BY TablesAre DEF Inserted, SameSeries

\* The search finds the same in the same table of series.
LEMMA SameSeriesFound ==
  ASSUME NEW kind \in ImportKinds, NEW v, NEW w, SameSeries(v, w), NEW ids
  PROVE  Candidates(w, kind, ids) = Candidates(v, kind, ids)
<1>1. ASSUME NEW cols, cols \subseteq Columns["series"]
      PROVE  Matching(w, cols, ids) = Matching(v, cols, ids)
  <2>1. \A i \in Slots["series"] : \A c \in cols : Hit(w, i, c, ids) <=> Hit(v, i, c, ids)
    BY <1>1 DEF Hit, SameSeries
  <2> QED BY <2>1, MatchingIs
<1>2. {kind} \subseteq Columns["series"] /\ External \subseteq Columns["series"]
  BY KindsAre
<1>3. Matching(w, {kind}, ids) = Matching(v, {kind}, ids) /\ Matching(w, External, ids) = Matching(v, External, ids)
  BY <1>1, <1>2
<1> QED BY <1>3 DEF Candidates

LEMMA SonarrSameSeries ==
  ASSUME NEW v, IsView(v), Sound(v), NEW seasons, IsSeasons(v, seasons), NEW episodes, NEW room,
         IsRoom(room), Len(episodes) \in Nat, \A n \in 1..Len(episodes) : episodes[n].number # Null
  PROVE  SameSeries(v, AfterSonarr(v, seasons, episodes, room).view)
<1> DEFINE N == Len(episodes)
           t == SonarrTurns(v, seasons, episodes, room)
           S == {n \in 0..N : SameSeries(v, t[n].view)}
<1>0. N \in Nat /\ \A n \in 1..N : episodes[n].number # Null
  OBVIOUS
<1>1. /\ t[0] = Bare(v)
      /\ \A n \in 1..N : t[n] = SonarrEpisode(t[n - 1], episodes[n], seasons, room)
  BY SonarrTurnsAre
<1>2. \A n \in 0..N : Grown("sonarr", v, t[n])
  BY EverySonarrTurn
<1>3. AfterSonarr(v, seasons, episodes, room) = t[N]
  BY DEF AfterSonarr
<1> HIDE DEF t, N
<1>4. 0 \in S
  BY <1>0, <1>1 DEF Bare, SameSeries
<1>5. ASSUME NEW n \in 1..N, n - 1 \in S
      PROVE  n \in S
  <2> DEFINE acc == t[n - 1]  ep == episodes[n]  b == t[n]
             row == Row("episodes", [season |-> seasons[ep.season], number |-> ep.number, sonarr |-> ep.id])
  <2>1. n - 1 \in 0..N /\ ep.number # Null /\ SameSeries(v, acc.view)
    BY <1>0, <1>5
  <2>2. Grown("sonarr", v, acc)
    BY <1>2, <2>1
  <2>3. b = SonarrEpisode(acc, ep, seasons, room)
    BY <1>1
  <2> HIDE DEF acc, b
  <2>4. IsSeasons(acc.view, seasons)
    BY <2>2, SeasonsStay DEF Grown
  <2>5. Sonarred(acc, b, ep, seasons, room)
    BY <2>1, <2>2, <2>3, <2>4, SonarrEpisodeIs
  <2>6. \/ b.view = acc.view
        \/ Inserted(acc.view, b.view, "episodes", b.new, row)
        \/ \A c \in Tables : c # "episodes" => \A j \in Slots[c] : \A d \in Columns[c] : b.view[c][j][d] = acc.view[c][j][d]
    BY <2>5 DEF Sonarred
  <2>7. SameSeries(acc.view, b.view)
    <3> HIDE DEF row
    <3>1. ASSUME b.view = acc.view
          PROVE  SameSeries(acc.view, b.view)
      BY <3>1 DEF SameSeries
    <3>2. ASSUME Inserted(acc.view, b.view, "episodes", b.new, row)
          PROVE  SameSeries(acc.view, b.view)
      BY <3>2, SameSeriesInserted, TablesAre
    <3>3. ASSUME \A c \in Tables : c # "episodes" => \A j \in Slots[c] : \A d \in Columns[c] : b.view[c][j][d] = acc.view[c][j][d]
          PROVE  SameSeries(acc.view, b.view)
      BY <3>3, TablesAre DEF SameSeries
    <3> QED BY <2>6, <3>1, <3>2, <3>3
  <2>8. SameSeries(v, b.view)
    BY <2>1, <2>7 DEF SameSeries
  <2> QED BY <1>0, <2>8 DEF b
<1> HIDE DEF S
<1>6. \A n \in 0..N : n \in S
  BY <1>0, <1>4, <1>5, EveryTurn
<1>7. N \in S
  BY <1>0, <1>6
<1> QED BY <1>3, <1>7 DEF S

-----------------------------------------------------------------------------
\* The episode ep of Jellyfin's or Sonarr's answer stands where p is its season.
LEMMA StandsAt ==
  ASSUME NEW v, Sound(v), NEW s, NEW ep, NEW p \in NumberedSeasons(v, s, ep.season), NEW i \in Slots["episodes"],
         v["episodes"][i]["season"] = p, v["episodes"][i]["number"] = ep.number
  PROVE  i \in EpisodesAt(v, s, ep)
<1>1. p \in Existing(v, "seasons") /\ p \in Slots["seasons"]
  BY NumberedAre DEF Existing
<1>2. p # Null
  BY <1>1, SlotsAre, TablesAre
<1>3. i \in NumberedEpisodes(v, p, ep.number)
  BY <1>2, NumberedAre
<1> QED BY <1>3 DEF EpisodesAt

\* An item from Sonarr: its episodes are held, and a second import changes nothing
\* unless two seasons share a number.
LEMMA SonarrItem ==
  ASSUME SettledInv, NEW r \in Runs, At(r, "episodes"), ~run[r].raced, run[r].kind = "sonarr",
         ~ListsTwice(run[r].item.episodes), NEW late, EpisodesImported(r, late).full # TRUE
  PROVE  LET after == EpisodesImported(r, late).view IN
         /\ HoldsListed(r, after)
         /\ Unique(after) /\ TwinSeasons(after) = {} => SettlesItem(r, after)
<1> DEFINE v == View(r)
           item == run[r].item
           eps == item.episodes
           s == run[r].series
           seasons == run[r].seasons
           room == [t \in Tables |-> Room(r, t)]
           w == EpisodesImported(r, late).view
<1>1. SeriesInv /\ Settled(run[r], v)
  BY DEF SettledInv, Settling
<1>2. ImportRun(run[r], db) /\ IsView(v) /\ Sound(v)
  BY <1>1, ImportIs
<1>3. /\ item \in Items[run[r].kind] /\ run[r].kind \in ImportKinds
      /\ s \in Existing(v, "series") /\ IsSeasons(v, seasons)
  BY <1>2 DEF ImportRun, View, At
<1>4. IsItem(item)
  BY <1>3, ItemsAre
<1>5. /\ Len(eps) \in Nat /\ DOMAIN eps = 1..Len(eps)
      /\ \A n \in 1..Len(eps) : eps[n].number # Null /\ eps[n].season # Null /\ eps[n].id # Null
  BY <1>4 DEF IsItem
<1>6. \A m, n \in 1..Len(eps) : eps[m].id = eps[n].id => m = n
  BY <1>5 DEF ListsTwice
<1>7. IsRoom(room)
  BY RoomIs
<1>8. /\ EpisodesImported(r, late) = AfterSonarr(v, seasons, eps, room)
      /\ w = AfterSonarr(v, seasons, eps, room).view /\ AfterSonarr(v, seasons, eps, room).full # TRUE
  BY DEF EpisodesImported
<1>9. item.ids.sonarr # Null =>
        /\ \A n : n \in DOMAIN seasons <=> NumberedSeasons(v, s, n) # {}
        /\ \A n \in DOMAIN seasons : seasons[n] \in NumberedSeasons(v, s, n)
        /\ item.seasons \subseteq DOMAIN seasons
  BY <1>1 DEF Settled
<1>10. /\ Candidates(v, "sonarr", item.ids) = {s}
       /\ \A c \in Fills["sonarr"] : v["series"][s][c] = Null => item.ids[c] = Null
  BY <1>1 DEF Settled
<1> HIDE DEF v, eps, s, seasons, room, w
<1>11. SameSeries(v, w)
  BY <1>2, <1>3, <1>5, <1>7, <1>8, SonarrSameSeries
<1>12. SameSeasons(v, w)
  BY <1>2, <1>3, <1>5, <1>7, <1>8, SonarrSameSeasons
<1>13. IsView(w) /\ Sound(w)
  <2>1. Grown("sonarr", v, AfterSonarr(v, seasons, eps, room))
    BY <1>2, <1>3, <1>5, <1>7, SonarrGrows
  <2> QED BY <1>8, <2>1 DEF Grown, Extends
<1>14. \A k \in 1..Len(eps) : eps[k].season \in DOMAIN seasons => SonarrHas(w, seasons[eps[k].season], eps[k])
  BY <1>2, <1>3, <1>5, <1>6, <1>7, <1>8, EverySonarrHeld
<1>15. \A p, n : NumberedSeasons(w, p, n) = NumberedSeasons(v, p, n)
  BY <1>12, SameNumbered
<1>16. ASSUME NEW n \in 1..Len(eps), item.ids.sonarr # Null, eps[n].season \in item.seasons
       PROVE  \E i \in EpisodesAt(w, s, eps[n]) : w.episodes[i].sonarr = eps[n].id
  <2>1. eps[n].season \in DOMAIN seasons /\ seasons[eps[n].season] \in NumberedSeasons(w, s, eps[n].season)
    BY <1>9, <1>15, <1>16
  <2>2. PICK i \in Slots["episodes"] : /\ w["episodes"][i]["season"] = seasons[eps[n].season]
                                       /\ w["episodes"][i]["number"] = eps[n].number
                                       /\ w["episodes"][i]["sonarr"] = eps[n].id
    BY <1>14, <2>1 DEF SonarrHas
  <2>3. i \in EpisodesAt(w, s, eps[n])
    BY <1>13, <2>1, <2>2, StandsAt
  <2> QED BY <2>2, <2>3
<1>17. HoldsListed(r, w)
  BY <1>5, <1>16 DEF HoldsListed, eps, s
<1>18. ASSUME Unique(w), TwinSeasons(w) = {}, NEW again
       PROVE  Reimported(w, "sonarr", item, s, again, room).view = w
  <2>1. s \in Slots["series"] /\ "sonarr" \in ImportKinds
    BY <1>3 DEF Existing, ImportKinds
  <2>2. \A c \in Fills["sonarr"] : w["series"][s][c] = Null => item.ids[c] = Null
    BY <1>10, <1>11, <2>1, KindsAre DEF SameSeries
  <2>3. FilledSeries(w, "sonarr", s, item.ids) = w
    BY <1>13, <2>1, <2>2, FillsNothing
  <2>4. CASE item.ids.sonarr = Null
    BY <2>3, <2>4 DEF Reimported, Bare
  <2>5. CASE item.ids.sonarr # Null
    <3>1. /\ \A n : n \in DOMAIN seasons <=> NumberedSeasons(w, s, n) # {}
          /\ \A n \in DOMAIN seasons : seasons[n] \in NumberedSeasons(w, s, n)
          /\ item.seasons \subseteq DOMAIN seasons
      BY <1>9, <1>15, <2>5
    <3>2. item.seasons \subseteq DOMAIN SeasonsByNumber(w, s, again)
      BY <3>1, KeysAre
    <3>3. AddedSeasons(w, s, item.seasons, again, room) = Bare(w)
      BY <3>2, AddsNoSeason
    <3>6. SeasonKeys(w, s, seasons) /\ SonarrHasAll(w, seasons, eps)
      BY <1>14, <3>1 DEF SeasonKeys, SonarrHasAll
    <3>4. AfterSonarr(w, SeasonsByNumber(w, s, again), eps, room).view = w
      <4>1. Len(eps) \in Nat /\ \A n \in 1..Len(eps) : eps[n].id # Null
        BY <1>5
      <4> QED BY ONLY <4>1, <1>13, <1>18, <3>6, SonarrAgain
    <3>5. Bare(w).view = w
      BY DEF Bare
    <3> QED BY <2>3, <2>5, <3>3, <3>4, <3>5 DEF Reimported, eps
  <2> QED BY <2>4, <2>5
<1>19. Unique(w) /\ TwinSeasons(w) = {} => SettlesItem(r, w)
  BY <1>18 DEF SettlesItem, s, room
<1> QED BY <1>17, <1>19 DEF w

-----------------------------------------------------------------------------
(* Jellyfin's import: every episode that is listed ends where Jellyfin puts *)
(* it.                                                                      *)

\* w has the episodes of u, where they were and with their ids, the seasons of s,
\* and the ids of seasons.
Carries(s, u, w) ==
  /\ \A j \in Existing(u, "episodes") :
       /\ j \in Existing(w, "episodes")
       /\ w["episodes"][j]["season"] = u["episodes"][j]["season"]
       /\ w["episodes"][j]["number"] = u["episodes"][j]["number"]
       /\ u["episodes"][j]["jellyfin"] # Null => w["episodes"][j]["jellyfin"] = u["episodes"][j]["jellyfin"]
  /\ \A n : NumberedSeasons(u, s, n) \subseteq NumberedSeasons(w, s, n)
  /\ \A j \in Slots["seasons"] :
       u["seasons"][j]["jellyfin"] # Null => w["seasons"][j]["jellyfin"] # Null

\* Nothing is lost between the turns, however many.
LEMMA CarriesItself == ASSUME NEW s, NEW v PROVE Carries(s, v, v)
BY DEF Carries

LEMMA CarriesAgain ==
  ASSUME NEW s, NEW u, NEW v, NEW w, Carries(s, u, v), Carries(s, v, w)
  PROVE  Carries(s, u, w)
<1>1. ASSUME NEW j \in Existing(u, "episodes")
      PROVE  /\ j \in Existing(w, "episodes")
             /\ w["episodes"][j]["season"] = u["episodes"][j]["season"]
             /\ w["episodes"][j]["number"] = u["episodes"][j]["number"]
             /\ u["episodes"][j]["jellyfin"] # Null => w["episodes"][j]["jellyfin"] = u["episodes"][j]["jellyfin"]
  <2>1. /\ j \in Existing(v, "episodes")
        /\ v["episodes"][j]["season"] = u["episodes"][j]["season"]
        /\ v["episodes"][j]["number"] = u["episodes"][j]["number"]
        /\ u["episodes"][j]["jellyfin"] # Null => v["episodes"][j]["jellyfin"] = u["episodes"][j]["jellyfin"]
    BY DEF Carries
  <2>2. /\ j \in Existing(w, "episodes")
        /\ w["episodes"][j]["season"] = v["episodes"][j]["season"]
        /\ w["episodes"][j]["number"] = v["episodes"][j]["number"]
        /\ v["episodes"][j]["jellyfin"] # Null => w["episodes"][j]["jellyfin"] = v["episodes"][j]["jellyfin"]
    BY <2>1 DEF Carries
  <2> QED BY <2>1, <2>2
<1>2. \A n : NumberedSeasons(u, s, n) \subseteq NumberedSeasons(w, s, n)
  <2>1. \A n : NumberedSeasons(u, s, n) \subseteq NumberedSeasons(v, s, n)
    BY DEF Carries
  <2>2. \A n : NumberedSeasons(v, s, n) \subseteq NumberedSeasons(w, s, n)
    BY DEF Carries
  <2> QED BY <2>1, <2>2
<1>3. \A j \in Slots["seasons"] : u["seasons"][j]["jellyfin"] # Null => w["seasons"][j]["jellyfin"] # Null
  BY DEF Carries
<1> QED BY <1>1, <1>2, <1>3 DEF Carries

\* Where an episode of the answer stands.
LEMMA AtIs ==
  ASSUME NEW v, NEW s, NEW ep, NEW i \in EpisodesAt(v, s, ep)
  PROVE  /\ i \in Existing(v, "episodes") /\ i \in Slots["episodes"]
         /\ v["episodes"][i]["number"] = ep.number
         /\ v["episodes"][i]["season"] \in NumberedSeasons(v, s, ep.season)
<1>1. PICK p \in NumberedSeasons(v, s, ep.season) : i \in NumberedEpisodes(v, p, ep.number)
  BY DEF EpisodesAt
<1> QED BY <1>1, NumberedAre

\* Two episodes of an answer in one row are for one place.
LEMMA AtOnePlace ==
  ASSUME NEW v, NEW s, NEW e, NEW f, NEW i \in EpisodesAt(v, s, e), i \in EpisodesAt(v, s, f)
  PROVE  e.season = f.season /\ e.number = f.number
<1>1. v["episodes"][i]["number"] = e.number /\ v["episodes"][i]["season"] \in NumberedSeasons(v, s, e.season)
  BY AtIs
<1>2. v["episodes"][i]["number"] = f.number /\ v["episodes"][i]["season"] \in NumberedSeasons(v, s, f.season)
  BY AtIs
<1> QED BY <1>1, <1>2, NumberedAre

\* What stands where an episode belongs goes on to.
LEMMA CarriesPlaces ==
  ASSUME NEW s, NEW u, NEW w, Carries(s, u, w), Sound(w), NEW ep
  PROVE  EpisodesAt(u, s, ep) \subseteq EpisodesAt(w, s, ep)
<1> SUFFICES ASSUME NEW i \in EpisodesAt(u, s, ep)
             PROVE  i \in EpisodesAt(w, s, ep)
  OBVIOUS
<1>1. /\ i \in Existing(u, "episodes") /\ i \in Slots["episodes"]
      /\ u["episodes"][i]["number"] = ep.number
      /\ u["episodes"][i]["season"] \in NumberedSeasons(u, s, ep.season)
  BY AtIs
<1>2. w["episodes"][i]["number"] = ep.number /\ w["episodes"][i]["season"] \in NumberedSeasons(w, s, ep.season)
  BY <1>1 DEF Carries
<1> QED BY <1>1, <1>2, StandsAt

\* The seasons of the dictionary have the numbers it says.
KeysStand(a, s) == \A n \in DOMAIN a.seasons : a.seasons[n] \in NumberedSeasons(a.view, s, n)

\* The season of ep is there, with an id if ep says one.
SeasonTagged(a, ep) ==
  /\ ep.season \in DOMAIN a.seasons
  /\ a.view["seasons"][a.seasons[ep.season]]["jellyfin"] # Null \/ ep.of = Null

\* What the season of a turn does to what the loop knows.
Readied(s, a, m, ep) ==
  /\ m.byId = a.byId /\ m.byNumber = a.byNumber
  /\ Carries(s, a.view, m.view) /\ SameSeries(a.view, m.view)
  /\ Existing(m.view, "episodes") = Existing(a.view, "episodes")
  /\ \A j \in Slots["episodes"] : \A c \in Columns["episodes"] : m.view["episodes"][j][c] = a.view["episodes"][j][c]
  /\ \A n \in DOMAIN a.seasons : n \in DOMAIN m.seasons /\ m.seasons[n] = a.seasons[n]
  /\ KeysStand(m, s) /\ SeasonTagged(m, ep)

\* The season of a turn: filled or created.
LEMMA SeasonedReadies ==
  ASSUME NEW v, NEW s, NEW a, NEW m, NEW b, NEW ep, NEW room, JellyfinTurn(v, s, a, m, b, ep, room), KeysStand(a, s)
  PROVE  Readied(s, a, m, ep)
<1>0. /\ "episodes" \in Tables /\ "seasons" \in Tables /\ "series" \in Tables
      /\ {"season", "number", "jellyfin"} \subseteq Columns["episodes"]
      /\ {"series", "number", "jellyfin"} \subseteq Columns["seasons"]
  BY TablesAre
<1>1. /\ Seasoned(a, m, s, ep, room) /\ ep.season # Null /\ s \in Existing(a.view, "series")
      /\ ep.season \in DOMAIN m.seasons
  BY DEF JellyfinTurn
<1>2. CASE /\ ep.season \in DOMAIN a.seasons /\ m.seasons = a.seasons
           /\ \A t \in Tables : \A j \in Slots[t] : \A c \in Columns[t] :
                m.view[t][j][c] =
                  IF t = "seasons" /\ j = a.seasons[ep.season] /\ c = "jellyfin" /\ a.view[t][j][c] = Null
                  THEN ep.of ELSE a.view[t][j][c]
           /\ SameSeasons(a.view, m.view) /\ SameEpisodes(a.view, m.view)
  <2> DEFINE i == a.seasons[ep.season]
  <2>1. \A j \in Slots["episodes"] : \A c \in Columns["episodes"] : m.view["episodes"][j][c] = a.view["episodes"][j][c]
    BY <1>0, <1>2
  <2>2. Existing(m.view, "episodes") = Existing(a.view, "episodes")
    BY <1>2 DEF SameEpisodes
  <2>3. \A p, n : NumberedSeasons(m.view, p, n) = NumberedSeasons(a.view, p, n)
    BY <1>2, SameNumbered
  <2>4. i \in Slots["seasons"]
    BY <1>2, NumberedAre DEF KeysStand, Existing
  <2> HIDE DEF i
  <2>5. \A j \in Slots["seasons"] : m.view["seasons"][j]["jellyfin"] =
          IF j = i /\ a.view["seasons"][j]["jellyfin"] = Null THEN ep.of ELSE a.view["seasons"][j]["jellyfin"]
    BY <1>0, <1>2 DEF i
  <2>6. Carries(s, a.view, m.view)
    <3>1. \A j \in Existing(a.view, "episodes") : j \in Slots["episodes"]
      BY DEF Existing
    <3> QED BY <1>0, <2>1, <2>2, <2>3, <2>5, <3>1 DEF Carries
  <2>7. SameSeries(a.view, m.view)
    BY <1>0, <1>2 DEF SameSeries
  <2>8. KeysStand(m, s)
    BY <1>2, <2>3 DEF KeysStand
  <2>9. SeasonTagged(m, ep)
    BY <1>2, <2>4, <2>5 DEF SeasonTagged, i
  <2> QED BY <1>1, <1>2, <2>1, <2>2, <2>6, <2>7, <2>8, <2>9 DEF Readied, Seasoned
<1>3. CASE /\ ep.season \notin DOMAIN a.seasons /\ m.seasons = Also(a.seasons, ep.season, m.new)
           /\ Inserted(a.view, m.view, "seasons", m.new,
                       Row("seasons", [series |-> s, number |-> ep.season, jellyfin |-> ep.of]))
  <2> DEFINE row == Row("seasons", [series |-> s, number |-> ep.season, jellyfin |-> ep.of])
             f == a.seasons  x == ep.season  i == m.new  u == a.view  w == m.view
  <2>1. row["series"] = s /\ row["number"] = x /\ row["jellyfin"] = ep.of
    BY RowsAre
  <2>2. Inserted(u, w, "seasons", i, row) /\ s \in Existing(u, "series")
    BY <1>1, <1>3
  <2>10. x # Null /\ x \notin DOMAIN f /\ m.seasons = Also(f, x, i)
    BY <1>1, <1>3
  <2>11. \A n \in DOMAIN f : f[n] \in NumberedSeasons(u, s, n)
    BY DEF KeysStand
  <2> HIDE DEF row, f, x, i, u, w
  <2>3. Fits(u, "seasons", row)
    BY <1>0, <2>1, <2>2, <2>10 DEF Fits
  <2>4. \A p, n : NumberedSeasons(w, p, n) = NumberedSeasons(u, p, n) \cup
              (IF row["series"] = p /\ row["number"] = n THEN {i} ELSE {})
    BY <2>2, <2>3, InsertedNumbered
  <2>5. i \in Slots["seasons"] \ Existing(u, "seasons")
        /\ \A t \in Tables : \A j \in Slots[t] : w[t][j] = IF t = "seasons" /\ j = i THEN row ELSE u[t][j]
    BY <2>2 DEF Inserted
  <2>6. OneMore(u, w, "seasons", i)
    BY <1>0, <2>2, <2>3, InsertedIs
  <2>7. Existing(w, "episodes") = Existing(u, "episodes")
        /\ \A j \in Slots["episodes"] : w["episodes"][j] = u["episodes"][j]
    BY <1>0, <2>5, <2>6 DEF OneMore
  <2>8. \A j \in Slots["seasons"] : u["seasons"][j]["jellyfin"] # Null => w["seasons"][j]["jellyfin"] # Null
    <3>1. u["seasons"][i]["jellyfin"] = Null
      BY <1>0, <2>5 DEF Existing, Exists
    <3> QED BY <1>0, <2>5, <3>1
  <2>9. Carries(s, u, w)
    <3>1. \A j \in Existing(u, "episodes") : j \in Slots["episodes"]
      BY DEF Existing
    <3>2. \A n : NumberedSeasons(u, s, n) \subseteq NumberedSeasons(w, s, n)
      BY <2>4
    <3> QED BY <2>7, <2>8, <3>1, <3>2 DEF Carries
  <2>12. SameSeries(u, w)
    BY <1>0, <2>2, SameSeriesInserted
  <2>13. \A n \in DOMAIN f : n \in DOMAIN m.seasons /\ m.seasons[n] = f[n]
    BY <2>10 DEF Also
  <2>14. x \in DOMAIN m.seasons /\ m.seasons[x] = i /\ \A n \in DOMAIN m.seasons : n = x \/ n \in DOMAIN f
    BY <2>10 DEF Also
  <2>15. \A n \in DOMAIN m.seasons : m.seasons[n] \in NumberedSeasons(w, s, n)
    BY <2>1, <2>4, <2>11, <2>13, <2>14
  <2>16. w["seasons"][i]["jellyfin"] = ep.of
    BY <1>0, <2>1, <2>5
  <2>17. KeysStand(m, s) /\ SeasonTagged(m, ep)
    BY <2>14, <2>15, <2>16 DEF KeysStand, SeasonTagged, w, x
  <2> QED BY <1>1, <2>7, <2>9, <2>12, <2>13, <2>17 DEF Readied, Seasoned, u, w, f
<1> QED BY <1>1, <1>2, <1>3 DEF Seasoned

\* The rows of the dictionary of numbers stand where it says.
PlacesKnown(a) ==
  \A p \in DOMAIN a.byNumber :
    /\ a.byNumber[p] \in Existing(a.view, "episodes")
    /\ p = <<a.view["episodes"][a.byNumber[p]]["season"], a.view["episodes"][a.byNumber[p]]["number"]>>

\* The rows of the dictionary of ids have their ids, which v had there or ids has.
IdsKnown(v, a, ids) ==
  \A x \in DOMAIN a.byId :
    /\ x # Null /\ a.byId[x] \in Existing(a.view, "episodes")
    /\ a.view["episodes"][a.byId[x]]["jellyfin"] = x
    /\ x \in ids \/ (a.byId[x] \in Existing(v, "episodes") /\ v["episodes"][a.byId[x]]["jellyfin"] = x)

\* What the episode ep of a turn does to what the loop knows: it ends in row i.
Placed(s, m, b, ep, i) ==
  /\ Carries(s, m.view, b.view) /\ SameSeries(m.view, b.view) /\ b.seasons = m.seasons
  /\ i \in EpisodesAt(b.view, s, ep)
  /\ b.view["episodes"][i]["jellyfin"] # Null
  /\ \/ b.view["episodes"][i]["jellyfin"] = ep.id
     \/ i \in Existing(m.view, "episodes") /\ b.view["episodes"][i]["jellyfin"] = m.view["episodes"][i]["jellyfin"]
  /\ \A j \in Existing(b.view, "episodes") \ {i} :
       j \in Existing(m.view, "episodes") /\ b.view["episodes"][j]["jellyfin"] = m.view["episodes"][j]["jellyfin"]
  /\ \/ b.byId = m.byId
     \/ b.byId = Also(m.byId, ep.id, i) /\ b.view["episodes"][i]["jellyfin"] = ep.id
  /\ \/ b.byNumber = m.byNumber
     \/ b.byNumber = Also(m.byNumber, <<b.view["episodes"][i]["season"], b.view["episodes"][i]["number"]>>, i)

\* The episode of a turn ends where Jellyfin has it: the row that is known by its
\* id stands there, for none is moved; so does the row known by its number.
LEMMA EpisodedPlaces ==
  ASSUME NEW v, NEW s, NEW m, NEW b, NEW ep, NEW room, NEW ids,
         Carries(s, v, m.view), IsView(m.view), Sound(m.view), IsView(b.view), Sound(b.view), KeysStand(m, s), PlacesKnown(m), IdsKnown(v, m, ids),
         ep.season \in DOMAIN m.seasons, ep.number # Null, ep.id # Null, ep.id \notin ids,
         With(v, "episodes", "jellyfin", ep.id) \subseteq EpisodesAt(v, s, ep),
         Episoded(m, b, ep, room)
  PROVE  \E i \in Slots["episodes"] : Placed(s, m, b, ep, i)
<1> DEFINE p == m.seasons[ep.season]
           place == <<p, ep.number>>
<1>0. /\ "episodes" \in Tables /\ "seasons" \in Tables /\ "series" \in Tables
      /\ {"season", "number", "jellyfin"} \subseteq Columns["episodes"]
      /\ "jellyfin" \in Columns["seasons"]
  BY TablesAre
<1>1. p \in NumberedSeasons(m.view, s, ep.season) /\ p \in Existing(m.view, "seasons") /\ b.seasons = m.seasons
  BY NumberedAre DEF KeysStand, Episoded
<1>2. ASSUME NEW i \in Existing(m.view, "episodes"),
             IF ep.id \in DOMAIN m.byId THEN i = m.byId[ep.id] ELSE place \in DOMAIN m.byNumber /\ i = m.byNumber[place],
             \A t \in Tables : \A j \in Slots[t] : \A c \in Columns[t] :
               b.view[t][j][c] =
                 IF t = "episodes" /\ j = i /\ c = "number" THEN ep.number
                 ELSE IF t = "episodes" /\ j = i /\ c = "jellyfin" /\ m.view[t][j][c] = Null THEN ep.id
                 ELSE m.view[t][j][c],
             b.byNumber = m.byNumber,
             b.byId = IF m.view["episodes"][i]["jellyfin"] = Null THEN Also(m.byId, ep.id, i) ELSE m.byId,
             \A y \in Tables : Existing(b.view, y) = Existing(m.view, y),
             SameSeasons(m.view, b.view)
      PROVE  i \in Slots["episodes"] /\ Placed(s, m, b, ep, i)
  <2> DEFINE u == m.view["episodes"]  w == b.view["episodes"]
  <2>1. i \in Slots["episodes"]
    BY DEF Existing
  <2>2. u[i]["number"] = ep.number /\ u[i]["season"] \in NumberedSeasons(m.view, s, ep.season)
    <3>1. CASE ep.id \in DOMAIN m.byId
      <4>1. i = m.byId[ep.id]
        BY <1>2, <3>1
      <4>2. i \in Existing(v, "episodes") /\ v["episodes"][i]["jellyfin"] = ep.id
        BY <3>1, <4>1 DEF IdsKnown
      <4>3. i \in With(v, "episodes", "jellyfin", ep.id)
        BY <2>1, <4>2 DEF With
      <4>4. i \in EpisodesAt(v, s, ep)
        BY <4>3
      <4>5. v["episodes"][i]["number"] = ep.number /\ v["episodes"][i]["season"] \in NumberedSeasons(v, s, ep.season)
        BY <4>4, AtIs
      <4> QED BY <4>2, <4>5 DEF Carries
    <3>2. CASE ep.id \notin DOMAIN m.byId
      <4>1. place \in DOMAIN m.byNumber /\ i = m.byNumber[place]
        BY <1>2, <3>2
      <4>2. place = <<u[i]["season"], u[i]["number"]>>
        BY <4>1 DEF PlacesKnown
      <4> QED BY <1>1, <4>2
    <3> QED BY <3>1, <3>2
  <2>3. /\ \A j \in Slots["episodes"] : w[j]["season"] = u[j]["season"] /\ w[j]["number"] = u[j]["number"]
        /\ \A j \in Slots["episodes"] : w[j]["jellyfin"] = IF j = i /\ u[j]["jellyfin"] = Null THEN ep.id ELSE u[j]["jellyfin"]
    <3>1. \A j \in Slots["episodes"] :
            /\ w[j]["season"] = u[j]["season"]
            /\ w[j]["number"] = IF j = i THEN ep.number ELSE u[j]["number"]
            /\ w[j]["jellyfin"] = IF j = i /\ u[j]["jellyfin"] = Null THEN ep.id ELSE u[j]["jellyfin"]
      BY <1>0, <1>2
    <3> QED BY <2>2, <3>1
  <2>4. \A q, n : NumberedSeasons(b.view, q, n) = NumberedSeasons(m.view, q, n)
    BY <1>2, SameNumbered
  <2>5. \A j \in Slots["seasons"] : b.view["seasons"][j]["jellyfin"] = m.view["seasons"][j]["jellyfin"]
    BY <1>0, <1>2
  <2>6. SameSeries(m.view, b.view)
    BY <1>0, <1>2 DEF SameSeries
  <2>7. Existing(b.view, "episodes") = Existing(m.view, "episodes")
    BY <1>0, <1>2
  <2>8. \A j \in Existing(m.view, "episodes") : j \in Slots["episodes"]
    BY DEF Existing
  <2>9. w[i]["number"] = ep.number /\ w[i]["season"] \in NumberedSeasons(b.view, s, ep.season)
    BY <2>1, <2>2, <2>3, <2>4
  <2>10. i \in EpisodesAt(b.view, s, ep)
    BY <2>1, <2>9, StandsAt
  <2>11. Carries(s, m.view, b.view)
    BY <2>3, <2>4, <2>5, <2>7, <2>8 DEF Carries
  <2>12. w[i]["jellyfin"] # Null /\ (w[i]["jellyfin"] = ep.id \/ w[i]["jellyfin"] = u[i]["jellyfin"])
    BY <2>1, <2>3
  <2>13. \A j \in Existing(b.view, "episodes") \ {i} : j \in Existing(m.view, "episodes") /\ w[j]["jellyfin"] = u[j]["jellyfin"]
    BY <2>3, <2>7, <2>8
  <2>14. b.byId = m.byId \/ (b.byId = Also(m.byId, ep.id, i) /\ w[i]["jellyfin"] = ep.id)
    BY <1>2, <2>1, <2>3
  <2> QED BY <1>1, <1>2, <2>1, <2>6, <2>10, <2>11, <2>12, <2>13, <2>14 DEF Placed
<1>3. ASSUME ep.id \notin DOMAIN m.byId, place \notin DOMAIN m.byNumber,
             Inserted(m.view, b.view, "episodes", b.new, Row("episodes", [season |-> p, number |-> ep.number, jellyfin |-> ep.id])),
             b.byId = Also(m.byId, ep.id, b.new),
             b.byNumber = Also(m.byNumber, place, b.new)
      PROVE  b.new \in Slots["episodes"] /\ Placed(s, m, b, ep, b.new)
  <2> DEFINE row == Row("episodes", [season |-> p, number |-> ep.number, jellyfin |-> ep.id])
             i == b.new  u == m.view  w == b.view
  <2>1. row["season"] = p /\ row["number"] = ep.number /\ row["jellyfin"] = ep.id
    BY RowsAre
  <2>2. Inserted(u, w, "episodes", i, row)
    BY <1>3
  <2>3. p \in NumberedSeasons(u, s, ep.season) /\ p \in Existing(u, "seasons")
    BY <1>1
  <2> HIDE DEF row, i, u, w, p
  <2>4. Fits(u, "episodes", row)
    BY <1>0, <2>1, <2>3, TablesAre DEF Fits
  <2>5. \A q, n : NumberedSeasons(w, q, n) = NumberedSeasons(u, q, n)
    <3>1. SameSeasons(u, w)
      BY <1>0, <2>2, <2>4, InsertedIs
    <3> QED BY <3>1, SameNumbered
  <2>6. i \in Slots["episodes"] \ Existing(u, "episodes")
        /\ \A t \in Tables : \A j \in Slots[t] : w[t][j] = IF t = "episodes" /\ j = i THEN row ELSE u[t][j]
    BY <2>2 DEF Inserted
  <2>7. OneMore(u, w, "episodes", i)
    BY <1>0, <2>2, <2>4, InsertedIs
  <2>8. Existing(w, "episodes") = Existing(u, "episodes") \cup {i}
    BY <1>0, <2>7 DEF OneMore
  <2>9. w["episodes"][i] = row /\ \A j \in Slots["episodes"] \ {i} : w["episodes"][j] = u["episodes"][j]
    BY <1>0, <2>6
  <2>10. \A j \in Slots["seasons"] : w["seasons"][j] = u["seasons"][j]
    BY <1>0, <2>6
  <2>11. \A j \in Existing(u, "episodes") : j \in Slots["episodes"] \ {i}
    BY <2>6 DEF Existing
  <2>12. Carries(s, u, w)
    BY <2>5, <2>8, <2>9, <2>10, <2>11 DEF Carries
  <2>13. SameSeries(u, w)
    BY <1>0, <2>2, SameSeriesInserted
  <2>14. i \in EpisodesAt(w, s, ep)
    <3>1. Sound(w) /\ i \in Slots["episodes"] /\ p \in NumberedSeasons(w, s, ep.season)
          /\ w["episodes"][i]["season"] = p /\ w["episodes"][i]["number"] = ep.number
      BY <2>1, <2>3, <2>5, <2>6, <2>9 DEF w
    <3> QED BY <3>1, StandsAt
  <2>15. \A j \in Existing(w, "episodes") \ {i} : j \in Existing(u, "episodes") /\ w["episodes"][j]["jellyfin"] = u["episodes"][j]["jellyfin"]
    BY <2>8, <2>9, <2>11
  <2>16. w["episodes"][i]["jellyfin"] = ep.id /\ ep.id # Null
    BY <2>1, <2>9
  <2>17. place = <<w["episodes"][i]["season"], w["episodes"][i]["number"]>>
    BY <2>1, <2>9
  <2> QED BY <1>1, <1>3, <2>6, <2>12, <2>13, <2>14, <2>15, <2>16, <2>17 DEF Placed, u, w, i
<1> HIDE DEF place
<1>4. \/ \E i \in Existing(m.view, "episodes") :
              /\ IF ep.id \in DOMAIN m.byId THEN i = m.byId[ep.id]
                 ELSE place \in DOMAIN m.byNumber /\ i = m.byNumber[place]
              /\ \A t \in Tables : \A j \in Slots[t] : \A c \in Columns[t] :
                   b.view[t][j][c] =
                     IF t = "episodes" /\ j = i /\ c = "number" THEN ep.number
                     ELSE IF t = "episodes" /\ j = i /\ c = "jellyfin" /\ m.view[t][j][c] = Null THEN ep.id
                     ELSE m.view[t][j][c]
              /\ b.byNumber = m.byNumber
              /\ b.byId = IF m.view["episodes"][i]["jellyfin"] = Null THEN Also(m.byId, ep.id, i) ELSE m.byId
              /\ \A y \in Tables : Existing(b.view, y) = Existing(m.view, y)
              /\ SameSeasons(m.view, b.view)
      \/ /\ ep.id \notin DOMAIN m.byId /\ place \notin DOMAIN m.byNumber
         /\ Inserted(m.view, b.view, "episodes", b.new, Row("episodes", [season |-> p, number |-> ep.number, jellyfin |-> ep.id]))
         /\ b.byId = Also(m.byId, ep.id, b.new)
         /\ b.byNumber = Also(m.byNumber, place, b.new)
  BY DEF Episoded, place
<1> QED BY <1>2, <1>3, <1>4

\* The k-th episode has a row where it belongs, which has an id of its own, that of
\* another version listed for the same place, or the one it had in v.
HeldAt(v, w, s, eps, k) ==
  \E i \in EpisodesAt(w, s, eps[k]) :
    /\ w["episodes"][i]["jellyfin"] # Null
    /\ \/ w["episodes"][i]["jellyfin"] = v["episodes"][i]["jellyfin"]
       \/ \E l \in 1..Len(eps) : /\ eps[l].season = eps[k].season /\ eps[l].number = eps[k].number
                                 /\ w["episodes"][i]["jellyfin"] = eps[l].id

\* An id that w has is one of v or of the first n episodes, in its place.
IdsFrom(v, w, s, eps, n) ==
  \A j \in Existing(w, "episodes") : w["episodes"][j]["jellyfin"] # Null =>
    \/ w["episodes"][j]["jellyfin"] = v["episodes"][j]["jellyfin"]
    \/ \E l \in 1..n : w["episodes"][j]["jellyfin"] = eps[l].id /\ j \in EpisodesAt(w, s, eps[l])

IdsOf(eps, n) == {eps[k].id : k \in 1..n}

\* What the loop knows after n turns, and has come to.
Known(v, s, eps, a, n) ==
  /\ Carries(s, v, a.view) /\ SameSeries(v, a.view) /\ KeysStand(a, s)
  /\ PlacesKnown(a) /\ IdsKnown(v, a, IdsOf(eps, n))
  /\ \A k \in 1..n : HeldAt(v, a.view, s, eps, k)
  /\ IdsFrom(v, a.view, s, eps, n)
  /\ \A k \in 1..n : SeasonTagged(a, eps[k])

\* What the loop has come to stays so.
LEMMA HeldStays ==
  ASSUME NEW v, NEW s, NEW u, NEW w, Carries(s, u, w), Sound(w), NEW eps, NEW k, HeldAt(v, u, s, eps, k)
  PROVE  HeldAt(v, w, s, eps, k)
<1>1. PICK i \in EpisodesAt(u, s, eps[k]) :
    /\ u["episodes"][i]["jellyfin"] # Null
    /\ \/ u["episodes"][i]["jellyfin"] = v["episodes"][i]["jellyfin"]
       \/ \E l \in 1..Len(eps) : /\ eps[l].season = eps[k].season /\ eps[l].number = eps[k].number
                                 /\ u["episodes"][i]["jellyfin"] = eps[l].id
  BY DEF HeldAt
<1>2. i \in EpisodesAt(w, s, eps[k])
  BY CarriesPlaces
<1>3. i \in Existing(u, "episodes")
  BY AtIs
<1>4. w["episodes"][i]["jellyfin"] = u["episodes"][i]["jellyfin"]
  BY <1>1, <1>3 DEF Carries
<1> QED BY <1>1, <1>2, <1>4 DEF HeldAt

LEMMA SameSeriesAgain ==
  ASSUME NEW u, NEW v, NEW w, SameSeries(u, v), SameSeries(v, w)
  PROVE  SameSeries(u, w)
BY DEF SameSeries

LEMMA SeasonTaggedStays ==
  ASSUME NEW s, NEW a, NEW b, NEW ep, Carries(s, a.view, b.view), KeysStand(a, s), SeasonTagged(a, ep),
         \A n \in DOMAIN a.seasons : n \in DOMAIN b.seasons /\ b.seasons[n] = a.seasons[n]
  PROVE  SeasonTagged(b, ep)
<1>1. a.seasons[ep.season] \in Slots["seasons"]
  BY NumberedAre DEF SeasonTagged, KeysStand
<1> QED BY <1>1 DEF SeasonTagged, Carries

\* A turn keeps what the loop knows: the season first, then the episode.
LEMMA ReadiedKnown ==
  ASSUME NEW v, NEW s, NEW eps, NEW a, NEW m, NEW n, NEW ep, Sound(m.view), Known(v, s, eps, a, n), Readied(s, a, m, ep)
  PROVE  Known(v, s, eps, m, n)
<1> DEFINE u == a.view  w == m.view
<1>1. /\ m.byId = a.byId /\ m.byNumber = a.byNumber
      /\ Carries(s, u, w) /\ SameSeries(u, w)
      /\ Existing(w, "episodes") = Existing(u, "episodes")
      /\ \A j \in Slots["episodes"] : \A c \in Columns["episodes"] : w["episodes"][j][c] = u["episodes"][j][c]
      /\ \A x \in DOMAIN a.seasons : x \in DOMAIN m.seasons /\ m.seasons[x] = a.seasons[x]
      /\ KeysStand(m, s)
  BY DEF Readied
<1>2. {"season", "number", "jellyfin"} \subseteq Columns["episodes"]
  BY TablesAre
<1>3. \A j \in Existing(u, "episodes") :
        /\ w["episodes"][j]["season"] = u["episodes"][j]["season"]
        /\ w["episodes"][j]["number"] = u["episodes"][j]["number"]
        /\ w["episodes"][j]["jellyfin"] = u["episodes"][j]["jellyfin"]
  BY <1>1, <1>2 DEF Existing
<1>4. Carries(s, v, w) /\ SameSeries(v, w)
  BY <1>1, CarriesAgain, SameSeriesAgain DEF Known
<1>5. PlacesKnown(m)
  <2>1. PlacesKnown(a)
    BY DEF Known
  <2> QED BY <1>1, <1>3, <2>1 DEF PlacesKnown
<1>6. IdsKnown(v, m, IdsOf(eps, n))
  <2>1. IdsKnown(v, a, IdsOf(eps, n))
    BY DEF Known
  <2> QED BY <1>1, <1>3, <2>1 DEF IdsKnown
<1>7. \A k \in 1..n : HeldAt(v, w, s, eps, k)
  BY <1>1, HeldStays DEF Known
<1>8. IdsFrom(v, w, s, eps, n)
  <2>1. IdsFrom(v, u, s, eps, n)
    BY DEF Known
  <2>2. \A e : EpisodesAt(u, s, e) \subseteq EpisodesAt(w, s, e)
    BY <1>1, CarriesPlaces
  <2> QED BY <1>1, <1>3, <2>1, <2>2 DEF IdsFrom
<1>9. \A k \in 1..n : SeasonTagged(m, eps[k])
  BY <1>1, SeasonTaggedStays DEF Known
<1> QED BY <1>1, <1>4, <1>5, <1>6, <1>7, <1>8, <1>9 DEF Known

LEMMA PlacedKnown ==
  ASSUME NEW v, NEW s, NEW eps, NEW m, NEW b, NEW n \in Nat \ {0}, n \in 1..Len(eps), Sound(b.view),
         eps[n].id # Null,
         Known(v, s, eps, m, n - 1), SeasonTagged(m, eps[n]), NEW i \in Slots["episodes"], Placed(s, m, b, eps[n], i)
  PROVE  Known(v, s, eps, b, n)
<1> DEFINE ep == eps[n]  u == m.view  w == b.view
<1>0. \A k : k \in 1..n <=> k = n \/ k \in 1..(n - 1)
  OBVIOUS
<1>1. /\ Carries(s, u, w) /\ SameSeries(u, w) /\ b.seasons = m.seasons
      /\ i \in EpisodesAt(w, s, ep)
      /\ w["episodes"][i]["jellyfin"] # Null
      /\ \/ w["episodes"][i]["jellyfin"] = ep.id
         \/ i \in Existing(u, "episodes") /\ w["episodes"][i]["jellyfin"] = u["episodes"][i]["jellyfin"]
      /\ \A j \in Existing(w, "episodes") \ {i} :
           j \in Existing(u, "episodes") /\ w["episodes"][j]["jellyfin"] = u["episodes"][j]["jellyfin"]
      /\ \/ b.byId = m.byId
         \/ b.byId = Also(m.byId, ep.id, i) /\ w["episodes"][i]["jellyfin"] = ep.id
      /\ \/ b.byNumber = m.byNumber
         \/ b.byNumber = Also(m.byNumber, <<w["episodes"][i]["season"], w["episodes"][i]["number"]>>, i)
  BY DEF Placed
<1>2. /\ Carries(s, v, u) /\ SameSeries(v, u) /\ KeysStand(m, s)
      /\ PlacesKnown(m) /\ IdsKnown(v, m, IdsOf(eps, n - 1))
      /\ \A k \in 1..(n - 1) : HeldAt(v, u, s, eps, k)
      /\ IdsFrom(v, u, s, eps, n - 1)
      /\ \A k \in 1..(n - 1) : SeasonTagged(m, eps[k])
  BY DEF Known
<1>3. IdsOf(eps, n) = IdsOf(eps, n - 1) \cup {ep.id}
  BY <1>0 DEF IdsOf
<1>4. i \in Existing(w, "episodes") /\ w["episodes"][i]["number"] = ep.number
      /\ w["episodes"][i]["season"] \in NumberedSeasons(w, s, ep.season)
  BY <1>1, AtIs
<1>5. \A j \in Existing(u, "episodes") :
       /\ j \in Existing(w, "episodes")
       /\ w["episodes"][j]["season"] = u["episodes"][j]["season"]
       /\ w["episodes"][j]["number"] = u["episodes"][j]["number"]
       /\ u["episodes"][j]["jellyfin"] # Null => w["episodes"][j]["jellyfin"] = u["episodes"][j]["jellyfin"]
  BY <1>1 DEF Carries
<1>6. Carries(s, v, w) /\ SameSeries(v, w)
  BY <1>1, <1>2, CarriesAgain, SameSeriesAgain
<1>7. KeysStand(b, s)
  <2>1. \A x : NumberedSeasons(u, s, x) \subseteq NumberedSeasons(w, s, x)
    BY <1>1 DEF Carries
  <2> QED BY <1>1, <1>2, <2>1 DEF KeysStand
<1>8. \A k \in 1..n : SeasonTagged(b, eps[k])
  <2>1. \A k \in 1..n : SeasonTagged(m, eps[k])
    BY <1>0, <1>2
  <2> QED BY <1>1, <1>2, <2>1, SeasonTaggedStays
<1>9. \A e : EpisodesAt(u, s, e) \subseteq EpisodesAt(w, s, e)
  BY <1>1, CarriesPlaces
<1>10. PlacesKnown(b)
  <2> DEFINE f == m.byNumber  x == <<w["episodes"][i]["season"], w["episodes"][i]["number"]>>
  <2>1. \A p \in DOMAIN f : f[p] \in Existing(u, "episodes") /\ p = <<u["episodes"][f[p]]["season"], u["episodes"][f[p]]["number"]>>
    BY <1>2 DEF PlacesKnown
  <2>2. \A p \in DOMAIN f : f[p] \in Existing(w, "episodes") /\ p = <<w["episodes"][f[p]]["season"], w["episodes"][f[p]]["number"]>>
    BY <1>5, <2>1
  <2>3. (b.byNumber = f \/ b.byNumber = Also(f, x, i)) /\ x = <<w["episodes"][i]["season"], w["episodes"][i]["number"]>>
    BY <1>1
  <2> HIDE DEF f, x
  <2>4. /\ DOMAIN Also(f, x, i) = DOMAIN f \cup {x}
        /\ \A z \in DOMAIN f \cup {x} : Also(f, x, i)[z] = IF z = x THEN i ELSE f[z]
    BY DEF Also
  <2>5. \A p \in DOMAIN b.byNumber : b.byNumber[p] \in Existing(w, "episodes")
          /\ p = <<w["episodes"][b.byNumber[p]]["season"], w["episodes"][b.byNumber[p]]["number"]>>
    <3>1. CASE b.byNumber = f
      BY <2>2, <3>1
    <3>2. ASSUME b.byNumber = Also(f, x, i), NEW p \in DOMAIN b.byNumber
          PROVE  b.byNumber[p] \in Existing(w, "episodes")
                 /\ p = <<w["episodes"][b.byNumber[p]]["season"], w["episodes"][b.byNumber[p]]["number"]>>
      <4>1. CASE p = x
        <5>1. b.byNumber[p] = i
          BY <2>4, <3>2, <4>1
        <5> QED BY <1>4, <2>3, <4>1, <5>1
      <4>2. CASE p # x
        <5>1. p \in DOMAIN f /\ b.byNumber[p] = f[p]
          BY <2>4, <3>2, <4>2
        <5> QED BY <2>2, <5>1
      <4> QED BY <4>1, <4>2
    <3> QED BY <2>3, <3>1, <3>2
  <2> QED BY <2>5 DEF PlacesKnown
<1>11. IdsKnown(v, b, IdsOf(eps, n))
  <2> DEFINE f == m.byId  x == ep.id  I == IdsOf(eps, n - 1)
  <2>1. \A y \in DOMAIN f : /\ y # Null /\ f[y] \in Existing(u, "episodes") /\ u["episodes"][f[y]]["jellyfin"] = y
                            /\ y \in I \/ (f[y] \in Existing(v, "episodes") /\ v["episodes"][f[y]]["jellyfin"] = y)
    BY <1>2 DEF IdsKnown
  <2> DEFINE J == I \cup {x}
  <2>2. \A y \in DOMAIN f : /\ y # Null /\ f[y] \in Existing(w, "episodes") /\ w["episodes"][f[y]]["jellyfin"] = y
                            /\ y \in J \/ (f[y] \in Existing(v, "episodes") /\ v["episodes"][f[y]]["jellyfin"] = y)
    BY <1>5, <2>1
  <2>3. b.byId = f \/ (b.byId = Also(f, x, i) /\ w["episodes"][i]["jellyfin"] = x)
    BY <1>1
  <2>4. x # Null /\ x \in J
    OBVIOUS
  <2> HIDE DEF f, x, J
  <2>5. /\ DOMAIN Also(f, x, i) = DOMAIN f \cup {x}
        /\ \A z \in DOMAIN f \cup {x} : Also(f, x, i)[z] = IF z = x THEN i ELSE f[z]
    BY DEF Also
  <2>6. \A y \in DOMAIN b.byId :
          /\ y # Null /\ b.byId[y] \in Existing(w, "episodes") /\ w["episodes"][b.byId[y]]["jellyfin"] = y
          /\ y \in J \/ (b.byId[y] \in Existing(v, "episodes") /\ v["episodes"][b.byId[y]]["jellyfin"] = y)
    <3>1. CASE b.byId = f
      BY <2>2, <3>1
    <3>2. CASE b.byId = Also(f, x, i) /\ w["episodes"][i]["jellyfin"] = x
      BY <1>4, <2>2, <2>4, <2>5, <3>2
    <3> QED BY <2>3, <3>1, <3>2
  <2>7. IdsOf(eps, n) = J
    BY <1>3 DEF J, x
  <2>8. IdsKnown(v, b, J)
    BY ONLY <2>6 DEF IdsKnown
  <2> QED BY <2>7, <2>8
<1>12. \/ w["episodes"][i]["jellyfin"] = v["episodes"][i]["jellyfin"]
       \/ \E l \in 1..n : w["episodes"][i]["jellyfin"] = eps[l].id /\ i \in EpisodesAt(w, s, eps[l])
  <2>1. CASE w["episodes"][i]["jellyfin"] = ep.id
    BY <1>0, <1>1, <2>1
  <2>2. CASE i \in Existing(u, "episodes") /\ w["episodes"][i]["jellyfin"] = u["episodes"][i]["jellyfin"]
    <3>1. \/ u["episodes"][i]["jellyfin"] = v["episodes"][i]["jellyfin"]
          \/ \E l \in 1..(n - 1) : u["episodes"][i]["jellyfin"] = eps[l].id /\ i \in EpisodesAt(u, s, eps[l])
      BY <1>1, <1>2, <2>2 DEF IdsFrom
    <3> QED BY <1>0, <1>9, <2>2, <3>1
  <2> QED BY <1>1, <2>1, <2>2
<1>13. IdsFrom(v, w, s, eps, n)
  <2> SUFFICES ASSUME NEW j \in Existing(w, "episodes"), w["episodes"][j]["jellyfin"] # Null
               PROVE  \/ w["episodes"][j]["jellyfin"] = v["episodes"][j]["jellyfin"]
                      \/ \E l \in 1..n : w["episodes"][j]["jellyfin"] = eps[l].id /\ j \in EpisodesAt(w, s, eps[l])
    BY DEF IdsFrom
  <2>1. CASE j = i
    BY <1>12, <2>1
  <2>2. CASE j # i
    <3>1. j \in Existing(u, "episodes") /\ w["episodes"][j]["jellyfin"] = u["episodes"][j]["jellyfin"]
      BY <1>1, <2>2
    <3>2. \/ u["episodes"][j]["jellyfin"] = v["episodes"][j]["jellyfin"]
          \/ \E l \in 1..(n - 1) : u["episodes"][j]["jellyfin"] = eps[l].id /\ j \in EpisodesAt(u, s, eps[l])
      BY <1>2, <3>1 DEF IdsFrom
    <3> QED BY <1>0, <1>9, <3>1, <3>2
  <2> QED BY <2>1, <2>2
<1>14. HeldAt(v, w, s, eps, n)
  <2>0. n \in 1..Len(eps)
    OBVIOUS
  <2>1. CASE w["episodes"][i]["jellyfin"] = v["episodes"][i]["jellyfin"]
    BY <1>1, <2>1 DEF HeldAt
  <2>2. CASE \E l \in 1..n : w["episodes"][i]["jellyfin"] = eps[l].id /\ i \in EpisodesAt(w, s, eps[l])
    <3>1. PICK l \in 1..n : w["episodes"][i]["jellyfin"] = eps[l].id /\ i \in EpisodesAt(w, s, eps[l])
      BY <2>2
    <3>2. ep.season = eps[l].season /\ ep.number = eps[l].number
      BY <1>1, <3>1, AtOnePlace
    <3>3. l \in 1..Len(eps)
      BY <2>0
    <3> QED BY <1>1, <3>1, <3>2, <3>3 DEF HeldAt
  <2> QED BY <1>12, <2>1, <2>2
<1>15. \A k \in 1..n : HeldAt(v, w, s, eps, k)
  <2>1. \A k \in 1..(n - 1) : HeldAt(v, w, s, eps, k)
    BY <1>1, <1>2, HeldStays
  <2> QED BY <1>0, <1>14, <2>1
<1> QED BY <1>6, <1>7, <1>8, <1>10, <1>11, <1>13, <1>15 DEF Known

\* The import knows where the episodes belong that the library has by their ids.
NoneMoved(v, s, eps) ==
  \A k \in 1..Len(eps) : With(v, "episodes", "jellyfin", eps[k].id) \subseteq EpisodesAt(v, s, eps[k])

\* The loop begins with what the dictionaries know, and every turn keeps it.
LEMMA IndexesKnown ==
  ASSUME NEW v, IsView(v), Sound(v), NEW s, NEW late, NEW eps
  PROVE  Known(v, s, eps, JellyfinIndexes(v, s, late), 0)
<1> DEFINE ix == JellyfinIndexes(v, s, late)
<1>1. Indexing(v, ix, s, late) /\ ix.view = v
  BY JellyfinIndexing, JellyfinIndexesAre
<1>2. \A n \in DOMAIN SeasonsByNumber(v, s, late) : SeasonsByNumber(v, s, late)[n] \in NumberedSeasons(v, s, n)
  BY KeysAre
<1> HIDE DEF ix
<1>3. KeysStand(ix, s)
  BY <1>1, <1>2 DEF KeysStand, Indexing
<1>4. PlacesKnown(ix) /\ IdsKnown(v, ix, IdsOf(eps, 0))
  BY <1>1 DEF PlacesKnown, IdsKnown, Indexing
<1>5. Carries(s, v, ix.view) /\ SameSeries(v, ix.view)
  BY <1>1, CarriesItself DEF SameSeries
<1>6. IdsFrom(v, ix.view, s, eps, 0)
  BY <1>1 DEF IdsFrom
<1>7. \A k : k \notin 1..0
  OBVIOUS
<1> QED BY <1>3, <1>4, <1>5, <1>6, <1>7 DEF Known, ix

LEMMA TurnKnown ==
  ASSUME NEW v, NEW s, NEW eps, NEW a, NEW m, NEW b, NEW room, Len(eps) \in Nat, NEW n \in 1..Len(eps),
         JellyfinTurn(v, s, a, m, b, eps[n], room), Known(v, s, eps, a, n - 1),
         \A i, j \in 1..Len(eps) : eps[i].id = eps[j].id => i = j,
         NoneMoved(v, s, eps)
  PROVE  Known(v, s, eps, b, n)
<1> DEFINE ep == eps[n]  I == IdsOf(eps, n - 1)
<1>1. /\ IsView(m.view) /\ Sound(m.view) /\ IsView(b.view) /\ Sound(b.view)
      /\ ep.season \in DOMAIN m.seasons /\ ep.number # Null /\ ep.id # Null
      /\ Episoded(m, b, ep, room)
  BY DEF JellyfinTurn, Grown, Extends
<1>2. KeysStand(a, s)
  BY DEF Known
<1>3. ep.id \notin I
  <2>1. \A k \in 1..(n - 1) : k \in 1..Len(eps) /\ k # n
    OBVIOUS
  <2> QED BY <2>1 DEF IdsOf
<1>4. With(v, "episodes", "jellyfin", ep.id) \subseteq EpisodesAt(v, s, ep)
  BY DEF NoneMoved
<1> HIDE DEF ep, I
<1>5. Readied(s, a, m, ep)
  BY <1>2, SeasonedReadies DEF ep
<1>6. Known(v, s, eps, m, n - 1)
  BY <1>1, <1>5, ReadiedKnown
<1>7. SeasonTagged(m, ep) /\ KeysStand(m, s)
  BY <1>5 DEF Readied
<1>8. Carries(s, v, m.view) /\ PlacesKnown(m) /\ IdsKnown(v, m, I)
  BY <1>6 DEF Known, I
<1>9. PICK i \in Slots["episodes"] : Placed(s, m, b, ep, i)
  BY <1>1, <1>3, <1>4, <1>7, <1>8, EpisodedPlaces
<1>10. n \in Nat \ {0} /\ n \in 1..Len(eps)
  OBVIOUS
<1> QED BY <1>1, <1>6, <1>7, <1>9, <1>10, PlacedKnown DEF ep

LEMMA EveryJellyfinKnown ==
  ASSUME NEW v, IsView(v), Sound(v), NEW s \in Existing(v, "series"), NEW eps, NEW late, NEW room,
         IsRoom(room), Len(eps) \in Nat,
         \A n \in 1..Len(eps) : eps[n].number # Null /\ eps[n].season # Null /\ eps[n].id # Null,
         \A m, n \in 1..Len(eps) : eps[m].id = eps[n].id => m = n,
         NoneMoved(v, s, eps)
  PROVE  LET after == AfterJellyfin(v, s, eps, late, room) IN
         after.full \/ Known(v, s, eps, after, Len(eps))
<1> DEFINE N == Len(eps)
           t == JellyfinTurns(v, s, eps, late, room)
           S == {n \in 0..N : t[n].full \/ Known(v, s, eps, t[n], n)}
<1>0. N \in Nat
  OBVIOUS
<1>1. t[0] = JellyfinIndexes(v, s, late)
  BY JellyfinTurnsAre
<1>2. \A n \in 1..N : ~t[n].full =>
        JellyfinTurn(v, s, t[n - 1], JellyfinSeason(t[n - 1], s, eps[n], room), t[n], eps[n], room)
  BY JellyfinTurnIs
<1>3. 0 \in S
  BY <1>0, <1>1, IndexesKnown
<1>4. ASSUME NEW n \in 1..N, n - 1 \in S
      PROVE  n \in S
  <2> DEFINE a == t[n - 1]  b == t[n]  m == JellyfinSeason(a, s, eps[n], room)
  <2>1. a.full \/ Known(v, s, eps, a, n - 1)
    BY <1>4
  <2>2. ~b.full => JellyfinTurn(v, s, a, m, b, eps[n], room)
    BY <1>2
  <2>3. (b.full \/ Known(v, s, eps, b, n)) => n \in S
    BY <1>0
  <2> HIDE DEF a, b, m, S, t
  <2>4. ASSUME ~b.full PROVE Known(v, s, eps, b, n)
    <3>1. ~a.full
      BY <2>2, <2>4 DEF JellyfinTurn
    <3> QED BY <2>1, <2>2, <2>4, <3>1, TurnKnown
  <2> QED BY <2>3, <2>4
<1> HIDE DEF S, t
<1>5. \A n \in 0..N : n \in S
  BY <1>0, <1>3, <1>4, EveryTurn
<1>6. N \in S
  BY <1>0, <1>5
<1> QED BY <1>6 DEF S, t, AfterJellyfin

-----------------------------------------------------------------------------
(* A second import of the same item from Jellyfin.                          *)

\* There is nothing for Jellyfin's loop to change.
JellyfinStands(w, s, eps) ==
  \A k \in 1..Len(eps) :
    /\ \E i \in EpisodesAt(w, s, eps[k]) : w["episodes"][i]["jellyfin"] # Null
    /\ \A j \in Existing(w, "episodes") :
         w["episodes"][j]["jellyfin"] = eps[k].id => w["episodes"][j]["number"] = eps[k].number
    /\ \E p \in NumberedSeasons(w, s, eps[k].season) : w["seasons"][p]["jellyfin"] # Null \/ eps[k].of = Null

\* After the loop, every episode has its row, and no id is elsewhere.
LEMMA KnownStands ==
  ASSUME NEW v, NEW s, NEW eps, NEW a, Sound(a.view), Len(eps) \in Nat,
         Known(v, s, eps, a, Len(eps)), NoneMoved(v, s, eps),
         \A n \in 1..Len(eps) : eps[n].id # Null,
         \A m, n \in 1..Len(eps) : eps[m].id = eps[n].id => m = n
  PROVE  JellyfinStands(a.view, s, eps)
<1> SUFFICES ASSUME NEW k \in 1..Len(eps)
             PROVE  /\ \E i \in EpisodesAt(a.view, s, eps[k]) : a.view["episodes"][i]["jellyfin"] # Null
                    /\ \A j \in Existing(a.view, "episodes") :
                         a.view["episodes"][j]["jellyfin"] = eps[k].id => a.view["episodes"][j]["number"] = eps[k].number
                    /\ \E p \in NumberedSeasons(a.view, s, eps[k].season) :
                         a.view["seasons"][p]["jellyfin"] # Null \/ eps[k].of = Null
  BY DEF JellyfinStands
<1> DEFINE w == a.view
<1>1. Carries(s, v, w) /\ KeysStand(a, s) /\ HeldAt(v, w, s, eps, k) /\ IdsFrom(v, w, s, eps, Len(eps)) /\ SeasonTagged(a, eps[k])
  BY DEF Known
<1>2. \E i \in EpisodesAt(w, s, eps[k]) : w["episodes"][i]["jellyfin"] # Null
  BY <1>1 DEF HeldAt
<1>3. ASSUME NEW j \in Existing(w, "episodes"), w["episodes"][j]["jellyfin"] = eps[k].id
      PROVE  w["episodes"][j]["number"] = eps[k].number
  <2>1. j \in Slots["episodes"] /\ eps[k].id # Null
    BY DEF Existing
  <2>2. CASE w["episodes"][j]["jellyfin"] = v["episodes"][j]["jellyfin"]
    <3>1. j \in With(v, "episodes", "jellyfin", eps[k].id)
      BY <1>3, <2>1, <2>2 DEF With
    <3>2. j \in EpisodesAt(v, s, eps[k])
      BY <3>1 DEF NoneMoved
    <3>3. j \in EpisodesAt(w, s, eps[k])
      BY <1>1, <3>2, CarriesPlaces
    <3> QED BY <3>3, AtIs
  <2>3. CASE \E l \in 1..Len(eps) : w["episodes"][j]["jellyfin"] = eps[l].id /\ j \in EpisodesAt(w, s, eps[l])
    <3>1. j \in EpisodesAt(w, s, eps[k])
      BY <1>3, <2>3
    <3> QED BY <3>1, AtIs
  <2> QED BY <1>1, <1>3, <2>1, <2>2, <2>3 DEF IdsFrom
<1>4. \E p \in NumberedSeasons(w, s, eps[k].season) : w["seasons"][p]["jellyfin"] # Null \/ eps[k].of = Null
  BY <1>1 DEF KeysStand, SeasonTagged
<1> QED BY <1>2, <1>3, <1>4

\* acc with its own tables.
LEMMA SameTables ==
  ASSUME NEW acc, NEW b, b = [acc EXCEPT !.view = acc.view], {"view", "full", "seasons", "byId", "byNumber"} \subseteq DOMAIN acc
  PROVE  /\ DOMAIN b = DOMAIN acc /\ b.view = acc.view /\ b.full = acc.full
         /\ b.seasons = acc.seasons /\ b.byId = acc.byId /\ b.byNumber = acc.byNumber
OBVIOUS

\* The accumulator x has what y has, but for the last new row.
Alike(x, y) ==
  /\ {"view", "full", "seasons", "byId", "byNumber"} \subseteq DOMAIN x
  /\ x.view = y.view /\ x.full = y.full
  /\ x.seasons = y.seasons /\ x.byId = y.byId /\ x.byNumber = y.byNumber

\* Then a second loop finds the season tagged, the episode in place, with an id.
LEMMA JellyfinSeasonAgain ==
  ASSUME NEW w, IsView(w), NEW s, NEW ix, NEW acc, Alike(acc, ix), ix.view = w, ix.full = FALSE, NEW ep, NEW room,
         ep.season \in DOMAIN ix.seasons, ix.seasons[ep.season] \in Slots["seasons"],
         w["seasons"][ix.seasons[ep.season]]["jellyfin"] # Null \/ ep.of = Null
  PROVE  Alike(JellyfinSeason(acc, s, ep, room), ix)
<1> DEFINE b == JellyfinSeason(acc, s, ep, room)
           p == acc.seasons[ep.season]
<1>1. acc.full = FALSE /\ acc.view = w /\ ep.season \in DOMAIN acc.seasons /\ p \in Slots["seasons"]
      /\ (w["seasons"][p]["jellyfin"] # Null \/ ep.of = Null)
  BY DEF Alike
<1>2. "seasons" \in Tables /\ "jellyfin" \in Columns["seasons"]
  BY TablesAre
<1>3. b = IF acc.view["seasons"][p]["jellyfin"] = Null
          THEN [acc EXCEPT !.view = Put(acc.view, "seasons", p, "jellyfin", ep.of)] ELSE acc
  BY <1>1 DEF JellyfinSeason
<1> HIDE DEF b, p
<1>4. CASE w["seasons"][p]["jellyfin"] # Null
  <2>1. b = acc
    BY <1>1, <1>3, <1>4
  <2> QED BY <2>1 DEF b
<1>5. CASE w["seasons"][p]["jellyfin"] = Null
  <2>1. ep.of = w["seasons"][p]["jellyfin"]
    BY <1>1, <1>5
  <2>2. Put(w, "seasons", p, "jellyfin", ep.of) = w
    BY <1>1, <1>2, <2>1, PutNothing
  <2>3. b = [acc EXCEPT !.view = acc.view]
    BY <1>1, <1>3, <1>5, <2>2
  <2>4. Alike(b, ix)
    BY <2>3, SameTables DEF Alike
  <2> QED BY <2>4 DEF b
<1> QED BY <1>4, <1>5

LEMMA JellyfinEpisodeAgain ==
  ASSUME NEW w, IsView(w), NEW s, NEW ix, NEW acc, NEW ep, NEW room,
         Alike(JellyfinSeason(acc, s, ep, room), ix), ix.view = w, ix.full = FALSE,
         NEW i \in Slots["episodes"],
         IF ep.id \in DOMAIN ix.byId THEN i = ix.byId[ep.id]
         ELSE <<ix.seasons[ep.season], ep.number>> \in DOMAIN ix.byNumber /\ i = ix.byNumber[<<ix.seasons[ep.season], ep.number>>],
         w["episodes"][i]["jellyfin"] # Null, w["episodes"][i]["number"] = ep.number
  PROVE  Alike(JellyfinEpisode(acc, s, ep, room), ix)
<1> DEFINE m == JellyfinSeason(acc, s, ep, room)
           b == JellyfinEpisode(acc, s, ep, room)
           place == <<m.seasons[ep.season], ep.number>>
           j == IF ep.id \in DOMAIN m.byId THEN m.byId[ep.id] ELSE m.byNumber[place]
           fills == m.view.episodes[j].jellyfin = Null
<1>1. m.full = FALSE /\ m.view = w /\ {"view", "full", "seasons", "byId", "byNumber"} \subseteq DOMAIN m
      /\ (ep.id \in DOMAIN m.byId \/ place \in DOMAIN m.byNumber) /\ j = i
  BY DEF Alike
<1>2. b = IF m.full THEN m
          ELSE IF ep.id \in DOMAIN m.byId \/ place \in DOMAIN m.byNumber
          THEN [m EXCEPT !.view = Put(IF fills THEN Put(m.view, "episodes", j, "jellyfin", ep.id) ELSE m.view,
                                      "episodes", j, "number", ep.number),
                         !.byId = IF fills THEN Also(m.byId, ep.id, j) ELSE m.byId]
          ELSE LET new == Added(m, "episodes", [season |-> place[1], number |-> ep.number, jellyfin |-> ep.id], room)
               IN  [new EXCEPT !.byId = Also(new.byId, ep.id, new.new), !.byNumber = Also(new.byNumber, place, new.new)]
  BY DEF JellyfinEpisode
<1>3. "episodes" \in Tables /\ "number" \in Columns["episodes"]
  BY TablesAre
<1>4. Alike(m, ix)
  OBVIOUS
<1> HIDE DEF m, b
<1>5. ~fills
  BY <1>1
<1>6. Put(w, "episodes", i, "number", ep.number) = w
  BY <1>3, PutNothing
<1>7. b = [m EXCEPT !.view = w, !.byId = m.byId]
  <2> HIDE DEF place, fills
  <2> QED BY <1>1, <1>2, <1>5, <1>6
<1>8. Alike(b, ix)
  BY <1>1, <1>4, <1>7 DEF Alike
<1> QED BY <1>8 DEF b

LEMMA JellyfinAgain ==
  ASSUME NEW w, IsView(w), Sound(w), NoTwins(w), NEW s, NEW eps, NEW again, NEW room, Len(eps) \in Nat,
         JellyfinStands(w, s, eps)
  PROVE  AfterJellyfin(w, s, eps, again, room).view = w
<1> DEFINE N == Len(eps)
           ix == JellyfinIndexes(w, s, again)
           t == JellyfinTurns(w, s, eps, again, room)
           S == {n \in 0..N : Alike(t[n], ix)}
<1>0. N \in Nat
  OBVIOUS
<1>1. t[0] = ix /\ \A n \in 1..N : t[n] = JellyfinEpisode(t[n - 1], s, eps[n], room)
  BY JellyfinTurnsAre
<1>2. Indexing(w, ix, s, again) /\ ix.view = w
  BY JellyfinIndexing, JellyfinIndexesAre
<1>3. ix.full = FALSE /\ DOMAIN ix = {"view", "full", "new", "seasons", "byId", "byNumber"}
  BY DEF JellyfinIndexes
<1>4. /\ \A n : n \in DOMAIN ix.seasons <=> NumberedSeasons(w, s, n) # {}
      /\ \A n \in DOMAIN ix.seasons : ix.seasons[n] \in NumberedSeasons(w, s, n)
  BY <1>2, KeysAre DEF Indexing
<1>5. /\ \A p, n : \A i, j \in NumberedSeasons(w, p, n) : i = j
      /\ \A x, ep : \A i, j \in EpisodesAt(w, x, ep) : i = j
  BY PlacesAlone
<1> HIDE DEF t, ix, N
<1>6. 0 \in S
  BY <1>0, <1>1, <1>3 DEF Alike
<1>7. ASSUME NEW n \in 1..N, n - 1 \in S
      PROVE  n \in S
  <2> DEFINE ep == eps[n]  acc == t[n - 1]  p == ix.seasons[ep.season]
  <2>0. /\ Alike(acc, ix)
        /\ Alike(JellyfinEpisode(acc, s, ep, room), ix) => n \in S
    BY <1>0, <1>1, <1>7
  <2>1. /\ \E i \in EpisodesAt(w, s, ep) : w["episodes"][i]["jellyfin"] # Null
        /\ \A j \in Existing(w, "episodes") :
             w["episodes"][j]["jellyfin"] = ep.id => w["episodes"][j]["number"] = ep.number
        /\ \E q \in NumberedSeasons(w, s, ep.season) : w["seasons"][q]["jellyfin"] # Null \/ ep.of = Null
    BY DEF JellyfinStands, N
  <2> HIDE DEF ep, acc
  <2>2. ep.season \in DOMAIN ix.seasons /\ p \in NumberedSeasons(w, s, ep.season)
    BY <1>4, <2>1
  <2>3. p \in Slots["seasons"] /\ (w["seasons"][p]["jellyfin"] # Null \/ ep.of = Null)
    BY <1>5, <2>1, <2>2, NumberedAre
  <2>4. Alike(JellyfinSeason(acc, s, ep, room), ix)
    BY <1>2, <1>3, <2>0, <2>2, <2>3, JellyfinSeasonAgain
  <2>5. PICK k \in EpisodesAt(w, s, ep) : w["episodes"][k]["jellyfin"] # Null
    BY <2>1
  <2>6. k \in Existing(w, "episodes") /\ w["episodes"][k]["number"] = ep.number /\ w["episodes"][k]["season"] = p
    BY <1>5, <2>2, AtIs
  <2>7. <<p, ep.number>> \in DOMAIN ix.byNumber
    <3>1. <<w["episodes"][k]["season"], w["episodes"][k]["number"]>> \in DOMAIN ix.byNumber
      BY <1>2, <2>2, <2>6 DEF Indexing
    <3> QED BY <2>6, <3>1
  <2>8. CASE ep.id \in DOMAIN ix.byId
    <3> DEFINE i == ix.byId[ep.id]
    <3>1. ep.id # Null /\ i \in Existing(w, "episodes") /\ w["episodes"][i]["jellyfin"] = ep.id
      BY <1>2, <2>8 DEF Indexing
    <3>2. i \in Slots["episodes"] /\ w["episodes"][i]["number"] = ep.number
      BY <2>1, <3>1 DEF Existing
    <3>3. Alike(JellyfinEpisode(acc, s, ep, room), ix)
      BY <1>2, <1>3, <2>4, <2>8, <3>1, <3>2, JellyfinEpisodeAgain
    <3> QED BY <2>0, <3>3
  <2>9. CASE ep.id \notin DOMAIN ix.byId
    <3> DEFINE q == <<p, ep.number>>  i == ix.byNumber[q]
    <3>1. i \in Existing(w, "episodes") /\ q = <<w["episodes"][i]["season"], w["episodes"][i]["number"]>>
      BY <1>2, <2>7 DEF Indexing
    <3>2. i \in Slots["episodes"] /\ w["episodes"][i]["number"] = ep.number /\ w["episodes"][i]["season"] = p
      BY <3>1 DEF Existing
    <3>3. i \in EpisodesAt(w, s, ep)
      BY <2>2, <3>2, StandsAt
    <3>4. i = k
      BY <1>5, <3>3
    <3>5. Alike(JellyfinEpisode(acc, s, ep, room), ix)
      BY <1>2, <1>3, <2>4, <2>5, <2>7, <2>9, <3>2, <3>4, JellyfinEpisodeAgain
    <3> QED BY <2>0, <3>5
  <2> QED BY <2>8, <2>9
<1> HIDE DEF S
<1>8. \A n \in 0..N : n \in S
  BY <1>0, <1>6, <1>7, EveryTurn
<1>9. N \in S
  BY <1>0, <1>8
<1>10. t[N].view = w
  BY <1>2, <1>9 DEF S, Alike
<1> QED BY <1>10 DEF t, N, AfterJellyfin

\* An item from Jellyfin, which has moved no id: its episodes are held, and a second
\* import changes nothing unless two rows share a number.
LEMMA JellyfinItem ==
  ASSUME SettledInv, NEW r \in Runs, At(r, "episodes"), ~run[r].raced, run[r].kind = "jellyfin",
         ~ListsTwice(run[r].item.episodes), ~Moved(View(r), run[r].series, run[r].item.episodes),
         NEW late, ~EpisodesImported(r, late).full
  PROVE  LET after == EpisodesImported(r, late).view IN
         HoldsListed(r, after) /\ (NoTwins(after) => SettlesItem(r, after))
<1> DEFINE v == View(r)
           item == run[r].item
           eps == item.episodes
           s == run[r].series
           room == [t \in Tables |-> Room(r, t)]
           acc == EpisodesImported(r, late)
           w == acc.view
<1>1. SeriesInv /\ Settled(run[r], v)
  BY DEF SettledInv, Settling
<1>2. ImportRun(run[r], db) /\ IsView(v) /\ Sound(v)
  BY <1>1, ImportIs
<1>3. /\ item \in Items[run[r].kind] /\ run[r].kind \in ImportKinds
      /\ s \in Existing(v, "series")
  BY <1>2 DEF ImportRun, View, At
<1>4. IsItem(item)
  BY <1>3, ItemsAre
<1>5. /\ Len(eps) \in Nat /\ DOMAIN eps = 1..Len(eps)
      /\ \A n \in 1..Len(eps) : eps[n].number # Null /\ eps[n].season # Null /\ eps[n].id # Null
  BY <1>4 DEF IsItem
<1>6. \A m, n \in 1..Len(eps) : eps[m].id = eps[n].id => m = n
  BY <1>5 DEF ListsTwice
<1>7. IsRoom(room)
  BY RoomIs
<1>8. acc = AfterJellyfin(v, s, eps, late, room) /\ ~acc.full
  BY DEF EpisodesImported
<1>9. NoneMoved(v, s, eps)
  BY <1>5 DEF Moved, NoneMoved
<1>10. /\ Candidates(v, "jellyfin", item.ids) = {s}
       /\ \A c \in Fills["jellyfin"] : v["series"][s][c] = Null => item.ids[c] = Null
  BY <1>1 DEF Settled
<1> HIDE DEF v, eps, s, room, acc
<1>11. Known(v, s, eps, acc, Len(eps))
  BY <1>2, <1>3, <1>5, <1>6, <1>7, <1>8, <1>9, EveryJellyfinKnown
<1>12. IsView(w) /\ Sound(w)
  <2>1. Grown("jellyfin", v, JellyfinTurns(v, s, eps, late, room)[Len(eps)])
    <3>1. \A n \in 0..Len(eps) : Grown("jellyfin", v, JellyfinTurns(v, s, eps, late, room)[n])
      BY <1>2, <1>3, <1>5, <1>7, EveryJellyfinTurn
    <3> QED BY <1>5, <3>1
  <2> QED BY <1>8, <2>1 DEF Grown, Extends, AfterJellyfin
<1>13. SameSeries(v, w)
  BY <1>11 DEF Known
<1>14. HoldsListed(r, w)
  <2>1. ASSUME NEW n \in 1..Len(eps)
        PROVE  \E i \in EpisodesAt(w, s, eps[n]) :
                 w.episodes[i].jellyfin \in
                   ({eps[k].id : k \in {k \in DOMAIN eps : eps[k].season = eps[n].season /\ eps[k].number = eps[n].number}}
                      \cup {v.episodes[i].jellyfin}) \ {Null}
    <3>1. PICK i \in EpisodesAt(w, s, eps[n]) :
            /\ w["episodes"][i]["jellyfin"] # Null
            /\ \/ w["episodes"][i]["jellyfin"] = v["episodes"][i]["jellyfin"]
               \/ \E l \in 1..Len(eps) : /\ eps[l].season = eps[n].season /\ eps[l].number = eps[n].number
                                         /\ w["episodes"][i]["jellyfin"] = eps[l].id
      BY <1>11 DEF Known, HeldAt
    <3> QED BY <1>5, <3>1
  <2> QED BY <1>5, <2>1 DEF HoldsListed, eps, s, v
<1>15. ASSUME NoTwins(w), NEW again
       PROVE  Reimported(w, "jellyfin", item, s, again, room).view = w
  <2>1. s \in Slots["series"] /\ "jellyfin" \in ImportKinds
    BY <1>3 DEF Existing, ImportKinds
  <2>2. \A c \in Fills["jellyfin"] : w["series"][s][c] = Null => item.ids[c] = Null
    BY <1>10, <1>13, <2>1, KindsAre DEF SameSeries
  <2>3. FilledSeries(w, "jellyfin", s, item.ids) = w
    BY <1>12, <2>1, <2>2, FillsNothing
  <2>4. JellyfinStands(w, s, eps)
    BY <1>5, <1>6, <1>9, <1>11, <1>12, KnownStands
  <2>5. AfterJellyfin(w, s, eps, again, room).view = w
    BY <1>5, <1>12, <1>15, <2>4, JellyfinAgain
  <2> QED BY <2>3, <2>5 DEF Reimported, eps
<1>16. NoTwins(w) => SettlesItem(r, w)
  BY <1>15 DEF SettlesItem, s, room
<1> QED BY <1>14, <1>16 DEF acc

-----------------------------------------------------------------------------
(* The two imports together.                                                *)

\* Jellyfin's loop does not touch the table of series, whatever it is given.
LEMMA JellyfinSameSeries ==
  ASSUME NEW v, IsView(v), Sound(v), NEW s \in Existing(v, "series"), NEW eps, NEW late, NEW room,
         IsRoom(room), Len(eps) \in Nat,
         \A n \in 1..Len(eps) : eps[n].number # Null /\ eps[n].season # Null /\ eps[n].id # Null
  PROVE  LET after == AfterJellyfin(v, s, eps, late, room) IN
         after.full \/ SameSeries(v, after.view)
<1> DEFINE N == Len(eps)
           t == JellyfinTurns(v, s, eps, late, room)
           S == {n \in 0..N : t[n].full \/ SameSeries(v, t[n].view)}
<1>0. N \in Nat
  OBVIOUS
<1>1. t[0].view = v
  BY JellyfinTurnsAre, JellyfinIndexesAre
<1>2. \A n \in 1..N : ~t[n].full =>
        JellyfinTurn(v, s, t[n - 1], JellyfinSeason(t[n - 1], s, eps[n], room), t[n], eps[n], room)
  BY JellyfinTurnIs
<1> HIDE DEF t
<1>3. 0 \in S
  BY <1>0, <1>1 DEF SameSeries
<1>4. ASSUME NEW n \in 1..N, n - 1 \in S
      PROVE  n \in S
  <2> DEFINE a == t[n - 1]  b == t[n]  ep == eps[n]  m == JellyfinSeason(a, s, ep, room)
  <2>1. /\ a.full \/ SameSeries(v, a.view)
        /\ ~b.full => JellyfinTurn(v, s, a, m, b, ep, room)
        /\ b.full \/ SameSeries(v, b.view) => n \in S
    BY <1>0, <1>2, <1>4
  <2> HIDE DEF a, b, m, ep, S
  <2>2. ASSUME ~b.full
        PROVE  SameSeries(v, b.view)
    <3>1. ~a.full /\ Seasoned(a, m, s, ep, room) /\ Episoded(m, b, ep, room)
      BY <2>1, <2>2 DEF JellyfinTurn
    <3>2. SameSeries(a.view, m.view)
      <4> DEFINE row == Row("seasons", [series |-> s, number |-> ep.season, jellyfin |-> ep.of])
      <4>1. \/ \A t1 \in Tables : t1 # "seasons" => \A j \in Slots[t1] : \A c \in Columns[t1] :
                 m.view[t1][j][c] = a.view[t1][j][c]
            \/ Inserted(a.view, m.view, "seasons", m.new, row)
        BY <3>1 DEF Seasoned
      <4> HIDE DEF row
      <4>2. ASSUME Inserted(a.view, m.view, "seasons", m.new, row)
            PROVE  SameSeries(a.view, m.view)
        BY <4>2, SameSeriesInserted, TablesAre
      <4> QED BY <4>1, <4>2, TablesAre DEF SameSeries
    <3>3. SameSeries(m.view, b.view)
      <4> DEFINE row == Row("episodes", [season |-> m.seasons[ep.season], number |-> ep.number, jellyfin |-> ep.id])
      <4>1. \/ \A t1 \in Tables : t1 # "episodes" => \A j \in Slots[t1] : \A c \in Columns[t1] :
                 b.view[t1][j][c] = m.view[t1][j][c]
            \/ Inserted(m.view, b.view, "episodes", b.new, row)
        BY <3>1 DEF Episoded
      <4> HIDE DEF row
      <4>2. ASSUME Inserted(m.view, b.view, "episodes", b.new, row)
            PROVE  SameSeries(m.view, b.view)
        BY <4>2, SameSeriesInserted, TablesAre
      <4> QED BY <4>1, <4>2, TablesAre DEF SameSeries
    <3> QED BY <2>1, <3>1, <3>2, <3>3, SameSeriesAgain
  <2> QED BY <2>1, <2>2
<1> HIDE DEF S
<1>5. \A n \in 0..N : n \in S
  BY <1>0, <1>3, <1>4, EveryTurn
<1>6. N \in S
  BY <1>0, <1>5
<1> QED BY <1>6 DEF S, t, AfterJellyfin

\* So the item is found to be the same series again, whatever its episodes are.
LEMMA ItemIsFound ==
  ASSUME SettledInv, NEW r \in Runs, At(r, "episodes"), ~run[r].raced,
         NEW late, ~EpisodesImported(r, late).full
  PROVE  /\ run[r].kind \in ImportKinds
         /\ Candidates(EpisodesImported(r, late).view, run[r].kind, run[r].item.ids) = {run[r].series}
<1> DEFINE v == View(r)
           item == run[r].item
           eps == item.episodes
           s == run[r].series
           seasons == run[r].seasons
           room == [t \in Tables |-> Room(r, t)]
           w == EpisodesImported(r, late).view
<1>1. SeriesInv /\ Settled(run[r], v)
  BY DEF SettledInv, Settling
<1>2. ImportRun(run[r], db) /\ IsView(v) /\ Sound(v)
  BY <1>1, ImportIs
<1>3. /\ item \in Items[run[r].kind] /\ run[r].kind \in ImportKinds
      /\ s \in Existing(v, "series")
      /\ run[r].kind = "sonarr" => IsSeasons(v, seasons)
  BY <1>2 DEF ImportRun, View, At
<1>4. IsItem(item)
  BY <1>3, ItemsAre
<1>5. /\ Len(eps) \in Nat
      /\ \A n \in 1..Len(eps) : eps[n].number # Null /\ eps[n].season # Null /\ eps[n].id # Null
  BY <1>4 DEF IsItem
<1>6. IsRoom(room)
  BY RoomIs
<1>7. Candidates(v, run[r].kind, item.ids) = {s}
  BY <1>1 DEF Settled
<1>8. /\ run[r].kind = "sonarr" => w = AfterSonarr(v, seasons, eps, room).view
      /\ run[r].kind = "jellyfin" => /\ w = AfterJellyfin(v, s, eps, late, room).view
                                     /\ ~AfterJellyfin(v, s, eps, late, room).full
  BY DEF EpisodesImported
<1> HIDE DEF v, eps, s, seasons, room, w
<1>9. SameSeries(v, w)
  <2>1. CASE run[r].kind = "sonarr"
    BY <1>2, <1>3, <1>5, <1>6, <1>8, <2>1, SonarrSameSeries
  <2>2. CASE run[r].kind = "jellyfin"
    BY <1>2, <1>3, <1>5, <1>6, <1>8, <2>2, JellyfinSameSeries
  <2> QED BY <1>3, <2>1, <2>2, KindsAre
<1>10. Candidates(w, run[r].kind, item.ids) = {s}
  BY <1>3, <1>7, <1>9, SameSeriesFound
<1> QED BY <1>3, <1>10 DEF s, w

\* What both imports make of an item whose episodes they know the place of.
LEMMA ItemSettles ==
  ASSUME SettledInv, NEW r \in Runs, At(r, "episodes"), ~run[r].raced,
         ~ListsTwice(run[r].item.episodes),
         run[r].kind = "jellyfin" => ~Moved(View(r), run[r].series, run[r].item.episodes),
         NEW late, ~EpisodesImported(r, late).full
  PROVE  LET after == EpisodesImported(r, late).view IN
         HoldsListed(r, after) /\ (Unique(after) /\ Steady(r, after) => SettlesItem(r, after))
<1>1. run[r].kind \in ImportKinds /\ EpisodesImported(r, late).full # TRUE
  BY ItemIsFound
<1>2. CASE run[r].kind = "sonarr"
  BY <1>1, <1>2, SonarrItem DEF Steady
<1>3. CASE run[r].kind = "jellyfin"
  BY <1>3, JellyfinItem DEF Steady
<1> QED BY <1>1, <1>2, <1>3, KindsAre

\* Every episode of an item ends where its source puts it, after Sonarr's loop,
\* which knows episodes by sonarr_id, and after Jellyfin's, which looks them up by
\* jellyfin_id and by number (import_jellyfin_series_service.py:113).
THEOREM ListedAreHeld == Spec => []ListedEpisodesAreHeld
<1>1. SettledInv => ListedEpisodesAreHeld
  BY ItemSettles DEF ListedEpisodesAreHeld, Consistent
<1> QED BY <1>1, SettledInvariance, PTL

\* An import that takes the same item again finds the same series, whatever the
\* answer; and it leaves every row as it is, whatever the order in which the
\* database returns rows, if the first can be committed and no id is listed twice:
\* Sonarr's if no two seasons share a number, Jellyfin's if no two rows do and it
\* has moved no id (import_jellyfin_series_service.py:113-124).
THEOREM ReimportsSettle == Spec => []ReimportSettles
<1>1. SettledInv => ReimportSettles
  <2> SUFFICES ASSUME SettledInv, NEW r \in Runs, At(r, "episodes"), ~run[r].raced,
                      NEW late \in Lates(View(r)), ~EpisodesImported(r, late).full
               PROVE  LET after == EpisodesImported(r, late).view IN
                      /\ Candidates(after, run[r].kind, run[r].item.ids) = {run[r].series}
                      /\ Unique(after) /\ Steady(r, after) => SettlesItem(r, after)
    BY DEF ReimportSettles
  <2>1. Candidates(EpisodesImported(r, late).view, run[r].kind, run[r].item.ids) = {run[r].series}
    BY ItemIsFound
  <2>2. ASSUME Steady(r, EpisodesImported(r, late).view), Unique(EpisodesImported(r, late).view)
        PROVE  SettlesItem(r, EpisodesImported(r, late).view)
    <3>1. /\ ~ListsTwice(run[r].item.episodes)
          /\ run[r].kind = "jellyfin" => ~Moved(View(r), run[r].series, run[r].item.episodes)
      BY <2>2 DEF Steady
    <3> QED BY <2>2, <3>1, ItemSettles
  <2> QED BY <2>1, <2>2
<1> QED BY <1>1, SettledInvariance, PTL
=============================================================================
