--------------------------- MODULE SeriesLibraryProofs ---------------------------
(***************************************************************************)
(* Proofs about SeriesLibrary, first part: types, ids, and what is         *)
(* created.                                                                *)
(*                                                                         *)
(* Every loop of the services is a recursive function of the model: the    *)
(* state before the first turn, and the state after turn n from the one    *)
(* before it. EveryTurn carries a fact from turn to turn, by descent to    *)
(* the least turn that would break it, so that a proof about a loop is a   *)
(* proof about one turn.                                                   *)
(*                                                                         *)
(* SeriesInv says of the tables that every row has its parent, and of each *)
(* run that its view has parents too and, as long as no other commit has   *)
(* raced it, that its view extends what is committed in the way its job    *)
(* may (Extends): rows are added, empty columns filled, and little else.   *)
(* The commits of others do not break this: they mark the run as raced,    *)
(* and delete no row.                                                      *)
(***************************************************************************)
EXTENDS SeriesLibrary, FiniteSetTheorems, SequenceTheorems, NaturalsInduction,
        WellFoundedInduction, TLAPS

\* A set of numbers has a least one.
LEMMA LeastNumber ==
  ASSUME NEW T, T \subseteq Nat, T # {}
  PROVE  \E n \in T : \A m \in T : n <= m
<1>1. IsWellFoundedOn(OpToRel(<, Nat), Nat)
  BY NatLessThanWellFounded
<1>2. PICK n \in T : \A m \in T : ~(<<m, n>> \in OpToRel(<, Nat))
  BY <1>1, WFMin
<1>3. ASSUME NEW m \in T
      PROVE  n <= m
  <2>1. m \in Nat /\ n \in Nat
    OBVIOUS
  <2>2. ~(m < n)
    BY <1>2, <2>1 DEF OpToRel
  <2> QED BY <2>1, <2>2
<1> QED BY <1>3

\* What holds before the first turn, and after a turn if before it, holds throughout.
LEMMA EveryTurn ==
  ASSUME NEW N \in Nat, NEW S, 0 \in S, \A n \in 1..N : n - 1 \in S => n \in S
  PROVE  \A n \in 0..N : n \in S
<1> DEFINE T == {n \in 0..N : n \notin S}
<1> SUFFICES ASSUME T # {} PROVE FALSE
  OBVIOUS
<1>1. PICK n \in T : \A m \in T : n <= m
  <2>1. T \subseteq Nat
    OBVIOUS
  <2> HIDE DEF T
  <2> QED BY <2>1, LeastNumber
<1>2. n \in 1..N /\ n - 1 \in 0..N
  BY <1>1
<1>3. n - 1 \in S
  BY <1>1, <1>2
<1> QED BY <1>1, <1>2, <1>3

\* What Min and Max choose is in the set.
LEMMA MinIs ==
  ASSUME NEW S, S \subseteq Nat, S # {}
  PROVE  Min(S) \in S
<1>1. PICK n \in S : \A m \in S : n <= m
  BY LeastNumber
<1> QED BY <1>1 DEF Min

LEMMA MaxIs ==
  ASSUME NEW N \in Nat, NEW S, S \subseteq 1..N, S # {}
  PROVE  Max(S) \in S
<1> DEFINE T == {n \in 0..N : N - n \in S}
<1>1. T \subseteq Nat /\ T # {}
  <2>1. PICK x \in S : TRUE
    OBVIOUS
  <2>2. x \in 1..N
    BY <2>1
  <2> DEFINE y == N - x
  <2>3. y \in 0..N /\ N - y = x
    BY <2>2
  <2> HIDE DEF y
  <2>4. y \in T
    BY <2>1, <2>3
  <2> QED BY <2>4
<1>2. PICK n \in T : \A m \in T : n <= m
  <2> HIDE DEF T
  <2> QED BY <1>1, LeastNumber
<1>3. N - n \in S /\ n \in 0..N
  BY <1>2
<1>4. ASSUME NEW x \in S PROVE N - n >= x
  <2>2. x \in 1..N
    OBVIOUS
  <2>1. N - x \in T
    BY <2>2
  <2> QED BY <2>1, <2>2, <1>2, <1>3
<1> QED BY <1>3, <1>4 DEF Max

-----------------------------------------------------------------------------
\* The tables and their columns, spelled out.
LEMMA TablesAre ==
  /\ Tables = {"series", "seasons", "episodes"}
  /\ Columns["series"] = {"tmdb", "imdb", "tvdb", "sonarr", "jellyfin"}
  /\ Columns["seasons"] = {"series", "number", "jellyfin", "tmdb"}
  /\ Columns["episodes"] = {"season", "number", "sonarr", "jellyfin", "tmdb"}
BY DEF Tables, Columns, External

\* Row ids are numbers that are neither 0 nor NULL, and there are finitely many.
LEMMA SlotsAre ==
  /\ \A t \in Tables : Slots[t] \subseteq Nat \ {0}
  /\ \A t \in Tables : \E n \in Nat : Slots[t] \subseteq 1..n
  /\ \A t \in Tables : Null \notin Slots[t] /\ 0 \notin Slots[t]
  /\ Null # 0
BY SeriesTablesAssumption

IsView(v) ==
  /\ v = [t \in Tables |-> v[t]]
  /\ \A t \in Tables : v[t] = [i \in Slots[t] |-> v[t][i]]
  /\ \A t \in Tables : \A i \in Slots[t] : v[t][i] = [c \in Columns[t] |-> v[t][i][c]]

\* Tables with the same values are the same tables.
LEMMA SameView ==
  ASSUME NEW v, NEW w, IsView(v), IsView(w),
         \A t \in Tables : \A i \in Slots[t] : \A c \in Columns[t] : v[t][i][c] = w[t][i][c]
  PROVE  v = w
<1>1. ASSUME NEW t \in Tables, NEW i \in Slots[t]
      PROVE  v[t][i] = w[t][i]
  <2>1. v[t][i] = [c \in Columns[t] |-> v[t][i][c]] /\ w[t][i] = [c \in Columns[t] |-> w[t][i][c]]
    BY DEF IsView
  <2> QED BY <2>1
<1>2. \A t \in Tables : v[t] = w[t]
  BY <1>1 DEF IsView
<1> QED BY <1>2 DEF IsView

\* A function with another value at a point of its domain.
LEMMA AlsoIs ==
  ASSUME NEW f, NEW S, f = [z \in S |-> f[z]], NEW x \in S, NEW y
  PROVE  /\ Also(f, x, y) = [z \in S |-> Also(f, x, y)[z]]
         /\ \A z \in S : Also(f, x, y)[z] = IF z = x THEN y ELSE f[z]
<1>1. {x} \cup DOMAIN f = S
  <2>1. DOMAIN f = S
    BY Zenon
  <2> QED BY <2>1
<1> QED BY <1>1 DEF Also

\* What PutRow and Put leave, cell by cell.
LEMMA PutRowIs ==
  ASSUME NEW v, IsView(v), NEW t \in Tables, NEW i \in Slots[t], NEW row, 
         row = [c \in Columns[t] |-> row[c]]
  PROVE  /\ IsView(PutRow(v, t, i, row))
         /\ \A u \in Tables : \A j \in Slots[u] :
              PutRow(v, t, i, row)[u][j] = IF u = t /\ j = i THEN row ELSE v[u][j]
<1> DEFINE w == PutRow(v, t, i, row)
<1>1. /\ v = [u \in Tables |-> v[u]] /\ v[t] = [j \in Slots[t] |-> v[t][j]]
  BY DEF IsView
<1>2. w = [u \in Tables |-> w[u]] /\ \A u \in Tables : w[u] = IF u = t THEN Also(v[t], i, row) ELSE v[u]
  BY <1>1, AlsoIs DEF PutRow
<1>3. \A u \in Tables : w[u] = [j \in Slots[u] |-> w[u][j]]
  BY <1>1, <1>2, AlsoIs DEF IsView
<1>4. \A u \in Tables : \A j \in Slots[u] : w[u][j] = IF u = t /\ j = i THEN row ELSE v[u][j]
  BY <1>1, <1>2, AlsoIs
<1> HIDE DEF w
<1>5. IsView(w)
  <2>1. ASSUME NEW u \in Tables, NEW j \in Slots[u]
        PROVE  w[u][j] = [c \in Columns[u] |-> w[u][j][c]]
    <3>1. v[u][j] = [c \in Columns[u] |-> v[u][j][c]]
      BY DEF IsView
    <3>2. CASE u = t /\ j = i
      BY <3>2, <1>4
    <3>3. CASE ~(u = t /\ j = i)
      <4>1. w[u][j] = v[u][j]
        BY <3>3, <1>4
      <4> QED BY <4>1, <3>1
    <3> QED BY <3>2, <3>3
  <2> QED BY <2>1, <1>2, <1>3 DEF IsView
<1> QED BY <1>4, <1>5 DEF w

LEMMA PutIs ==
  ASSUME NEW v, IsView(v), NEW t \in Tables, NEW i \in Slots[t], NEW c \in Columns[t], NEW x
  PROVE  /\ IsView(Put(v, t, i, c, x))
         /\ \A u \in Tables : \A j \in Slots[u] : \A d \in Columns[u] :
              Put(v, t, i, c, x)[u][j][d] = IF u = t /\ j = i /\ d = c THEN x ELSE v[u][j][d]
<1> DEFINE row == Also(v[t][i], c, x)
<1>1. v[t][i] = [d \in Columns[t] |-> v[t][i][d]]
  BY DEF IsView
<1>2. /\ row = [d \in Columns[t] |-> row[d]]
      /\ \A d \in Columns[t] : row[d] = IF d = c THEN x ELSE v[t][i][d]
  BY <1>1, AlsoIs
<1>3. Put(v, t, i, c, x) = PutRow(v, t, i, row)
  BY DEF Put
<1> HIDE DEF row
<1>4. /\ IsView(PutRow(v, t, i, row))
      /\ \A u \in Tables : \A j \in Slots[u] :
           PutRow(v, t, i, row)[u][j] = IF u = t /\ j = i THEN row ELSE v[u][j]
  BY ONLY IsView(v), <1>2, PutRowIs
<1> QED BY ONLY <1>2, <1>3, <1>4

\* What a run sees, and what it has changed, cell by cell.
LEMMA OverlayIs ==
  ASSUME NEW base, NEW mine
  PROVE  /\ IsView(Overlay(base, mine))
         /\ \A t \in Tables : \A i \in Slots[t] : \A c \in Columns[t] :
              Overlay(base, mine)[t][i][c] =
                IF mine[t][i][c] # Null THEN mine[t][i][c] ELSE base[t][i][c]
BY DEF Overlay, IsView

LEMMA ChangesIs ==
  ASSUME NEW base, NEW v
  PROVE  /\ IsView(Changes(base, v))
         /\ \A t \in Tables : \A i \in Slots[t] : \A c \in Columns[t] :
              Changes(base, v)[t][i][c] = IF v[t][i][c] # base[t][i][c] THEN v[t][i][c] ELSE Null
BY DEF Changes, IsView

\* No changes: a run that has made none sees what is committed.
LEMMA NothingIs ==
  /\ IsView(Nothing)
  /\ \A t \in Tables : \A i \in Slots[t] : \A c \in Columns[t] : Nothing[t][i][c] = Null
BY DEF Nothing, Blank, IsView

LEMMA OverlayNothing ==
  ASSUME NEW v, IsView(v)
  PROVE  Overlay(v, Nothing) = v
<1>1. IsView(Overlay(v, Nothing))
  BY OverlayIs
<1>2. \A t \in Tables : \A i \in Slots[t] : \A c \in Columns[t] : Overlay(v, Nothing)[t][i][c] = v[t][i][c]
  BY OverlayIs, NothingIs
<1> QED BY <1>1, <1>2, SameView

\* Every value of base that is not NULL is not NULL in v.
Covers(base, v) ==
  \A t \in Tables : \A i \in Slots[t] : \A c \in Columns[t] :
    base[t][i][c] # Null => v[t][i][c] # Null

\* A run sees what it has made of the tables, if it has cleared no value.
LEMMA OverlayChanges ==
  ASSUME NEW base, NEW v, IsView(v), Covers(base, v)
  PROVE  Overlay(base, Changes(base, v)) = v
<1>1. IsView(Overlay(base, Changes(base, v)))
  BY OverlayIs
<1>2. \A t \in Tables : \A i \in Slots[t] : \A c \in Columns[t] :
        Overlay(base, Changes(base, v))[t][i][c] = v[t][i][c]
  BY OverlayIs, ChangesIs DEF Covers
<1> QED BY <1>1, <1>2, SameView

-----------------------------------------------------------------------------
\* Every season and every episode has its parent and its number.
Sound(v) ==
  /\ \A i \in Existing(v, "seasons") :
       v["seasons"][i]["series"] \in Existing(v, "series") /\ v["seasons"][i]["number"] # Null
  /\ \A i \in Existing(v, "episodes") :
       v["episodes"][i]["season"] \in Existing(v, "seasons") /\ v["episodes"][i]["number"] # Null

\* Rows stay where values do.
LEMMA CoversExisting ==
  ASSUME NEW v, NEW w, Covers(v, w)
  PROVE  \A t \in Tables : Existing(v, t) \subseteq Existing(w, t)
BY DEF Covers, Existing, Exists

LEMMA CoversOverlay ==
  ASSUME NEW base, NEW mine
  PROVE  Covers(base, Overlay(base, mine)) /\ Covers(mine, Overlay(base, mine))
BY OverlayIs DEF Covers

\* The changes of a run keep their parents when other runs add rows.
LEMMA OverlaySound ==
  ASSUME NEW A, NEW B, NEW M, Sound(A), Sound(B), Sound(Overlay(A, M)),
         \A t \in Tables : Existing(A, t) \subseteq Existing(B, t)
  PROVE  Sound(Overlay(B, M))
<1> DEFINE v == Overlay(A, M)  w == Overlay(B, M)
<1>1. \A t \in Tables : \A i \in Slots[t] : \A c \in Columns[t] :
         /\ v[t][i][c] = IF M[t][i][c] # Null THEN M[t][i][c] ELSE A[t][i][c]
         /\ w[t][i][c] = IF M[t][i][c] # Null THEN M[t][i][c] ELSE B[t][i][c]
  BY OverlayIs
<1>10. Sound(v)
  OBVIOUS
<1> HIDE DEF v, w
<1>2. \A t \in Tables : /\ Existing(w, t) = Existing(B, t) \cup Existing(M, t)
                        /\ Existing(v, t) = Existing(A, t) \cup Existing(M, t)
  BY <1>1 DEF Existing, Exists
<1>3. \A t \in Tables : Existing(v, t) \subseteq Existing(w, t)
  BY <1>2
<1>4. \A t \in Tables : \A i \in Slots[t] \ Existing(A, t) : \A c \in Columns[t] : A[t][i][c] = Null
  BY DEF Existing, Exists
<1>5. \A t \in Tables : Null \notin Existing(v, t)
  BY SlotsAre DEF Existing
<1>6. {"series", "number"} \subseteq Columns["seasons"] /\ {"season", "number"} \subseteq Columns["episodes"] /\ {"series", "seasons", "episodes"} \subseteq Tables
  BY TablesAre
<1>7. ASSUME NEW i \in Existing(w, "seasons")
      PROVE  w["seasons"][i]["series"] \in Existing(w, "series") /\ w["seasons"][i]["number"] # Null
  <2>0. i \in Slots["seasons"]
    BY DEF Existing
  <2>1. CASE i \in Existing(B, "seasons")
    <3>1. B["seasons"][i]["series"] \in Existing(B, "series") /\ B["seasons"][i]["number"] # Null
      BY <2>1 DEF Sound
    <3>2. M["seasons"][i]["series"] # Null => i \in Existing(v, "seasons") /\ v["seasons"][i]["series"] = M["seasons"][i]["series"]
      BY <1>1, <1>2, <1>6, <2>0 DEF Existing, Exists
    <3>3. M["seasons"][i]["series"] # Null => M["seasons"][i]["series"] \in Existing(w, "series")
      BY <3>2, <1>10, <1>3, <1>6 DEF Sound
    <3> QED BY <3>1, <3>3, <1>1, <1>2, <1>6, <2>0
  <2>2. CASE i \notin Existing(B, "seasons")
    <3>1. i \in Existing(v, "seasons") /\ i \notin Existing(A, "seasons")
      BY <2>2, <1>2, <1>6
    <3>2. v["seasons"][i]["series"] \in Existing(v, "series") /\ v["seasons"][i]["number"] # Null
      BY <3>1, <1>10 DEF Sound
    <3>3. A["seasons"][i]["series"] = Null /\ A["seasons"][i]["number"] = Null
      BY <3>1, <1>4, <1>6, <2>0
    <3>4. w["seasons"][i]["series"] = v["seasons"][i]["series"] /\ w["seasons"][i]["number"] = v["seasons"][i]["number"]
      BY <3>2, <3>3, <1>1, <1>5, <1>6, <2>0
    <3> QED BY <3>2, <3>4, <1>3, <1>6
  <2> QED BY <2>1, <2>2
<1>8. ASSUME NEW i \in Existing(w, "episodes")
      PROVE  w["episodes"][i]["season"] \in Existing(w, "seasons") /\ w["episodes"][i]["number"] # Null
  <2>0. i \in Slots["episodes"]
    BY DEF Existing
  <2>1. CASE i \in Existing(B, "episodes")
    <3>1. B["episodes"][i]["season"] \in Existing(B, "seasons") /\ B["episodes"][i]["number"] # Null
      BY <2>1 DEF Sound
    <3>2. M["episodes"][i]["season"] # Null => i \in Existing(v, "episodes") /\ v["episodes"][i]["season"] = M["episodes"][i]["season"]
      BY <1>1, <1>2, <1>6, <2>0 DEF Existing, Exists
    <3>3. M["episodes"][i]["season"] # Null => M["episodes"][i]["season"] \in Existing(w, "seasons")
      BY <3>2, <1>10, <1>3, <1>6 DEF Sound
    <3> QED BY <3>1, <3>3, <1>1, <1>2, <1>6, <2>0
  <2>2. CASE i \notin Existing(B, "episodes")
    <3>1. i \in Existing(v, "episodes") /\ i \notin Existing(A, "episodes")
      BY <2>2, <1>2, <1>6
    <3>2. v["episodes"][i]["season"] \in Existing(v, "seasons") /\ v["episodes"][i]["number"] # Null
      BY <3>1, <1>10 DEF Sound
    <3>3. A["episodes"][i]["season"] = Null /\ A["episodes"][i]["number"] = Null
      BY <3>1, <1>4, <1>6, <2>0
    <3>4. w["episodes"][i]["season"] = v["episodes"][i]["season"] /\ w["episodes"][i]["number"] = v["episodes"][i]["number"]
      BY <3>2, <3>3, <1>1, <1>5, <1>6, <2>0
    <3> QED BY <3>2, <3>4, <1>3, <1>6
  <2> QED BY <2>1, <2>2
<1> QED BY <1>7, <1>8 DEF Sound, w

\* The columns in which a job of this kind may change a value.
Follows(kind, t, c) ==
  \/ kind = "watch" /\ c = "jellyfin"
  \/ t = "episodes" /\ <<kind, c>> \in
       {<<"sonarr", "season">>, <<"sonarr", "number">>, <<"jellyfin", "number">>}

\* What a job of this kind may make of v.
Extends(kind, v, w) ==
  /\ IsView(w) /\ Sound(w) /\ Covers(v, w)
  /\ \A t \in Tables : \A i \in Slots[t] : \A c \in Columns[t] :
       v[t][i][c] \in {Null, w[t][i][c]} \/ Follows(kind, t, c)

\* A job that does nothing, and one that does one thing after another.
LEMMA ExtendsItself ==
  ASSUME NEW kind, NEW v, IsView(v), Sound(v)
  PROVE  Extends(kind, v, v)
BY DEF Extends, Covers

LEMMA ExtendsAgain ==
  ASSUME NEW kind, NEW u, NEW v, NEW w, Extends(kind, u, v), Extends(kind, v, w)
  PROVE  Extends(kind, u, w)
<1>1. Covers(u, w)
  BY DEF Extends, Covers
<1>2. ASSUME NEW t \in Tables, NEW i \in Slots[t], NEW c \in Columns[t], ~Follows(kind, t, c)
      PROVE  u[t][i][c] \in {Null, w[t][i][c]}
  <2>1. u[t][i][c] \in {Null, v[t][i][c]} /\ v[t][i][c] \in {Null, w[t][i][c]}
    BY <1>2 DEF Extends
  <2> QED BY <2>1
<1> QED BY <1>1, <1>2 DEF Extends

\* Writing a value into a column that is empty, or that the job may change.
LEMMA PutExtends ==
  ASSUME NEW kind, NEW v, IsView(v), Sound(v), NEW t \in Tables, NEW i \in Existing(v, t),
         NEW c \in Columns[t], NEW x,
         v[t][i][c] = x \/ (x # Null /\ (v[t][i][c] = Null \/ Follows(kind, t, c))),
         ~(t = "seasons" /\ c = "series"),
         t = "episodes" /\ c = "season" => x \in Existing(v, "seasons")
  PROVE  /\ Extends(kind, v, Put(v, t, i, c, x))
         /\ \A u \in Tables : Existing(Put(v, t, i, c, x), u) = Existing(v, u)
<1> DEFINE w == Put(v, t, i, c, x)
<1>0. i \in Slots[t]
  BY DEF Existing
<1>1. IsView(w) /\ \A u \in Tables : \A j \in Slots[u] : \A d \in Columns[u] :
        w[u][j][d] = IF u = t /\ j = i /\ d = c THEN x ELSE v[u][j][d]
  BY <1>0, PutIs
<1> HIDE DEF w
<1>2. Covers(v, w)
  BY <1>1 DEF Covers
<1>3. \A u \in Tables : Existing(w, u) = Existing(v, u)
  <2>1. ASSUME NEW u \in Tables, NEW j \in Existing(w, u)
        PROVE  j \in Existing(v, u)
    <3>1. j \in Slots[u] /\ \E d \in Columns[u] : w[u][j][d] # Null
      BY DEF Existing, Exists
    <3>2. CASE u = t /\ j = i
      BY <3>2
    <3>3. CASE ~(u = t /\ j = i)
      BY <3>1, <3>3, <1>1 DEF Existing, Exists
    <3> QED BY <3>2, <3>3
  <2> QED BY <2>1, <1>2, CoversExisting
<1>4. \A u \in Tables : \A j \in Slots[u] : \A d \in Columns[u] :
        v[u][j][d] \in {Null, w[u][j][d]} \/ Follows(kind, u, d)
  BY <1>1
<1>5. Sound(w)
  <2>1. {"series", "number"} \subseteq Columns["seasons"] /\ {"season", "number"} \subseteq Columns["episodes"] /\ Tables = {"series", "seasons", "episodes"}
    BY TablesAre
  <2>2. ASSUME NEW j \in Existing(v, "seasons")
        PROVE  w["seasons"][j]["series"] \in Existing(v, "series") /\ w["seasons"][j]["number"] # Null
    <3>1. v["seasons"][j]["series"] \in Existing(v, "series") /\ v["seasons"][j]["number"] # Null /\ j \in Slots["seasons"]
      BY DEF Sound, Existing
    <3>2. w["seasons"][j]["series"] = v["seasons"][j]["series"] /\ (w["seasons"][j]["number"] = v["seasons"][j]["number"] \/ (w["seasons"][j]["number"] = x /\ x # Null))
      BY <3>1, <2>1, <1>1
    <3> QED BY <3>1, <3>2
  <2>3. ASSUME NEW j \in Existing(v, "episodes")
        PROVE  w["episodes"][j]["season"] \in Existing(v, "seasons") /\ w["episodes"][j]["number"] # Null
    <3>1. v["episodes"][j]["season"] \in Existing(v, "seasons") /\ v["episodes"][j]["number"] # Null /\ j \in Slots["episodes"]
      BY DEF Sound, Existing
    <3>2. (w["episodes"][j]["number"] = v["episodes"][j]["number"] \/ (w["episodes"][j]["number"] = x /\ x # Null))
      BY <3>1, <2>1, <1>1
    <3>3. w["episodes"][j]["season"] = v["episodes"][j]["season"] \/ (t = "episodes" /\ c = "season" /\ w["episodes"][j]["season"] = x)
      BY <3>1, <2>1, <1>1
    <3> QED BY <3>1, <3>2, <3>3
  <2>4. \A u \in Tables : Existing(w, u) = Existing(v, u)
    BY <1>3
  <2> QED BY <2>1, <2>2, <2>3, <2>4 DEF Sound
<1>6. Extends(kind, v, w)
  BY <1>1, <1>2, <1>4, <1>5 DEF Extends
<1> QED BY <1>3, <1>6 DEF w

\* w is v with one more row.
Inserted(v, w, t, i, row) ==
  /\ IsView(w)
  /\ i \in Slots[t] \ Existing(v, t)
  /\ \A u \in Tables : \A j \in Slots[u] : w[u][j] = IF u = t /\ j = i THEN row ELSE v[u][j]

\* A row that table t may have, next to the rows of v.
Fits(v, t, row) ==
  /\ \E c \in Columns[t] : row[c] # Null
  /\ t = "seasons" => row["series"] \in Existing(v, "series") /\ row["number"] # Null
  /\ t = "episodes" => row["season"] \in Existing(v, "seasons") /\ row["number"] # Null

OneMore(v, w, t, i) ==
  \A u \in Tables : Existing(w, u) = IF u = t THEN Existing(v, u) \cup {i} ELSE Existing(v, u)

\* Adding a row that fits.
LEMMA InsertedExtends ==
  ASSUME NEW kind, NEW v, NEW w, IsView(v), Sound(v), NEW t \in Tables, NEW i, NEW row,
         Inserted(v, w, t, i, row), Fits(v, t, row)
  PROVE  Extends(kind, v, w) /\ OneMore(v, w, t, i)
<1>1. /\ i \in Slots[t] /\ i \notin Existing(v, t)
      /\ \A u \in Tables : \A j \in Slots[u] : w[u][j] = IF u = t /\ j = i THEN row ELSE v[u][j]
  BY DEF Inserted
<1>20. /\ \E c \in Columns[t] : row[c] # Null
       /\ t = "seasons" => row["series"] \in Existing(v, "series") /\ row["number"] # Null
       /\ t = "episodes" => row["season"] \in Existing(v, "seasons") /\ row["number"] # Null
  BY DEF Fits
<1>2. \A c \in Columns[t] : v[t][i][c] = Null
  BY <1>1 DEF Existing, Exists
<1>3. Covers(v, w)
  BY <1>1, <1>2 DEF Covers
<1>4. \A u \in Tables : \A j \in Slots[u] : \A c \in Columns[u] :
        v[u][j][c] \in {Null, w[u][j][c]} \/ Follows(kind, u, c)
  BY <1>1, <1>2
<1>5. \A u \in Tables : \A j \in Slots[u] : j \in Existing(w, u) <=> (u = t /\ j = i) \/ j \in Existing(v, u)
  BY <1>1, <1>20 DEF Existing, Exists
<1>6. \A u \in Tables : Existing(w, u) = IF u = t THEN Existing(v, u) \cup {i} ELSE Existing(v, u)
  <2>1. \A u \in Tables : Existing(w, u) \subseteq Slots[u] /\ Existing(v, u) \subseteq Slots[u]
    BY DEF Existing
  <2> QED BY <1>1, <1>5, <2>1
<1>7. Sound(w)
  <2>1. Tables = {"series", "seasons", "episodes"}
    BY TablesAre
  <2>2. \A u \in Tables : Existing(v, u) \subseteq Existing(w, u)
    BY <1>6
  <2>3. ASSUME NEW j \in Existing(w, "seasons")
        PROVE  w["seasons"][j]["series"] \in Existing(w, "series") /\ w["seasons"][j]["number"] # Null
    <3>1. CASE t = "seasons" /\ j = i
      BY <3>1, <2>1, <2>2, <1>1, <1>20
    <3>2. CASE ~(t = "seasons" /\ j = i)
      <4>1. j \in Existing(v, "seasons") /\ j \in Slots["seasons"]
        BY <3>2, <2>1, <1>5 DEF Existing
      <4>2. w["seasons"][j] = v["seasons"][j]
        BY <4>1, <3>2, <2>1, <1>1
      <4> QED BY <4>1, <4>2, <2>1, <2>2 DEF Sound
    <3> QED BY <3>1, <3>2
  <2>4. ASSUME NEW j \in Existing(w, "episodes")
        PROVE  w["episodes"][j]["season"] \in Existing(w, "seasons") /\ w["episodes"][j]["number"] # Null
    <3>1. CASE t = "episodes" /\ j = i
      BY <3>1, <2>1, <2>2, <1>1, <1>20
    <3>2. CASE ~(t = "episodes" /\ j = i)
      <4>1. j \in Existing(v, "episodes") /\ j \in Slots["episodes"]
        BY <3>2, <2>1, <1>5 DEF Existing
      <4>2. w["episodes"][j] = v["episodes"][j]
        BY <4>1, <3>2, <2>1, <1>1
      <4> QED BY <4>1, <4>2, <2>1, <2>2 DEF Sound
    <3> QED BY <3>1, <3>2
  <2> QED BY <2>3, <2>4 DEF Sound
<1> QED BY <1>3, <1>4, <1>6, <1>7 DEF Extends, Inserted, OneMore

\* The accumulator of a loop.
IsAcc(acc) == {"view", "full", "new"} \subseteq DOMAIN acc

IsRoom(room) == \A t \in Tables : room[t] \subseteq Slots[t]

\* session.add: either there is no room, or a free row id has the new row.
LEMMA AddedIs ==
  ASSUME NEW acc, IsAcc(acc), IsView(acc.view), NEW t \in Tables, NEW values, NEW room, IsRoom(room)
  PROVE  LET b == Added(acc, t, values, room) IN
         /\ DOMAIN b = DOMAIN acc
         /\ \A f \in DOMAIN acc \ {"view", "full", "new"} : b[f] = acc[f]
         /\ \/ b.full = TRUE /\ b.view = acc.view /\ b.new = acc.new
            \/ /\ b.full = acc.full
               /\ b.new \in room[t]
               /\ Inserted(acc.view, b.view, t, b.new, Row(t, values))
<1> DEFINE b == Added(acc, t, values, room)
           free == {i \in room[t] : ~Exists(acc.view, t, i)}
<1>1. CASE free = {}
  <2>1. b = [acc EXCEPT !.full = TRUE]
    BY <1>1 DEF Added
  <2> QED BY <2>1 DEF IsAcc
<1>2. CASE free # {}
  <2> DEFINE i == Min(free)
  <2>1. b = [acc EXCEPT !.view = PutRow(acc.view, t, i, Row(t, values)), !.new = i]
    BY <1>2 DEF Added
  <2>2. i \in free
    <3>1. free \subseteq Nat
      BY SlotsAre DEF IsRoom
    <3> HIDE DEF free
    <3> QED BY <3>1, <1>2, MinIs
  <2>3. i \in Slots[t] \ Existing(acc.view, t) /\ i \in room[t]
    BY <2>2 DEF IsRoom, Existing
  <2> HIDE DEF i
  <2>4. Row(t, values) = [c \in Columns[t] |-> Row(t, values)[c]]
    BY DEF Row
  <2>5. Inserted(acc.view, PutRow(acc.view, t, i, Row(t, values)), t, i, Row(t, values))
    BY <2>3, <2>4, PutRowIs DEF Inserted
  <2>6. /\ DOMAIN b = DOMAIN acc
        /\ \A f \in DOMAIN acc \ {"view", "full", "new"} : b[f] = acc[f]
        /\ b.full = acc.full /\ b.new = i /\ b.view = PutRow(acc.view, t, i, Row(t, values))
    BY <2>1 DEF IsAcc
  <2> QED BY <2>3, <2>5, <2>6
<1> QED BY <1>1, <1>2

\* The rows that the jobs create, column by column.
LEMMA RowsAre ==
  /\ \A s, n : LET row == Row("seasons", [series |-> s, number |-> n]) IN
       row["series"] = s /\ row["number"] = n /\ row["jellyfin"] = Null /\ row["tmdb"] = Null
  /\ \A s, n, x : LET row == Row("seasons", [series |-> s, number |-> n, jellyfin |-> x]) IN
       row["series"] = s /\ row["number"] = n /\ row["jellyfin"] = x /\ row["tmdb"] = Null
  /\ \A p, n, x : LET row == Row("episodes", [season |-> p, number |-> n, sonarr |-> x]) IN
       row["season"] = p /\ row["number"] = n /\ row["sonarr"] = x /\ row["jellyfin"] = Null /\ row["tmdb"] = Null
  /\ \A p, n, x : LET row == Row("episodes", [season |-> p, number |-> n, jellyfin |-> x]) IN
       row["season"] = p /\ row["number"] = n /\ row["sonarr"] = Null /\ row["jellyfin"] = x /\ row["tmdb"] = Null
  /\ \A p, n, x : LET row == Row("episodes", [season |-> p, number |-> n, tmdb |-> x]) IN
       row["season"] = p /\ row["number"] = n /\ row["sonarr"] = Null /\ row["jellyfin"] = Null /\ row["tmdb"] = x
<1>1. \A s, n : DOMAIN [series |-> s, number |-> n] = {"series", "number"}
  OBVIOUS
<1>2. \A s, n, x : DOMAIN [series |-> s, number |-> n, jellyfin |-> x] = {"series", "number", "jellyfin"}
  OBVIOUS
<1>3. \A p, n, x : DOMAIN [season |-> p, number |-> n, sonarr |-> x] = {"season", "number", "sonarr"}
  OBVIOUS
<1>4. \A p, n, x : DOMAIN [season |-> p, number |-> n, jellyfin |-> x] = {"season", "number", "jellyfin"}
  OBVIOUS
<1>5. \A p, n, x : DOMAIN [season |-> p, number |-> n, tmdb |-> x] = {"season", "number", "tmdb"}
  OBVIOUS
<1>6. \A s, n : LET row == Row("seasons", [series |-> s, number |-> n]) IN
       row["series"] = s /\ row["number"] = n /\ row["jellyfin"] = Null /\ row["tmdb"] = Null
  BY <1>1, TablesAre DEF Row
<1>7. \A s, n, x : LET row == Row("seasons", [series |-> s, number |-> n, jellyfin |-> x]) IN
       row["series"] = s /\ row["number"] = n /\ row["jellyfin"] = x /\ row["tmdb"] = Null
  BY <1>2, TablesAre DEF Row
<1>8. \A p, n, x : LET row == Row("episodes", [season |-> p, number |-> n, sonarr |-> x]) IN
       row["season"] = p /\ row["number"] = n /\ row["sonarr"] = x /\ row["jellyfin"] = Null /\ row["tmdb"] = Null
  BY <1>3, TablesAre DEF Row
<1>9. \A p, n, x : LET row == Row("episodes", [season |-> p, number |-> n, jellyfin |-> x]) IN
       row["season"] = p /\ row["number"] = n /\ row["sonarr"] = Null /\ row["jellyfin"] = x /\ row["tmdb"] = Null
  BY <1>4, TablesAre DEF Row
<1>10. \A p, n, x : LET row == Row("episodes", [season |-> p, number |-> n, tmdb |-> x]) IN
       row["season"] = p /\ row["number"] = n /\ row["sonarr"] = Null /\ row["jellyfin"] = Null /\ row["tmdb"] = x
  BY <1>5, TablesAre DEF Row
<1> QED BY <1>6, <1>7, <1>8, <1>9, <1>10

\* Each loop, a recursive function, unfolds: what it begins with, and each turn.
LEMMA SeasonTurnsAre ==
  ASSUME NEW view, NEW s, NEW numbers, NEW room, Len(numbers) \in Nat
  PROVE  LET t == SeasonTurns(view, s, numbers, room) IN
         /\ t[0] = Bare(view)
         /\ \A n \in 1..Len(numbers) : t[n] = Added(t[n - 1], "seasons", [series |-> s, number |-> numbers[n]], room)
<1> DEFINE N == Len(numbers)
           base == Bare(view)
           Step(a, n) == Added(a, "seasons", [series |-> s, number |-> numbers[n]], room)
           Body(f) == [n \in 0..N |-> IF n = 0 THEN base ELSE Step(f[n - 1], n)]
           t == SeasonTurns(view, s, numbers, room)
           Upto(f, m) == /\ f = [n \in 0..m |-> f[n]] /\ f[0] = base
                         /\ \A n \in 1..m : f[n] = Step(f[n - 1], n)
           S == {m \in 0..N : \E f : Upto(f, m)}
<1>1. t = CHOOSE f : f = Body(f)
  BY DEF SeasonTurns
<1>2. N \in Nat
  OBVIOUS
<1> HIDE DEF N, base, Step, t
<1>3. 0 \in S
  <2> DEFINE g == [n \in 0..0 |-> base]
  <2>1. g = [n \in 0..0 |-> g[n]] /\ g[0] = base
    OBVIOUS
  <2> HIDE DEF g
  <2>2. Upto(g, 0)
    BY <2>1
  <2> HIDE DEF Upto
  <2> QED BY <1>2, <2>2
<1>4. ASSUME NEW m \in 1..N, m - 1 \in S
      PROVE  m \in S
  <2>1. PICK f : Upto(f, m - 1)
    BY <1>4
  <2> DEFINE g == [n \in 0..m |-> IF n = m THEN Step(f[m - 1], m) ELSE f[n]]
  <2>4. /\ g = [n \in 0..m |-> g[n]] /\ 0 \in 0..m /\ m \in 0..m /\ m # 0
        /\ \A n \in 0..m : g[n] = IF n = m THEN Step(f[m - 1], m) ELSE f[n]
    BY <1>2
  <2> HIDE DEF g
  <2>5. g[0] = base
    BY <2>1, <2>4
  <2>6. ASSUME NEW n \in 1..m
        PROVE  g[n] = Step(g[n - 1], n)
    <3>1. n \in 0..m /\ n - 1 \in 0..m /\ n - 1 # m
      BY <1>2
    <3>2. CASE n = m
      BY <3>1, <3>2, <2>4
    <3>3. CASE n # m
      <4>1. n \in 1..(m - 1)
        BY <1>2, <3>3
      <4> QED BY <3>1, <3>3, <4>1, <2>1, <2>4
    <3> QED BY <3>2, <3>3
  <2>2. Upto(g, m)
    BY <2>4, <2>5, <2>6
  <2> HIDE DEF Upto
  <2>3. m \in 0..N
    BY <1>2
  <2> QED BY <2>2, <2>3
<1>5. PICK f : Upto(f, N)
  <2> HIDE DEF S
  <2>1. \A m \in 0..N : m \in S
    BY <1>2, <1>3, <1>4, EveryTurn
  <2>2. N \in S
    BY <1>2, <2>1
  <2> QED BY <2>2 DEF S
<1>6. f = Body(f)
  BY <1>2, <1>5
<1>7. t = Body(t)
  <2> HIDE DEF Body
  <2> QED BY <1>1, <1>6
<1>8. t[0] = base /\ \A n \in 1..N : t[n] = Step(t[n - 1], n)
  BY <1>2, <1>7
<1> QED BY <1>8 DEF N, base, Step, t

LEMMA SonarrTurnsAre ==
  ASSUME NEW view, NEW seasons, NEW episodes, NEW room, Len(episodes) \in Nat
  PROVE  LET t == SonarrTurns(view, seasons, episodes, room) IN
         /\ t[0] = Bare(view)
         /\ \A n \in 1..Len(episodes) : t[n] = SonarrEpisode(t[n - 1], episodes[n], seasons, room)
<1> DEFINE N == Len(episodes)
           base == Bare(view)
           Step(a, n) == SonarrEpisode(a, episodes[n], seasons, room)
           Body(f) == [n \in 0..N |-> IF n = 0 THEN base ELSE Step(f[n - 1], n)]
           t == SonarrTurns(view, seasons, episodes, room)
           Upto(f, m) == /\ f = [n \in 0..m |-> f[n]] /\ f[0] = base
                         /\ \A n \in 1..m : f[n] = Step(f[n - 1], n)
           S == {m \in 0..N : \E f : Upto(f, m)}
<1>1. t = CHOOSE f : f = Body(f)
  BY DEF SonarrTurns
<1>2. N \in Nat
  OBVIOUS
<1> HIDE DEF N, base, Step, t
<1>3. 0 \in S
  <2> DEFINE g == [n \in 0..0 |-> base]
  <2>1. g = [n \in 0..0 |-> g[n]] /\ g[0] = base
    OBVIOUS
  <2> HIDE DEF g
  <2>2. Upto(g, 0)
    BY <2>1
  <2> HIDE DEF Upto
  <2> QED BY <1>2, <2>2
<1>4. ASSUME NEW m \in 1..N, m - 1 \in S
      PROVE  m \in S
  <2>1. PICK f : Upto(f, m - 1)
    BY <1>4
  <2> DEFINE g == [n \in 0..m |-> IF n = m THEN Step(f[m - 1], m) ELSE f[n]]
  <2>4. /\ g = [n \in 0..m |-> g[n]] /\ 0 \in 0..m /\ m \in 0..m /\ m # 0
        /\ \A n \in 0..m : g[n] = IF n = m THEN Step(f[m - 1], m) ELSE f[n]
    BY <1>2
  <2> HIDE DEF g
  <2>5. g[0] = base
    BY <2>1, <2>4
  <2>6. ASSUME NEW n \in 1..m
        PROVE  g[n] = Step(g[n - 1], n)
    <3>1. n \in 0..m /\ n - 1 \in 0..m /\ n - 1 # m
      BY <1>2
    <3>2. CASE n = m
      BY <3>1, <3>2, <2>4
    <3>3. CASE n # m
      <4>1. n \in 1..(m - 1)
        BY <1>2, <3>3
      <4> QED BY <3>1, <3>3, <4>1, <2>1, <2>4
    <3> QED BY <3>2, <3>3
  <2>2. Upto(g, m)
    BY <2>4, <2>5, <2>6
  <2> HIDE DEF Upto
  <2>3. m \in 0..N
    BY <1>2
  <2> QED BY <2>2, <2>3
<1>5. PICK f : Upto(f, N)
  <2> HIDE DEF S
  <2>1. \A m \in 0..N : m \in S
    BY <1>2, <1>3, <1>4, EveryTurn
  <2>2. N \in S
    BY <1>2, <2>1
  <2> QED BY <2>2 DEF S
<1>6. f = Body(f)
  BY <1>2, <1>5
<1>7. t = Body(t)
  <2> HIDE DEF Body
  <2> QED BY <1>1, <1>6
<1>8. t[0] = base /\ \A n \in 1..N : t[n] = Step(t[n - 1], n)
  BY <1>2, <1>7
<1> QED BY <1>8 DEF N, base, Step, t

LEMMA JellyfinTurnsAre ==
  ASSUME NEW view, NEW s, NEW episodes, NEW late, NEW room, Len(episodes) \in Nat
  PROVE  LET t == JellyfinTurns(view, s, episodes, late, room) IN
         /\ t[0] = JellyfinIndexes(view, s, late)
         /\ \A n \in 1..Len(episodes) : t[n] = JellyfinEpisode(t[n - 1], s, episodes[n], room)
<1> DEFINE N == Len(episodes)
           base == JellyfinIndexes(view, s, late)
           Step(a, n) == JellyfinEpisode(a, s, episodes[n], room)
           Body(f) == [n \in 0..N |-> IF n = 0 THEN base ELSE Step(f[n - 1], n)]
           t == JellyfinTurns(view, s, episodes, late, room)
           Upto(f, m) == /\ f = [n \in 0..m |-> f[n]] /\ f[0] = base
                         /\ \A n \in 1..m : f[n] = Step(f[n - 1], n)
           S == {m \in 0..N : \E f : Upto(f, m)}
<1>1. t = CHOOSE f : f = Body(f)
  BY DEF JellyfinTurns
<1>2. N \in Nat
  OBVIOUS
<1> HIDE DEF N, base, Step, t
<1>3. 0 \in S
  <2> DEFINE g == [n \in 0..0 |-> base]
  <2>1. g = [n \in 0..0 |-> g[n]] /\ g[0] = base
    OBVIOUS
  <2> HIDE DEF g
  <2>2. Upto(g, 0)
    BY <2>1
  <2> HIDE DEF Upto
  <2> QED BY <1>2, <2>2
<1>4. ASSUME NEW m \in 1..N, m - 1 \in S
      PROVE  m \in S
  <2>1. PICK f : Upto(f, m - 1)
    BY <1>4
  <2> DEFINE g == [n \in 0..m |-> IF n = m THEN Step(f[m - 1], m) ELSE f[n]]
  <2>4. /\ g = [n \in 0..m |-> g[n]] /\ 0 \in 0..m /\ m \in 0..m /\ m # 0
        /\ \A n \in 0..m : g[n] = IF n = m THEN Step(f[m - 1], m) ELSE f[n]
    BY <1>2
  <2> HIDE DEF g
  <2>5. g[0] = base
    BY <2>1, <2>4
  <2>6. ASSUME NEW n \in 1..m
        PROVE  g[n] = Step(g[n - 1], n)
    <3>1. n \in 0..m /\ n - 1 \in 0..m /\ n - 1 # m
      BY <1>2
    <3>2. CASE n = m
      BY <3>1, <3>2, <2>4
    <3>3. CASE n # m
      <4>1. n \in 1..(m - 1)
        BY <1>2, <3>3
      <4> QED BY <3>1, <3>3, <4>1, <2>1, <2>4
    <3> QED BY <3>2, <3>3
  <2>2. Upto(g, m)
    BY <2>4, <2>5, <2>6
  <2> HIDE DEF Upto
  <2>3. m \in 0..N
    BY <1>2
  <2> QED BY <2>2, <2>3
<1>5. PICK f : Upto(f, N)
  <2> HIDE DEF S
  <2>1. \A m \in 0..N : m \in S
    BY <1>2, <1>3, <1>4, EveryTurn
  <2>2. N \in S
    BY <1>2, <2>1
  <2> QED BY <2>2 DEF S
<1>6. f = Body(f)
  BY <1>2, <1>5
<1>7. t = Body(t)
  <2> HIDE DEF Body
  <2> QED BY <1>1, <1>6
<1>8. t[0] = base /\ \A n \in 1..N : t[n] = Step(t[n - 1], n)
  BY <1>2, <1>7
<1> QED BY <1>8 DEF N, base, Step, t

LEMMA EpisodeTurnsAre ==
  ASSUME NEW before, NEW season, NEW episodes, NEW late, NEW room, Len(episodes) \in Nat
  PROVE  LET t == EpisodeTurns(before, season, episodes, late, room) IN
         /\ t[0] = before
         /\ \A n \in 1..Len(episodes) : t[n] = TmdbEpisode(before.view, t[n - 1], season, episodes[n], late, room)
<1> DEFINE N == Len(episodes)
           base == before
           Step(a, n) == TmdbEpisode(before.view, a, season, episodes[n], late, room)
           Body(f) == [n \in 0..N |-> IF n = 0 THEN base ELSE Step(f[n - 1], n)]
           t == EpisodeTurns(before, season, episodes, late, room)
           Upto(f, m) == /\ f = [n \in 0..m |-> f[n]] /\ f[0] = base
                         /\ \A n \in 1..m : f[n] = Step(f[n - 1], n)
           S == {m \in 0..N : \E f : Upto(f, m)}
<1>1. t = CHOOSE f : f = Body(f)
  BY DEF EpisodeTurns
<1>2. N \in Nat
  OBVIOUS
<1> HIDE DEF N, base, Step, t
<1>3. 0 \in S
  <2> DEFINE g == [n \in 0..0 |-> base]
  <2>1. g = [n \in 0..0 |-> g[n]] /\ g[0] = base
    OBVIOUS
  <2> HIDE DEF g
  <2>2. Upto(g, 0)
    BY <2>1
  <2> HIDE DEF Upto
  <2> QED BY <1>2, <2>2
<1>4. ASSUME NEW m \in 1..N, m - 1 \in S
      PROVE  m \in S
  <2>1. PICK f : Upto(f, m - 1)
    BY <1>4
  <2> DEFINE g == [n \in 0..m |-> IF n = m THEN Step(f[m - 1], m) ELSE f[n]]
  <2>4. /\ g = [n \in 0..m |-> g[n]] /\ 0 \in 0..m /\ m \in 0..m /\ m # 0
        /\ \A n \in 0..m : g[n] = IF n = m THEN Step(f[m - 1], m) ELSE f[n]
    BY <1>2
  <2> HIDE DEF g
  <2>5. g[0] = base
    BY <2>1, <2>4
  <2>6. ASSUME NEW n \in 1..m
        PROVE  g[n] = Step(g[n - 1], n)
    <3>1. n \in 0..m /\ n - 1 \in 0..m /\ n - 1 # m
      BY <1>2
    <3>2. CASE n = m
      BY <3>1, <3>2, <2>4
    <3>3. CASE n # m
      <4>1. n \in 1..(m - 1)
        BY <1>2, <3>3
      <4> QED BY <3>1, <3>3, <4>1, <2>1, <2>4
    <3> QED BY <3>2, <3>3
  <2>2. Upto(g, m)
    BY <2>4, <2>5, <2>6
  <2> HIDE DEF Upto
  <2>3. m \in 0..N
    BY <1>2
  <2> QED BY <2>2, <2>3
<1>5. PICK f : Upto(f, N)
  <2> HIDE DEF S
  <2>1. \A m \in 0..N : m \in S
    BY <1>2, <1>3, <1>4, EveryTurn
  <2>2. N \in S
    BY <1>2, <2>1
  <2> QED BY <2>2 DEF S
<1>6. f = Body(f)
  BY <1>2, <1>5
<1>7. t = Body(t)
  <2> HIDE DEF Body
  <2> QED BY <1>1, <1>6
<1>8. t[0] = base /\ \A n \in 1..N : t[n] = Step(t[n - 1], n)
  BY <1>2, <1>7
<1> QED BY <1>8 DEF N, base, Step, t

LEMMA PayloadTurnsAre ==
  ASSUME NEW before, NEW s, NEW payload, NEW seen, NEW late, NEW room, Len(payload) \in Nat
  PROVE  LET t == PayloadTurns(before, s, payload, seen, late, room) IN
         /\ t[0] = [before EXCEPT !.left = FALSE]
         /\ \A n \in 1..Len(payload) : t[n] = TmdbSeason(t[n - 1], s, payload[n], seen, late, room)
<1> DEFINE N == Len(payload)
           base == [before EXCEPT !.left = FALSE]
           Step(a, n) == TmdbSeason(a, s, payload[n], seen, late, room)
           Body(f) == [n \in 0..N |-> IF n = 0 THEN base ELSE Step(f[n - 1], n)]
           t == PayloadTurns(before, s, payload, seen, late, room)
           Upto(f, m) == /\ f = [n \in 0..m |-> f[n]] /\ f[0] = base
                         /\ \A n \in 1..m : f[n] = Step(f[n - 1], n)
           S == {m \in 0..N : \E f : Upto(f, m)}
<1>1. t = CHOOSE f : f = Body(f)
  BY DEF PayloadTurns
<1>2. N \in Nat
  OBVIOUS
<1> HIDE DEF N, base, Step, t
<1>3. 0 \in S
  <2> DEFINE g == [n \in 0..0 |-> base]
  <2>1. g = [n \in 0..0 |-> g[n]] /\ g[0] = base
    OBVIOUS
  <2> HIDE DEF g
  <2>2. Upto(g, 0)
    BY <2>1
  <2> HIDE DEF Upto
  <2> QED BY <1>2, <2>2
<1>4. ASSUME NEW m \in 1..N, m - 1 \in S
      PROVE  m \in S
  <2>1. PICK f : Upto(f, m - 1)
    BY <1>4
  <2> DEFINE g == [n \in 0..m |-> IF n = m THEN Step(f[m - 1], m) ELSE f[n]]
  <2>4. /\ g = [n \in 0..m |-> g[n]] /\ 0 \in 0..m /\ m \in 0..m /\ m # 0
        /\ \A n \in 0..m : g[n] = IF n = m THEN Step(f[m - 1], m) ELSE f[n]
    BY <1>2
  <2> HIDE DEF g
  <2>5. g[0] = base
    BY <2>1, <2>4
  <2>6. ASSUME NEW n \in 1..m
        PROVE  g[n] = Step(g[n - 1], n)
    <3>1. n \in 0..m /\ n - 1 \in 0..m /\ n - 1 # m
      BY <1>2
    <3>2. CASE n = m
      BY <3>1, <3>2, <2>4
    <3>3. CASE n # m
      <4>1. n \in 1..(m - 1)
        BY <1>2, <3>3
      <4> QED BY <3>1, <3>3, <4>1, <2>1, <2>4
    <3> QED BY <3>2, <3>3
  <2>2. Upto(g, m)
    BY <2>4, <2>5, <2>6
  <2> HIDE DEF Upto
  <2>3. m \in 0..N
    BY <1>2
  <2> QED BY <2>2, <2>3
<1>5. PICK f : Upto(f, N)
  <2> HIDE DEF S
  <2>1. \A m \in 0..N : m \in S
    BY <1>2, <1>3, <1>4, EveryTurn
  <2>2. N \in S
    BY <1>2, <2>1
  <2> QED BY <2>2 DEF S
<1>6. f = Body(f)
  BY <1>2, <1>5
<1>7. t = Body(t)
  <2> HIDE DEF Body
  <2> QED BY <1>1, <1>6
<1>8. t[0] = base /\ \A n \in 1..N : t[n] = Step(t[n - 1], n)
  BY <1>2, <1>7
<1> QED BY <1>8 DEF N, base, Step, t

LEMMA TmdbTurnsAre ==
  ASSUME NEW seen, NEW payload, NEW order, NEW late, NEW room, Len(order) \in Nat
  PROVE  LET t == TmdbTurns(seen, payload, order, late, room) IN
         /\ t[0] = [view |-> seen, full |-> FALSE, new |-> 0, left |-> FALSE, hurt |-> {}]
         /\ \A n \in 1..Len(order) : t[n] = TmdbSeries(t[n - 1], order[n], payload[order[n]], seen, late, room)
<1> DEFINE N == Len(order)
           base == [view |-> seen, full |-> FALSE, new |-> 0, left |-> FALSE, hurt |-> {}]
           Step(a, n) == TmdbSeries(a, order[n], payload[order[n]], seen, late, room)
           Body(f) == [n \in 0..N |-> IF n = 0 THEN base ELSE Step(f[n - 1], n)]
           t == TmdbTurns(seen, payload, order, late, room)
           Upto(f, m) == /\ f = [n \in 0..m |-> f[n]] /\ f[0] = base
                         /\ \A n \in 1..m : f[n] = Step(f[n - 1], n)
           S == {m \in 0..N : \E f : Upto(f, m)}
<1>1. t = CHOOSE f : f = Body(f)
  BY DEF TmdbTurns
<1>2. N \in Nat
  OBVIOUS
<1> HIDE DEF N, base, Step, t
<1>3. 0 \in S
  <2> DEFINE g == [n \in 0..0 |-> base]
  <2>1. g = [n \in 0..0 |-> g[n]] /\ g[0] = base
    OBVIOUS
  <2> HIDE DEF g
  <2>2. Upto(g, 0)
    BY <2>1
  <2> HIDE DEF Upto
  <2> QED BY <1>2, <2>2
<1>4. ASSUME NEW m \in 1..N, m - 1 \in S
      PROVE  m \in S
  <2>1. PICK f : Upto(f, m - 1)
    BY <1>4
  <2> DEFINE g == [n \in 0..m |-> IF n = m THEN Step(f[m - 1], m) ELSE f[n]]
  <2>4. /\ g = [n \in 0..m |-> g[n]] /\ 0 \in 0..m /\ m \in 0..m /\ m # 0
        /\ \A n \in 0..m : g[n] = IF n = m THEN Step(f[m - 1], m) ELSE f[n]
    BY <1>2
  <2> HIDE DEF g
  <2>5. g[0] = base
    BY <2>1, <2>4
  <2>6. ASSUME NEW n \in 1..m
        PROVE  g[n] = Step(g[n - 1], n)
    <3>1. n \in 0..m /\ n - 1 \in 0..m /\ n - 1 # m
      BY <1>2
    <3>2. CASE n = m
      BY <3>1, <3>2, <2>4
    <3>3. CASE n # m
      <4>1. n \in 1..(m - 1)
        BY <1>2, <3>3
      <4> QED BY <3>1, <3>3, <4>1, <2>1, <2>4
    <3> QED BY <3>2, <3>3
  <2>2. Upto(g, m)
    BY <2>4, <2>5, <2>6
  <2> HIDE DEF Upto
  <2>3. m \in 0..N
    BY <1>2
  <2> QED BY <2>2, <2>3
<1>5. PICK f : Upto(f, N)
  <2> HIDE DEF S
  <2>1. \A m \in 0..N : m \in S
    BY <1>2, <1>3, <1>4, EveryTurn
  <2>2. N \in S
    BY <1>2, <2>1
  <2> QED BY <2>2 DEF S
<1>6. f = Body(f)
  BY <1>2, <1>5
<1>7. t = Body(t)
  <2> HIDE DEF Body
  <2> QED BY <1>1, <1>6
<1>8. t[0] = base /\ \A n \in 1..N : t[n] = Step(t[n - 1], n)
  BY <1>2, <1>7
<1> QED BY <1>8 DEF N, base, Step, t

LEMMA HealTurnsAre ==
  ASSUME NEW seen, NEW listing, NEW order, Len(order) \in Nat
  PROVE  LET t == HealTurns(seen, listing, order) IN
         /\ t[0] = [view |-> seen, of |-> <<>>,
              byId |-> [x \in {seen.series[s].jellyfin : s \in Slots.series} \ {Null} |->
                          Min(With(seen, "series", "jellyfin", x))]]
         /\ \A n \in 1..Len(order) : t[n] = HealedSeries(seen, listing, t[n - 1], order[n])
<1> DEFINE N == Len(order)
           base == [view |-> seen, of |-> <<>>,
              byId |-> [x \in {seen.series[s].jellyfin : s \in Slots.series} \ {Null} |->
                          Min(With(seen, "series", "jellyfin", x))]]
           Step(a, n) == HealedSeries(seen, listing, a, order[n])
           Body(f) == [n \in 0..N |-> IF n = 0 THEN base ELSE Step(f[n - 1], n)]
           t == HealTurns(seen, listing, order)
           Upto(f, m) == /\ f = [n \in 0..m |-> f[n]] /\ f[0] = base
                         /\ \A n \in 1..m : f[n] = Step(f[n - 1], n)
           S == {m \in 0..N : \E f : Upto(f, m)}
<1>1. t = CHOOSE f : f = Body(f)
  BY DEF HealTurns
<1>2. N \in Nat
  OBVIOUS
<1> HIDE DEF N, base, Step, t
<1>3. 0 \in S
  <2> DEFINE g == [n \in 0..0 |-> base]
  <2>1. g = [n \in 0..0 |-> g[n]] /\ g[0] = base
    OBVIOUS
  <2> HIDE DEF g
  <2>2. Upto(g, 0)
    BY <2>1
  <2> HIDE DEF Upto
  <2> QED BY <1>2, <2>2
<1>4. ASSUME NEW m \in 1..N, m - 1 \in S
      PROVE  m \in S
  <2>1. PICK f : Upto(f, m - 1)
    BY <1>4
  <2> DEFINE g == [n \in 0..m |-> IF n = m THEN Step(f[m - 1], m) ELSE f[n]]
  <2>4. /\ g = [n \in 0..m |-> g[n]] /\ 0 \in 0..m /\ m \in 0..m /\ m # 0
        /\ \A n \in 0..m : g[n] = IF n = m THEN Step(f[m - 1], m) ELSE f[n]
    BY <1>2
  <2> HIDE DEF g
  <2>5. g[0] = base
    BY <2>1, <2>4
  <2>6. ASSUME NEW n \in 1..m
        PROVE  g[n] = Step(g[n - 1], n)
    <3>1. n \in 0..m /\ n - 1 \in 0..m /\ n - 1 # m
      BY <1>2
    <3>2. CASE n = m
      BY <3>1, <3>2, <2>4
    <3>3. CASE n # m
      <4>1. n \in 1..(m - 1)
        BY <1>2, <3>3
      <4> QED BY <3>1, <3>3, <4>1, <2>1, <2>4
    <3> QED BY <3>2, <3>3
  <2>2. Upto(g, m)
    BY <2>4, <2>5, <2>6
  <2> HIDE DEF Upto
  <2>3. m \in 0..N
    BY <1>2
  <2> QED BY <2>2, <2>3
<1>5. PICK f : Upto(f, N)
  <2> HIDE DEF S
  <2>1. \A m \in 0..N : m \in S
    BY <1>2, <1>3, <1>4, EveryTurn
  <2>2. N \in S
    BY <1>2, <2>1
  <2> QED BY <2>2 DEF S
<1>6. f = Body(f)
  BY <1>2, <1>5
<1>7. t = Body(t)
  <2> HIDE DEF Body
  <2> QED BY <1>1, <1>6
<1>8. t[0] = base /\ \A n \in 1..N : t[n] = Step(t[n - 1], n)
  BY <1>2, <1>7
<1> QED BY <1>8 DEF N, base, Step, t

LEMMA ItemTurnsAre ==
  ASSUME NEW healed, NEW items, NEW late, NEW loaded, NEW pick, Len(items) \in Nat
  PROVE  LET t == ItemTurns(healed, items, late, loaded, pick) IN
         /\ t[0] = BeforeItems(healed, loaded, pick)
         /\ \A n \in 1..Len(items) : t[n] = Processed(pick, late, t[n - 1], items[n])
<1> DEFINE N == Len(items)
           base == BeforeItems(healed, loaded, pick)
           Step(a, n) == Processed(pick, late, a, items[n])
           Body(f) == [n \in 0..N |-> IF n = 0 THEN base ELSE Step(f[n - 1], n)]
           t == ItemTurns(healed, items, late, loaded, pick)
           Upto(f, m) == /\ f = [n \in 0..m |-> f[n]] /\ f[0] = base
                         /\ \A n \in 1..m : f[n] = Step(f[n - 1], n)
           S == {m \in 0..N : \E f : Upto(f, m)}
<1>1. t = CHOOSE f : f = Body(f)
  BY DEF ItemTurns
<1>2. N \in Nat
  OBVIOUS
<1> HIDE DEF N, base, Step, t
<1>3. 0 \in S
  <2> DEFINE g == [n \in 0..0 |-> base]
  <2>1. g = [n \in 0..0 |-> g[n]] /\ g[0] = base
    OBVIOUS
  <2> HIDE DEF g
  <2>2. Upto(g, 0)
    BY <2>1
  <2> HIDE DEF Upto
  <2> QED BY <1>2, <2>2
<1>4. ASSUME NEW m \in 1..N, m - 1 \in S
      PROVE  m \in S
  <2>1. PICK f : Upto(f, m - 1)
    BY <1>4
  <2> DEFINE g == [n \in 0..m |-> IF n = m THEN Step(f[m - 1], m) ELSE f[n]]
  <2>4. /\ g = [n \in 0..m |-> g[n]] /\ 0 \in 0..m /\ m \in 0..m /\ m # 0
        /\ \A n \in 0..m : g[n] = IF n = m THEN Step(f[m - 1], m) ELSE f[n]
    BY <1>2
  <2> HIDE DEF g
  <2>5. g[0] = base
    BY <2>1, <2>4
  <2>6. ASSUME NEW n \in 1..m
        PROVE  g[n] = Step(g[n - 1], n)
    <3>1. n \in 0..m /\ n - 1 \in 0..m /\ n - 1 # m
      BY <1>2
    <3>2. CASE n = m
      BY <3>1, <3>2, <2>4
    <3>3. CASE n # m
      <4>1. n \in 1..(m - 1)
        BY <1>2, <3>3
      <4> QED BY <3>1, <3>3, <4>1, <2>1, <2>4
    <3> QED BY <3>2, <3>3
  <2>2. Upto(g, m)
    BY <2>4, <2>5, <2>6
  <2> HIDE DEF Upto
  <2>3. m \in 0..N
    BY <1>2
  <2> QED BY <2>2, <2>3
<1>5. PICK f : Upto(f, N)
  <2> HIDE DEF S
  <2>1. \A m \in 0..N : m \in S
    BY <1>2, <1>3, <1>4, EveryTurn
  <2>2. N \in S
    BY <1>2, <2>1
  <2> QED BY <2>2 DEF S
<1>6. f = Body(f)
  BY <1>2, <1>5
<1>7. t = Body(t)
  <2> HIDE DEF Body
  <2> QED BY <1>1, <1>6
<1>8. t[0] = base /\ \A n \in 1..N : t[n] = Step(t[n - 1], n)
  BY <1>2, <1>7
<1> QED BY <1>8 DEF N, base, Step, t

\* What a query returns last, or first, of some rows is one of them.
LEMMA LastIs ==
  ASSUME NEW t \in Tables, NEW S, S \subseteq Slots[t], S # {}, NEW late
  PROVE  LastOf(S, late) \in S
<1>1. PICK n \in Nat : Slots[t] \subseteq 1..n
  BY SlotsAre
<1>2. S \cap late = {} => Max(S) \in S
  BY <1>1, MaxIs
<1>3. S \cap late # {} => Max(S \cap late) \in S
  <2>1. S \cap late # {} => Max(S \cap late) \in S \cap late
    BY <1>1, MaxIs
  <2> QED BY <2>1
<1> QED BY <1>2, <1>3 DEF LastOf

LEMMA FirstIs ==
  ASSUME NEW t \in Tables, NEW S, S \subseteq Slots[t], S # {}
  PROVE  Min(S) \in S
BY SlotsAre, MinIs

\* Rows with a value in a column exist and have that value.
LEMMA WithIs ==
  ASSUME NEW v, NEW t \in Tables, NEW c \in Columns[t], NEW x
  PROVE  /\ With(v, t, c, x) \subseteq Existing(v, t)
         /\ With(v, t, c, x) \subseteq Slots[t]
         /\ \A i \in With(v, t, c, x) : x # Null /\ v[t][i][c] = x
BY DEF With, Existing, Exists

\* The seasons of a series, the episodes of a season, with a number.
LEMMA NumberedAre ==
  ASSUME NEW v, NEW p, NEW n
  PROVE  /\ NumberedSeasons(v, p, n) =
              {i \in Slots["seasons"] : p # Null /\ v["seasons"][i]["series"] = p /\ v["seasons"][i]["number"] = n}
         /\ NumberedEpisodes(v, p, n) =
              {i \in Slots["episodes"] : p # Null /\ v["episodes"][i]["season"] = p /\ v["episodes"][i]["number"] = n}
         /\ NumberedSeasons(v, p, n) \subseteq Existing(v, "seasons")
         /\ NumberedEpisodes(v, p, n) \subseteq Existing(v, "episodes")
<1>1. "series" \in Columns["seasons"] /\ "season" \in Columns["episodes"] /\ "seasons" \in Tables /\ "episodes" \in Tables
  BY TablesAre
<1>2. /\ NumberedSeasons(v, p, n) =
              {i \in Slots["seasons"] : p # Null /\ v["seasons"][i]["series"] = p /\ v["seasons"][i]["number"] = n}
      /\ NumberedEpisodes(v, p, n) =
              {i \in Slots["episodes"] : p # Null /\ v["episodes"][i]["season"] = p /\ v["episodes"][i]["number"] = n}
  BY DEF NumberedSeasons, NumberedEpisodes, Numbered, With
<1> QED BY <1>1, <1>2 DEF Existing, Exists

\* A dictionary of seasons by number.
IsSeasons(v, seasons) == \A n \in DOMAIN seasons : seasons[n] \in Existing(v, "seasons")

\* The dictionary of a query: for every number that a season has, one such season.
LEMMA SeasonsByNumberAre ==
  ASSUME NEW v, NEW s, NEW late
  PROVE  LET seasons == SeasonsByNumber(v, s, late) IN
         /\ DOMAIN seasons = {v["seasons"][i]["number"] : i \in SeasonsOf(v, s)}
         /\ \A n \in DOMAIN seasons : /\ NumberedSeasons(v, s, n) # {}
                                      /\ seasons[n] = LastOf(NumberedSeasons(v, s, n), late)
                                      /\ seasons[n] \in NumberedSeasons(v, s, n)
         /\ \A n : NumberedSeasons(v, s, n) # {} => n \in DOMAIN seasons
         /\ IsSeasons(v, seasons)
<1> DEFINE seasons == SeasonsByNumber(v, s, late)
<1>1. /\ DOMAIN seasons = {v["seasons"][i]["number"] : i \in SeasonsOf(v, s)}
      /\ \A n \in DOMAIN seasons : seasons[n] = LastOf(NumberedSeasons(v, s, n), late)
  BY DEF SeasonsByNumber
<1>2. SeasonsOf(v, s) = {i \in Slots["seasons"] : s # Null /\ v["seasons"][i]["series"] = s}
  BY DEF SeasonsOf, With
<1>3. \A n : NumberedSeasons(v, s, n) # {} <=> n \in DOMAIN seasons
  <2> HIDE DEF seasons
  <2> QED BY <1>1, <1>2, NumberedAre
<1> HIDE DEF seasons
<1>4. \A n \in DOMAIN seasons : NumberedSeasons(v, s, n) \subseteq Slots["seasons"]
  BY NumberedAre
<1>5. \A n \in DOMAIN seasons : seasons[n] \in NumberedSeasons(v, s, n)
  BY <1>1, <1>3, <1>4, LastIs, TablesAre
<1>6. IsSeasons(v, seasons)
  BY <1>5, NumberedAre DEF IsSeasons
<1> QED BY <1>1, <1>3, <1>5, <1>6 DEF seasons

\* No job deletes a row.
LEMMA ExtendsExisting ==
  ASSUME NEW kind, NEW v, NEW w, Extends(kind, v, w)
  PROVE  \A t \in Tables : Existing(v, t) \subseteq Existing(w, t)
BY CoversExisting DEF Extends

-----------------------------------------------------------------------------
\* acc is what a loop of a job of this kind has made of v.
Grown(kind, v, acc) == IsAcc(acc) /\ Extends(kind, v, acc.view)

\* The accumulator that a loop begins with.
LEMMA BareIs ==
  ASSUME NEW kind, NEW v, IsView(v), Sound(v)
  PROVE  Grown(kind, v, Bare(v)) /\ Bare(v).view = v
BY ExtendsItself DEF Bare, Grown, IsAcc

\* A loop may add a season of a series that exists, and an episode of such a season.
LEMMA SeasonAdded ==
  ASSUME NEW kind, NEW v, NEW acc, Grown(kind, v, acc), NEW s \in Existing(acc.view, "series"), NEW values, NEW room, IsRoom(room),
         Row("seasons", values)["series"] = s, Row("seasons", values)["number"] # Null
  PROVE  LET b == Added(acc, "seasons", values, room) IN
         /\ Grown(kind, v, b)
         /\ DOMAIN b = DOMAIN acc
         /\ \A f \in DOMAIN acc \ {"view", "full", "new"} : b[f] = acc[f]
         /\ \/ b.full = TRUE /\ b.view = acc.view /\ b.new = acc.new
            \/ /\ b.full = acc.full
               /\ b.new \in room["seasons"] /\ b.new \in Existing(b.view, "seasons")
               /\ Inserted(acc.view, b.view, "seasons", b.new, Row("seasons", values))
<1> DEFINE b == Added(acc, "seasons", values, room)
<1>1. IsAcc(acc) /\ IsView(acc.view) /\ Sound(acc.view) /\ Extends(kind, v, acc.view) /\ "seasons" \in Tables /\ "series" \in Columns["seasons"] /\ "number" \in Columns["seasons"]
  BY TablesAre DEF Grown, Extends
<1>2. /\ DOMAIN b = DOMAIN acc
      /\ \A f \in DOMAIN acc \ {"view", "full", "new"} : b[f] = acc[f]
      /\ \/ b.full = TRUE /\ b.view = acc.view /\ b.new = acc.new
         \/ /\ b.full = acc.full
            /\ b.new \in room["seasons"]
            /\ Inserted(acc.view, b.view, "seasons", b.new, Row("seasons", values))
  BY <1>1, AddedIs
<1> HIDE DEF b
<1>3. IsAcc(b)
  BY <1>1, <1>2 DEF IsAcc
<1>4. CASE b.view = acc.view /\ b.full = TRUE /\ b.new = acc.new
  BY <1>1, <1>2, <1>3, <1>4 DEF Grown, b
<1>5. CASE Inserted(acc.view, b.view, "seasons", b.new, Row("seasons", values)) /\ b.full = acc.full /\ b.new \in room["seasons"]
  <2>1. \E c \in Columns["seasons"] : Row("seasons", values)[c] # Null
    BY <1>1
  <2> DEFINE row == Row("seasons", values)
  <2>4. row["series"] \in Existing(acc.view, "series") /\ row["number"] # Null /\ Inserted(acc.view, b.view, "seasons", b.new, row)
    BY <1>5
  <2> HIDE DEF row
  <2>2. /\ Extends(kind, acc.view, b.view)
        /\ \A u \in Tables : Existing(b.view, u) = IF u = "seasons" THEN Existing(acc.view, u) \cup {b.new} ELSE Existing(acc.view, u)
    <3> DEFINE w == b.view  i == b.new
    <3>1. Inserted(acc.view, w, "seasons", i, row) /\ \E c \in Columns["seasons"] : row[c] # Null
      BY <2>1, <2>4 DEF row
    <3> DEFINE u == acc.view
    <3>2. Fits(u, "seasons", row) /\ IsView(u) /\ Sound(u) /\ Inserted(u, w, "seasons", i, row)
      BY <1>1, <2>4, <3>1 DEF Fits
    <3> HIDE DEF w, i, u
    <3>3. /\ Extends(kind, u, w)
          /\ OneMore(u, w, "seasons", i)
      BY <1>1, <3>1, <3>2, InsertedExtends
    <3> QED BY <3>3 DEF w, i, u, OneMore
  <2>3. Extends(kind, v, b.view)
    BY <1>1, <2>2, ExtendsAgain
  <2> QED BY <1>1, <1>2, <1>3, <1>5, <2>2, <2>3 DEF Grown, b
<1> QED BY <1>2, <1>4, <1>5

LEMMA EpisodeAdded ==
  ASSUME NEW kind, NEW v, NEW acc, Grown(kind, v, acc), NEW p \in Existing(acc.view, "seasons"), NEW values, NEW room, IsRoom(room),
         Row("episodes", values)["season"] = p, Row("episodes", values)["number"] # Null
  PROVE  LET b == Added(acc, "episodes", values, room) IN
         /\ Grown(kind, v, b)
         /\ DOMAIN b = DOMAIN acc
         /\ \A f \in DOMAIN acc \ {"view", "full", "new"} : b[f] = acc[f]
         /\ \/ b.full = TRUE /\ b.view = acc.view /\ b.new = acc.new
            \/ /\ b.full = acc.full
               /\ b.new \in room["episodes"] /\ b.new \in Existing(b.view, "episodes")
               /\ Inserted(acc.view, b.view, "episodes", b.new, Row("episodes", values))
<1> DEFINE b == Added(acc, "episodes", values, room)
<1>1. IsAcc(acc) /\ IsView(acc.view) /\ Sound(acc.view) /\ Extends(kind, v, acc.view) /\ "episodes" \in Tables /\ "season" \in Columns["episodes"] /\ "number" \in Columns["episodes"]
  BY TablesAre DEF Grown, Extends
<1>2. /\ DOMAIN b = DOMAIN acc
      /\ \A f \in DOMAIN acc \ {"view", "full", "new"} : b[f] = acc[f]
      /\ \/ b.full = TRUE /\ b.view = acc.view /\ b.new = acc.new
         \/ /\ b.full = acc.full
            /\ b.new \in room["episodes"]
            /\ Inserted(acc.view, b.view, "episodes", b.new, Row("episodes", values))
  BY <1>1, AddedIs
<1> HIDE DEF b
<1>3. IsAcc(b)
  BY <1>1, <1>2 DEF IsAcc
<1>4. CASE b.view = acc.view /\ b.full = TRUE /\ b.new = acc.new
  BY <1>1, <1>2, <1>3, <1>4 DEF Grown, b
<1>5. CASE Inserted(acc.view, b.view, "episodes", b.new, Row("episodes", values)) /\ b.full = acc.full /\ b.new \in room["episodes"]
  <2>1. \E c \in Columns["episodes"] : Row("episodes", values)[c] # Null
    BY <1>1
  <2> DEFINE row == Row("episodes", values)
  <2>4. row["season"] \in Existing(acc.view, "seasons") /\ row["number"] # Null /\ Inserted(acc.view, b.view, "episodes", b.new, row)
    BY <1>5
  <2> HIDE DEF row
  <2>2. /\ Extends(kind, acc.view, b.view)
        /\ \A u \in Tables : Existing(b.view, u) = IF u = "episodes" THEN Existing(acc.view, u) \cup {b.new} ELSE Existing(acc.view, u)
    <3> DEFINE w == b.view  i == b.new
    <3>1. Inserted(acc.view, w, "episodes", i, row) /\ \E c \in Columns["episodes"] : row[c] # Null
      BY <2>1, <2>4 DEF row
    <3> DEFINE u == acc.view
    <3>2. Fits(u, "episodes", row) /\ IsView(u) /\ Sound(u) /\ Inserted(u, w, "episodes", i, row)
      BY <1>1, <2>4, <3>1 DEF Fits
    <3> HIDE DEF w, i, u
    <3>3. /\ Extends(kind, u, w)
          /\ OneMore(u, w, "episodes", i)
      BY <1>1, <3>1, <3>2, InsertedExtends
    <3> QED BY <3>3 DEF w, i, u, OneMore
  <2>3. Extends(kind, v, b.view)
    BY <1>1, <2>2, ExtendsAgain
  <2> QED BY <1>1, <1>2, <1>3, <1>5, <2>2, <2>3 DEF Grown, b
<1> QED BY <1>2, <1>4, <1>5

\* acc with another value in one column of a row.
LEMMA PutGrows ==
  ASSUME NEW kind, NEW v, NEW u, Extends(kind, v, u), NEW t \in Tables, NEW i \in Existing(u, t),
         NEW c \in Columns[t], NEW x,
         u[t][i][c] = x \/ (x # Null /\ (u[t][i][c] = Null \/ Follows(kind, t, c))),
         ~(t = "seasons" /\ c = "series"),
         t = "episodes" /\ c = "season" => x \in Existing(u, "seasons")
  PROVE  /\ Extends(kind, v, Put(u, t, i, c, x))
         /\ \A y \in Tables : Existing(Put(u, t, i, c, x), y) = Existing(u, y)
<1>1. IsView(u) /\ Sound(u)
  BY DEF Extends
<1>2. /\ Extends(kind, u, Put(u, t, i, c, x))
      /\ \A y \in Tables : Existing(Put(u, t, i, c, x), y) = Existing(u, y)
  BY <1>1, PutExtends
<1> QED BY <1>2, ExtendsAgain

-----------------------------------------------------------------------------
\* The loop that adds seasons.

\* Adding seasons keeps the tables in order, turn by turn.
LEMMA EverySeasonTurn ==
  ASSUME NEW kind, NEW v, IsView(v), Sound(v), NEW s \in Existing(v, "series"), NEW numbers, NEW room,
         IsRoom(room), Len(numbers) \in Nat, \A n \in 1..Len(numbers) : numbers[n] # Null
  PROVE  \A n \in 0..Len(numbers) : Grown(kind, v, SeasonTurns(v, s, numbers, room)[n])
<1> DEFINE N == Len(numbers)
           t == SeasonTurns(v, s, numbers, room)
           S == {n \in 0..N : Grown(kind, v, t[n])}
<1>1. /\ t[0] = Bare(v)
      /\ \A n \in 1..N : t[n] = Added(t[n - 1], "seasons", [series |-> s, number |-> numbers[n]], room)
  BY SeasonTurnsAre
<1>0. N \in Nat /\ \A n \in 1..N : numbers[n] # Null
  OBVIOUS
<1> HIDE DEF t, N
<1>2. 0 \in S
  BY <1>0, <1>1, BareIs
<1>3. ASSUME NEW n \in 1..N, n - 1 \in S
      PROVE  n \in S
  <2> DEFINE acc == t[n - 1]  values == [series |-> s, number |-> numbers[n]]
  <2>1. Grown(kind, v, acc)
    BY <1>3
  <2>2. Row("seasons", values)["series"] = s /\ Row("seasons", values)["number"] # Null
    BY <1>0, RowsAre
  <2>3. t[n] = Added(acc, "seasons", values, room)
    BY <1>1
  <2> HIDE DEF acc, values
  <2>4. s \in Existing(acc.view, "series")
    BY <2>1, ExtendsExisting, TablesAre DEF Grown
  <2>5. Grown(kind, v, Added(acc, "seasons", values, room))
    BY <2>1, <2>2, <2>4, SeasonAdded
  <2> QED BY <1>0, <2>3, <2>5
<1> HIDE DEF S
<1>4. \A n \in 0..N : n \in S
  BY <1>0, <1>2, <1>3, EveryTurn
<1> QED BY <1>4 DEF S, t, N

-----------------------------------------------------------------------------
\* A turn of Sonarr's loop does.
LEMMA SonarrEpisodeGrows ==
  ASSUME NEW v, NEW acc, Grown("sonarr", v, acc), NEW ep, ep.number # Null,
         NEW seasons, IsSeasons(acc.view, seasons), NEW room, IsRoom(room)
  PROVE  Grown("sonarr", v, SonarrEpisode(acc, ep, seasons, room))
<1> DEFINE known == With(acc.view, "episodes", "sonarr", ep.id)
           p == seasons[ep.season]
           values == [season |-> seasons[ep.season], number |-> ep.number, sonarr |-> ep.id]
           i == Min(known)
           u == Put(acc.view, "episodes", i, "season", p)
           w == Put(u, "episodes", i, "number", ep.number)
<1>0. /\ "episodes" \in Tables /\ "seasons" \in Tables
      /\ {"season", "number", "sonarr"} \subseteq Columns["episodes"]
  BY TablesAre
<1>1. CASE ep.season \notin DOMAIN seasons
  BY <1>1 DEF SonarrEpisode
<1>2. CASE ep.season \in DOMAIN seasons /\ known = {}
  <2>1. SonarrEpisode(acc, ep, seasons, room) = Added(acc, "episodes", values, room)
    BY <1>2 DEF SonarrEpisode
  <2>2. p \in Existing(acc.view, "seasons")
    BY <1>2 DEF IsSeasons
  <2>3. Row("episodes", values)["season"] = p /\ Row("episodes", values)["number"] # Null
    BY RowsAre
  <2> HIDE DEF values, p
  <2>4. Grown("sonarr", v, Added(acc, "episodes", values, room))
    BY <2>2, <2>3, EpisodeAdded
  <2> QED BY <2>1, <2>4
<1>3. CASE ep.season \in DOMAIN seasons /\ known # {}
  <2>1. SonarrEpisode(acc, ep, seasons, room) = [acc EXCEPT !.view = w]
    BY <1>3 DEF SonarrEpisode
  <2>2. p \in Existing(acc.view, "seasons")
    BY <1>3 DEF IsSeasons
  <2>3. i \in known /\ known \subseteq Existing(acc.view, "episodes")
    <3>1. known \subseteq Existing(acc.view, "episodes") /\ known \subseteq Slots["episodes"]
      BY <1>0, WithIs
    <3> HIDE DEF known
    <3> QED BY <3>1, <1>0, <1>3, FirstIs
  <2>4. i \in Existing(acc.view, "episodes") /\ p # Null
    BY <2>2, <2>3, <1>0, SlotsAre DEF Existing
  <2> HIDE DEF i, p
  <2>5. Follows("sonarr", "episodes", "season") /\ Follows("sonarr", "episodes", "number")
    BY DEF Follows
  <2>6. Extends("sonarr", v, u) /\ \A y \in Tables : Existing(u, y) = Existing(acc.view, y)
    <3>1. Extends("sonarr", v, acc.view)
      BY DEF Grown
    <3> QED BY <1>0, <2>2, <2>4, <2>5, <3>1, PutGrows
  <2> HIDE DEF u
  <2>7. Extends("sonarr", v, w)
    <3>1. i \in Existing(u, "episodes")
      BY <2>4, <2>6, <1>0
    <3> QED BY <1>0, <2>5, <2>6, <3>1, PutGrows
  <2> HIDE DEF w
  <2> QED BY <2>1, <2>7 DEF Grown, IsAcc
<1> QED BY <1>1, <1>2, <1>3

\* A dictionary of seasons stays one.
LEMMA SeasonsStay ==
  ASSUME NEW kind, NEW v, NEW w, Extends(kind, v, w), NEW seasons, IsSeasons(v, seasons)
  PROVE  IsSeasons(w, seasons)
BY ExtendsExisting, TablesAre DEF IsSeasons

\* Every turn of Sonarr's loop does.
LEMMA EverySonarrTurn ==
  ASSUME NEW v, IsView(v), Sound(v), NEW seasons, IsSeasons(v, seasons), NEW episodes, NEW room,
         IsRoom(room), Len(episodes) \in Nat, \A n \in 1..Len(episodes) : episodes[n].number # Null
  PROVE  \A n \in 0..Len(episodes) : Grown("sonarr", v, SonarrTurns(v, seasons, episodes, room)[n])
<1> DEFINE N == Len(episodes)
           t == SonarrTurns(v, seasons, episodes, room)
           S == {n \in 0..N : Grown("sonarr", v, t[n])}
<1>1. /\ t[0] = Bare(v)
      /\ \A n \in 1..N : t[n] = SonarrEpisode(t[n - 1], episodes[n], seasons, room)
  BY SonarrTurnsAre
<1>0. N \in Nat /\ \A n \in 1..N : episodes[n].number # Null
  OBVIOUS
<1> HIDE DEF t, N
<1>2. 0 \in S
  BY <1>0, <1>1, BareIs
<1>3. ASSUME NEW n \in 1..N, n - 1 \in S
      PROVE  n \in S
  <2> DEFINE acc == t[n - 1]  ep == episodes[n]
  <2>1. Grown("sonarr", v, acc) /\ ep.number # Null
    BY <1>0, <1>3
  <2>3. t[n] = SonarrEpisode(acc, ep, seasons, room)
    BY <1>1
  <2> HIDE DEF acc, ep
  <2>4. IsSeasons(acc.view, seasons)
    BY <2>1, SeasonsStay DEF Grown
  <2>5. Grown("sonarr", v, SonarrEpisode(acc, ep, seasons, room))
    BY <2>1, <2>4, SonarrEpisodeGrows
  <2> QED BY <1>0, <2>3, <2>5
<1> HIDE DEF S
<1>4. \A n \in 0..N : n \in S
  BY <1>0, <1>2, <1>3, EveryTurn
<1> QED BY <1>4 DEF S, t, N

-----------------------------------------------------------------------------
\* The three dictionaries of Jellyfin's loop.
Indexed3(acc) ==
  /\ DOMAIN acc = {"view", "full", "new", "seasons", "byId", "byNumber"}
  /\ IsSeasons(acc.view, acc.seasons)
  /\ \A x \in DOMAIN acc.byId : acc.byId[x] \in Existing(acc.view, "episodes")
  /\ \A p \in DOMAIN acc.byNumber : acc.byNumber[p] \in Existing(acc.view, "episodes")

\* Jellyfin's three dictionaries refer to rows, and go on to.
LEMMA JellyfinIndexesAre ==
  ASSUME NEW v, IsView(v), Sound(v), NEW s, NEW late
  PROVE  /\ Grown("jellyfin", v, JellyfinIndexes(v, s, late)) 
         /\ Indexed3(JellyfinIndexes(v, s, late))
         /\ JellyfinIndexes(v, s, late).view = v
<1> DEFINE seasons == SeasonsByNumber(v, s, late)
           kept == {seasons[n] : n \in DOMAIN seasons}
           loaded == {i \in Existing(v, "episodes") : v.episodes[i].season \in kept}
           tagged == {i \in loaded : v.episodes[i].jellyfin # Null}
           place(i) == <<v.episodes[i].season, v.episodes[i].number>>
           byId == [x \in {v.episodes[i].jellyfin : i \in tagged} |->
                      Min({i \in tagged : v.episodes[i].jellyfin = x})]
           byNumber == [p \in {place(i) : i \in loaded} |-> LastOf({i \in loaded : place(i) = p}, late)]
           acc == JellyfinIndexes(v, s, late)
<1>1. acc = [view |-> v, full |-> FALSE, new |-> 0, seasons |-> seasons, byId |-> byId, byNumber |-> byNumber]
  BY DEF JellyfinIndexes
<1>2. loaded \subseteq Existing(v, "episodes") /\ loaded \subseteq Slots["episodes"] /\ "episodes" \in Tables
  BY TablesAre DEF Existing
<1>3. IsSeasons(v, seasons)
  BY SeasonsByNumberAre
<1> HIDE DEF seasons, loaded
<1>4. \A x \in DOMAIN byId : byId[x] \in Existing(v, "episodes")
  <2>1. ASSUME NEW x \in DOMAIN byId PROVE byId[x] \in Existing(v, "episodes")
    <3> DEFINE S == {i \in tagged : v.episodes[i].jellyfin = x}
    <3>1. S # {} /\ S \subseteq loaded /\ byId[x] = Min(S)
      OBVIOUS
    <3> HIDE DEF S, byId, tagged
    <3> QED BY <3>1, <1>2, FirstIs
  <2> QED BY <2>1
<1>5. \A p \in DOMAIN byNumber : byNumber[p] \in Existing(v, "episodes")
  <2>1. ASSUME NEW p \in DOMAIN byNumber PROVE byNumber[p] \in Existing(v, "episodes")
    <3> DEFINE S == {i \in loaded : place(i) = p}
    <3>1. S # {} /\ S \subseteq loaded /\ byNumber[p] = LastOf(S, late)
      OBVIOUS
    <3> HIDE DEF S, byNumber
    <3>2. S \subseteq Slots["episodes"]
      BY <3>1, <1>2
    <3>3. LastOf(S, late) \in S
      BY <3>1, <3>2, <1>2, LastIs
    <3> QED BY <3>1, <3>3, <1>2
  <2> QED BY <2>1
<1> HIDE DEF byId, byNumber, acc
<1>6. acc.view = v /\ acc.seasons = seasons /\ acc.byId = byId /\ acc.byNumber = byNumber /\ DOMAIN acc = {"view", "full", "new", "seasons", "byId", "byNumber"}
  BY <1>1
<1>7. Indexed3(acc)
  BY <1>3, <1>4, <1>5, <1>6 DEF Indexed3
<1>8. Grown("jellyfin", v, acc)
  BY <1>6, ExtendsItself DEF Grown, IsAcc
<1> QED BY <1>6, <1>7, <1>8 DEF acc

LEMMA Indexed3Stays ==
  ASSUME NEW acc, NEW b, Indexed3(acc), DOMAIN b = DOMAIN acc, 
         \A t \in Tables : Existing(acc.view, t) \subseteq Existing(b.view, t),
         b.seasons = acc.seasons, b.byId = acc.byId, b.byNumber = acc.byNumber
  PROVE  Indexed3(b)
BY TablesAre DEF Indexed3, IsSeasons

\* A turn of Jellyfin's loop keeps the tables in order: its season, its episode.
LEMMA JellyfinSeasonGrows ==
  ASSUME NEW v, NEW acc, Grown("jellyfin", v, acc), Indexed3(acc), NEW s \in Existing(acc.view, "series"), NEW ep, ep.season # Null,
         NEW room, IsRoom(room)
  PROVE  LET b == JellyfinSeason(acc, s, ep, room) IN
         /\ Grown("jellyfin", v, b) /\ Indexed3(b)
         /\ \A t \in Tables : Existing(acc.view, t) \subseteq Existing(b.view, t)
         /\ b.byId = acc.byId /\ b.byNumber = acc.byNumber
         /\ ~b.full => ep.season \in DOMAIN b.seasons
<1> DEFINE b == JellyfinSeason(acc, s, ep, room)
           i == acc.seasons[ep.season]
           values == [series |-> s, number |-> ep.season, jellyfin |-> ep.of]
           more == Added(acc, "seasons", values, room)
<1>0. /\ "seasons" \in Tables
      /\ {"jellyfin"} \subseteq Columns["seasons"]
      /\ "view" \in DOMAIN acc /\ "full" \in DOMAIN acc /\ "new" \in DOMAIN acc /\ "seasons" \in DOMAIN acc
      /\ DOMAIN acc = {"view", "full", "new", "seasons", "byId", "byNumber"}
  BY TablesAre DEF Indexed3
<1>1. CASE acc.full
  BY <1>1 DEF JellyfinSeason
<1>2. CASE ~acc.full /\ ep.season \in DOMAIN acc.seasons /\ acc.view.seasons[i].jellyfin # Null
  BY <1>2 DEF JellyfinSeason
<1>3. CASE ~acc.full /\ ep.season \in DOMAIN acc.seasons /\ acc.view.seasons[i].jellyfin = Null
  <2> DEFINE w == Put(acc.view, "seasons", i, "jellyfin", ep.of)
  <2>1. b = [acc EXCEPT !.view = w]
    BY <1>3 DEF JellyfinSeason
  <2>2. i \in Existing(acc.view, "seasons")
    BY <1>3 DEF Indexed3, IsSeasons
  <2>3. acc.view["seasons"][i]["jellyfin"] = Null
    BY <1>3
  <2> HIDE DEF i
  <2>4. Extends("jellyfin", v, w) /\ \A y \in Tables : Existing(w, y) = Existing(acc.view, y)
    <3>1. Extends("jellyfin", v, acc.view)
      BY DEF Grown
    <3> QED BY <1>0, <2>2, <2>3, <3>1, PutGrows
  <2> HIDE DEF w, b
  <2>5. DOMAIN b = DOMAIN acc /\ b.view = w /\ b.full = acc.full /\ b.seasons = acc.seasons /\ b.byId = acc.byId /\ b.byNumber = acc.byNumber
    BY <1>0, <2>1
  <2>6. Indexed3(b)
    BY <2>4, <2>5, Indexed3Stays
  <2>7. Grown("jellyfin", v, b)
    BY <1>0, <2>4, <2>5 DEF Grown, IsAcc
  <2>8. ep.season \in DOMAIN b.seasons
    BY <2>5, <1>3
  <2> QED BY <2>4, <2>5, <2>6, <2>7, <2>8 DEF b
<1>4. CASE ~acc.full /\ ep.season \notin DOMAIN acc.seasons
  <2>1. b = IF more.full THEN more ELSE [more EXCEPT !.seasons = Also(more.seasons, ep.season, more.new)]
    BY <1>4 DEF JellyfinSeason
  <2>2. Row("seasons", values)["series"] = s /\ Row("seasons", values)["number"] # Null
    BY RowsAre
  <2> HIDE DEF values
  <2>3. /\ Grown("jellyfin", v, more)
        /\ DOMAIN more = DOMAIN acc
        /\ \A f \in DOMAIN acc \ {"view", "full", "new"} : more[f] = acc[f]
        /\ \/ more.full = TRUE /\ more.view = acc.view /\ more.new = acc.new
           \/ /\ more.full = acc.full
              /\ more.new \in room["seasons"] /\ more.new \in Existing(more.view, "seasons")
              /\ Inserted(acc.view, more.view, "seasons", more.new, Row("seasons", values))
    BY <2>2, SeasonAdded
  <2> HIDE DEF more, b
  <2>4. more.seasons = acc.seasons /\ more.byId = acc.byId /\ more.byNumber = acc.byNumber
    BY <2>3, <1>0
  <2>5. \A t \in Tables : Existing(acc.view, t) \subseteq Existing(more.view, t)
    <3>1. CASE more.view = acc.view
      BY <3>1
    <3>2. CASE Inserted(acc.view, more.view, "seasons", more.new, Row("seasons", values))
      BY <3>2 DEF Inserted, Existing, Exists
    <3> QED BY <2>3, <3>1, <3>2
  <2>6. Indexed3(more)
    BY <2>3, <2>4, <2>5, Indexed3Stays
  <2>7. CASE more.full
    BY <2>1, <2>3, <2>4, <2>5, <2>6, <2>7 DEF b
  <2>8. CASE ~more.full
    <3>1. b = [more EXCEPT !.seasons = Also(more.seasons, ep.season, more.new)] /\ more.new \in Existing(more.view, "seasons")
      BY <2>1, <2>3, <2>8
    <3>2. /\ DOMAIN b = DOMAIN acc /\ b.view = more.view /\ b.full = more.full /\ b.byId = acc.byId /\ b.byNumber = acc.byNumber
          /\ b.seasons = Also(more.seasons, ep.season, more.new)
      BY <1>0, <2>3, <2>4, <3>1
    <3>3. IsSeasons(more.view, b.seasons) /\ ep.season \in DOMAIN b.seasons
      <4>1. IsSeasons(more.view, more.seasons)
        BY <2>6 DEF Indexed3
      <4> QED BY <3>1, <3>2, <4>1 DEF Also, IsSeasons
    <3>4. Indexed3(b)
      BY <2>6, <1>0, <3>2, <3>3, <2>4 DEF Indexed3
    <3>5. Grown("jellyfin", v, b)
      BY <1>0, <2>3, <3>2 DEF Grown, IsAcc
    <3> QED BY <2>5, <3>2, <3>3, <3>4, <3>5 DEF b
  <2> QED BY <2>7, <2>8
<1> QED BY <1>1, <1>2, <1>3, <1>4

LEMMA JellyfinEpisodeGrows ==
  ASSUME NEW v, NEW before, Grown("jellyfin", v, before), Indexed3(before), NEW s \in Existing(before.view, "series"),
         NEW ep, ep.season # Null, ep.number # Null, ep.id # Null, NEW room, IsRoom(room)
  PROVE  LET b == JellyfinEpisode(before, s, ep, room) IN
         /\ Grown("jellyfin", v, b) /\ (~b.full => Indexed3(b))
         /\ \A t \in Tables : Existing(before.view, t) \subseteq Existing(b.view, t)
<1> DEFINE b == JellyfinEpisode(before, s, ep, room)
           acc == JellyfinSeason(before, s, ep, room)
           p == acc.seasons[ep.season]
           place == <<p, ep.number>>
           i == IF ep.id \in DOMAIN acc.byId THEN acc.byId[ep.id] ELSE acc.byNumber[place]
           fills == acc.view.episodes[i].jellyfin = Null
           values == [season |-> p, number |-> ep.number, jellyfin |-> ep.id]
           new == Added(acc, "episodes", values, room)
           u == IF fills THEN Put(acc.view, "episodes", i, "jellyfin", ep.id) ELSE acc.view
           w == Put(u, "episodes", i, "number", ep.number)
<1>0. /\ "episodes" \in Tables /\ "seasons" \in Tables
      /\ {"season", "number", "jellyfin"} \subseteq Columns["episodes"]
      /\ Follows("jellyfin", "episodes", "number")
  BY TablesAre DEF Follows
<1>1. b = IF acc.full THEN acc
          ELSE IF ep.id \in DOMAIN acc.byId \/ place \in DOMAIN acc.byNumber
          THEN [acc EXCEPT !.view = w, !.byId = IF fills THEN Also(acc.byId, ep.id, i) ELSE acc.byId]
          ELSE [new EXCEPT !.byId = Also(new.byId, ep.id, new.new),
                           !.byNumber = Also(new.byNumber, place, new.new)]
  BY DEF JellyfinEpisode
<1>2. /\ Grown("jellyfin", v, acc) /\ Indexed3(acc)
      /\ \A t \in Tables : Existing(before.view, t) \subseteq Existing(acc.view, t)
      /\ ~acc.full => ep.season \in DOMAIN acc.seasons
  BY JellyfinSeasonGrows
<1> HIDE DEF acc, b
<1>3. CASE acc.full
  BY <1>1, <1>2, <1>3 DEF b
<1>4. DOMAIN acc = {"view", "full", "new", "seasons", "byId", "byNumber"}
  BY <1>2 DEF Indexed3
<1>5. CASE ~acc.full /\ (ep.id \in DOMAIN acc.byId \/ place \in DOMAIN acc.byNumber)
  <2>1. i \in Existing(acc.view, "episodes")
    BY <1>2, <1>5 DEF Indexed3
  <2>2. b = [acc EXCEPT !.view = w, !.byId = IF fills THEN Also(acc.byId, ep.id, i) ELSE acc.byId]
    BY <1>1, <1>5
  <2>3. fills => acc.view["episodes"][i]["jellyfin"] = Null
    OBVIOUS
  <2> HIDE DEF i, fills
  <2>4. Extends("jellyfin", v, u) /\ \A y \in Tables : Existing(u, y) = Existing(acc.view, y)
    <3>1. Extends("jellyfin", v, acc.view)
      BY <1>2 DEF Grown
    <3>2. CASE ~fills
      BY <3>1, <3>2
    <3>3. CASE fills
      <4> DEFINE z == Put(acc.view, "episodes", i, "jellyfin", ep.id)
      <4>1. Extends("jellyfin", v, z) /\ \A y \in Tables : Existing(z, y) = Existing(acc.view, y)
        BY <1>0, <2>1, <2>3, <3>1, <3>3, PutGrows
      <4> QED BY <3>3, <4>1
    <3> QED BY <3>2, <3>3
  <2> HIDE DEF u
  <2>5. Extends("jellyfin", v, w) /\ \A y \in Tables : Existing(w, y) = Existing(acc.view, y)
    <3>1. i \in Existing(u, "episodes")
      BY <1>0, <2>1, <2>4
    <3>2. Extends("jellyfin", v, w) /\ \A y \in Tables : Existing(w, y) = Existing(u, y)
      BY <1>0, <2>4, <3>1, PutGrows
    <3> QED BY <2>4, <3>2
  <2> HIDE DEF w
  <2>6. /\ DOMAIN b = DOMAIN acc /\ b.view = w /\ b.seasons = acc.seasons /\ b.byNumber = acc.byNumber
        /\ b.byId = IF fills THEN Also(acc.byId, ep.id, i) ELSE acc.byId
    BY <1>4, <2>2
  <2>7. \A x \in DOMAIN b.byId : b.byId[x] \in Existing(acc.view, "episodes")
    <3>1. \A x \in DOMAIN acc.byId : acc.byId[x] \in Existing(acc.view, "episodes")
      BY <1>2 DEF Indexed3
    <3> QED BY <2>1, <2>6, <3>1 DEF Also
  <2>8. Indexed3(b)
    BY <1>0, <1>2, <1>4, <2>5, <2>6, <2>7 DEF Indexed3, IsSeasons
  <2>9. Grown("jellyfin", v, b)
    BY <1>4, <2>5, <2>6 DEF Grown, IsAcc
  <2> QED BY <1>2, <2>5, <2>6, <2>8, <2>9 DEF b
<1>6. CASE ~acc.full /\ ~(ep.id \in DOMAIN acc.byId \/ place \in DOMAIN acc.byNumber)
  <2>1. b = [new EXCEPT !.byId = Also(new.byId, ep.id, new.new), !.byNumber = Also(new.byNumber, place, new.new)]
    BY <1>1, <1>6
  <2>2. p \in Existing(acc.view, "seasons")
    BY <1>2, <1>6 DEF Indexed3, IsSeasons
  <2>3. Row("episodes", values)["season"] = p /\ Row("episodes", values)["number"] # Null
    BY RowsAre
  <2> HIDE DEF values, p
  <2>4. /\ Grown("jellyfin", v, new)
        /\ DOMAIN new = DOMAIN acc
        /\ \A f \in DOMAIN acc \ {"view", "full", "new"} : new[f] = acc[f]
        /\ \/ new.full = TRUE /\ new.view = acc.view /\ new.new = acc.new
           \/ /\ new.full = acc.full
              /\ new.new \in room["episodes"] /\ new.new \in Existing(new.view, "episodes")
              /\ Inserted(acc.view, new.view, "episodes", new.new, Row("episodes", values))
    BY <1>2, <2>2, <2>3, EpisodeAdded
  <2> HIDE DEF new, place
  <2>5. new.seasons = acc.seasons /\ new.byId = acc.byId /\ new.byNumber = acc.byNumber
    BY <2>4, <1>4
  <2>6. \A t \in Tables : Existing(acc.view, t) \subseteq Existing(new.view, t)
    <3>1. CASE new.view = acc.view
      BY <3>1
    <3>2. CASE Inserted(acc.view, new.view, "episodes", new.new, Row("episodes", values))
      BY <3>2 DEF Inserted, Existing, Exists
    <3> QED BY <2>4, <3>1, <3>2
  <2>7. Indexed3(new)
    BY <1>2, <2>4, <2>5, <2>6, Indexed3Stays
  <2>8. DOMAIN b = DOMAIN new /\ b.view = new.view /\ b.seasons = new.seasons
        /\ b.byId = Also(new.byId, ep.id, new.new) /\ b.byNumber = Also(new.byNumber, place, new.new)
    BY <1>4, <2>1, <2>4
  <2>9. Grown("jellyfin", v, b)
    BY <1>4, <2>4, <2>8 DEF Grown, IsAcc
  <2>10. b.full = new.full
    BY <1>4, <2>1, <2>4
  <2>11. ~b.full => Indexed3(b)
    <3>1. ~b.full => new.new \in Existing(new.view, "episodes")
      BY <2>4, <2>10
    <3>2. ~b.full => \A x \in DOMAIN b.byId : b.byId[x] \in Existing(b.view, "episodes")
      BY <2>7, <2>8, <3>1 DEF Indexed3, Also
    <3>3. ~b.full => \A x \in DOMAIN b.byNumber : b.byNumber[x] \in Existing(b.view, "episodes")
      BY <2>7, <2>8, <3>1 DEF Indexed3, Also
    <3> QED BY <1>4, <2>4, <2>7, <2>8, <3>2, <3>3 DEF Indexed3
  <2> QED BY <1>2, <2>6, <2>8, <2>9, <2>11 DEF b
<1> QED BY <1>3, <1>5, <1>6

LEMMA EveryJellyfinTurn ==
  ASSUME NEW v, IsView(v), Sound(v), NEW s \in Existing(v, "series"), NEW episodes, NEW late, NEW room,
         IsRoom(room), Len(episodes) \in Nat,
         \A n \in 1..Len(episodes) : episodes[n].number # Null /\ episodes[n].season # Null /\ episodes[n].id # Null
  PROVE  \A n \in 0..Len(episodes) : LET acc == JellyfinTurns(v, s, episodes, late, room)[n] IN
           Grown("jellyfin", v, acc) /\ (~acc.full => Indexed3(acc))
<1> DEFINE N == Len(episodes)
           t == JellyfinTurns(v, s, episodes, late, room)
           S == {n \in 0..N : Grown("jellyfin", v, t[n]) /\ (~t[n].full => Indexed3(t[n]))}
<1>1. /\ t[0] = JellyfinIndexes(v, s, late)
      /\ \A n \in 1..N : t[n] = JellyfinEpisode(t[n - 1], s, episodes[n], room)
  BY JellyfinTurnsAre
<1>0. N \in Nat /\ \A n \in 1..N : episodes[n].number # Null /\ episodes[n].season # Null /\ episodes[n].id # Null
  OBVIOUS
<1> HIDE DEF t, N
<1>2. 0 \in S
  BY <1>0, <1>1, JellyfinIndexesAre
<1>3. ASSUME NEW n \in 1..N, n - 1 \in S
      PROVE  n \in S
  <2> DEFINE acc == t[n - 1]  ep == episodes[n]  b == JellyfinEpisode(acc, s, ep, room)
  <2>1. /\ Grown("jellyfin", v, acc) /\ (~acc.full => Indexed3(acc))
        /\ ep.number # Null /\ ep.season # Null /\ ep.id # Null
    BY <1>0, <1>3
  <2>3. t[n] = b
    BY <1>1
  <2>2. acc.full => b = acc
    BY DEF JellyfinEpisode, JellyfinSeason
  <2> HIDE DEF acc, ep, b
  <2>4. s \in Existing(acc.view, "series")
    BY <2>1, ExtendsExisting, TablesAre DEF Grown
  <2>5. ~acc.full => Grown("jellyfin", v, b) /\ (~b.full => Indexed3(b))
    BY <2>1, <2>4, JellyfinEpisodeGrows DEF b
  <2>6. Grown("jellyfin", v, b) /\ (~b.full => Indexed3(b))
    BY <2>1, <2>2, <2>5
  <2> QED BY <1>0, <2>3, <2>6
<1> HIDE DEF S
<1>4. \A n \in 0..N : n \in S
  BY <1>0, <1>2, <1>3, EveryTurn
<1> QED BY <1>4 DEF S, t, N

-----------------------------------------------------------------------------
\* The loops of the TMDB update.

\* The accumulator of the TMDB update.
Tmdb5(acc) == DOMAIN acc = {"view", "full", "new", "left", "hurt"}

\* The TMDB update keeps the tables in order: an id filled, an episode, the
\* episodes of a season, a season, a payload, a series, all of them.
LEMMA FilledGrows ==
  ASSUME NEW v, NEW acc, Grown("tmdb", v, acc), NEW t \in {"seasons", "episodes"}, NEW i \in Existing(acc.view, t), NEW x
  PROVE  LET b == Filled(acc, t, i, x) IN
         /\ Grown("tmdb", v, b) /\ DOMAIN b = DOMAIN acc
         /\ \A f \in DOMAIN acc \ {"view"} : b[f] = acc[f]
         /\ \A u \in Tables : Existing(b.view, u) = Existing(acc.view, u)
<1> DEFINE b == Filled(acc, t, i, x)
           w == Put(acc.view, t, i, "tmdb", x)
<1>0. t \in Tables /\ "tmdb" \in Columns[t]
  BY TablesAre
<1>1. CASE acc.view[t][i].tmdb # Null
  BY <1>1 DEF Filled
<1>2. CASE acc.view[t][i].tmdb = Null
  <2>1. b = [acc EXCEPT !.view = w] /\ "view" \in DOMAIN acc
    BY <1>2 DEF Filled, Grown, IsAcc
  <2>2. acc.view[t][i]["tmdb"] = Null
    BY <1>2
  <2>3. Extends("tmdb", v, w) /\ \A y \in Tables : Existing(w, y) = Existing(acc.view, y)
    <3>1. Extends("tmdb", v, acc.view)
      BY DEF Grown
    <3> QED BY <1>0, <2>2, <3>1, PutGrows
  <2> HIDE DEF b, w
  <2>4. DOMAIN b = DOMAIN acc /\ b.view = w /\ \A f \in DOMAIN acc \ {"view"} : b[f] = acc[f]
    BY <2>1
  <2>5. Grown("tmdb", v, b)
    BY <2>3, <2>4 DEF Grown, IsAcc
  <2> QED BY <2>3, <2>4, <2>5 DEF b
<1> QED BY <1>1, <1>2

LEMMA TmdbEpisodeGrows ==
  ASSUME NEW v, NEW base, NEW acc, Grown("tmdb", v, acc), Tmdb5(acc), NEW p \in Existing(acc.view, "seasons"),
         \A t \in Tables : Existing(base, t) \subseteq Existing(acc.view, t),
         NEW ep, ep.number # Null, NEW late, NEW room, IsRoom(room)
  PROVE  LET b == TmdbEpisode(base, acc, p, ep, late, room) IN
         Grown("tmdb", v, b) /\ Tmdb5(b) /\ \A t \in Tables : Existing(acc.view, t) \subseteq Existing(b.view, t)
<1> DEFINE b == TmdbEpisode(base, acc, p, ep, late, room)
           known == NumberedEpisodes(base, p, ep.number)
           i == LastOf(known, late)
           values == [season |-> p, number |-> ep.number, tmdb |-> ep.tmdb]
           new == Added(acc, "episodes", values, room)
<1>0. "episodes" \in Tables
  BY TablesAre
<1>1. CASE known # {}
  <2>1. b = Filled(acc, "episodes", i, ep.tmdb)
    BY <1>1 DEF TmdbEpisode
  <2>2. i \in Existing(acc.view, "episodes")
    <3>1. known \subseteq Existing(base, "episodes") /\ known \subseteq Slots["episodes"]
      BY NumberedAre
    <3> HIDE DEF known
    <3> QED BY <3>1, <1>0, <1>1, LastIs
  <2> HIDE DEF i
  <2>3. LET c == Filled(acc, "episodes", i, ep.tmdb) IN
         /\ Grown("tmdb", v, c) /\ DOMAIN c = DOMAIN acc
         /\ \A u \in Tables : Existing(c.view, u) = Existing(acc.view, u)
    BY <2>2, FilledGrows
  <2> QED BY <2>1, <2>3 DEF Tmdb5
<1>2. CASE known = {}
  <2>1. b = new
    BY <1>2 DEF TmdbEpisode
  <2>2. Row("episodes", values)["season"] = p /\ Row("episodes", values)["number"] # Null
    BY RowsAre
  <2> HIDE DEF values
  <2>3. /\ Grown("tmdb", v, new)
        /\ DOMAIN new = DOMAIN acc
        /\ \A f \in DOMAIN acc \ {"view", "full", "new"} : new[f] = acc[f]
        /\ \/ new.full = TRUE /\ new.view = acc.view /\ new.new = acc.new
           \/ /\ new.full = acc.full
              /\ new.new \in room["episodes"] /\ new.new \in Existing(new.view, "episodes")
              /\ Inserted(acc.view, new.view, "episodes", new.new, Row("episodes", values))
    BY <2>2, EpisodeAdded
  <2> HIDE DEF new
  <2>4. \A t \in Tables : Existing(acc.view, t) \subseteq Existing(new.view, t)
    <3>1. CASE new.view = acc.view
      BY <3>1
    <3>2. CASE Inserted(acc.view, new.view, "episodes", new.new, Row("episodes", values))
      BY <3>2 DEF Inserted, Existing, Exists
    <3> QED BY <2>3, <3>1, <3>2
  <2> QED BY <2>1, <2>3, <2>4 DEF Tmdb5
<1> QED BY <1>1, <1>2

LEMMA EveryTmdbEpisodeTurn ==
  ASSUME NEW v, NEW before, Grown("tmdb", v, before), Tmdb5(before), NEW p \in Existing(before.view, "seasons"), 
         NEW episodes, NEW late, NEW room, IsRoom(room), Len(episodes) \in Nat, \A n \in 1..Len(episodes) : episodes[n].number # Null
  PROVE  \A n \in 0..Len(episodes) : LET acc == EpisodeTurns(before, p, episodes, late, room)[n] IN
           /\ Grown("tmdb", v, acc) /\ Tmdb5(acc)
           /\ \A u \in Tables : Existing(before.view, u) \subseteq Existing(acc.view, u)
<1> DEFINE N == Len(episodes)
           t == EpisodeTurns(before, p, episodes, late, room)
           OK(acc) == /\ Grown("tmdb", v, acc) /\ Tmdb5(acc)
                      /\ \A u \in Tables : Existing(before.view, u) \subseteq Existing(acc.view, u)
           S == {n \in 0..N : OK(t[n])}
<1>1. /\ t[0] = before
      /\ \A n \in 1..N : t[n] = TmdbEpisode(before.view, t[n - 1], p, episodes[n], late, room)
  BY EpisodeTurnsAre
<1>0. N \in Nat /\ \A n \in 1..N : episodes[n].number # Null
  OBVIOUS
<1> HIDE DEF t, N
<1>2. 0 \in S
  BY <1>0, <1>1
<1>3. ASSUME NEW n \in 1..N, n - 1 \in S
      PROVE  n \in S
  <2> DEFINE acc == t[n - 1]  ep == episodes[n]  base == before.view  b == TmdbEpisode(base, acc, p, ep, late, room)
  <2>1. /\ Grown("tmdb", v, acc) /\ Tmdb5(acc) /\ ep.number # Null
        /\ \A u \in Tables : Existing(base, u) \subseteq Existing(acc.view, u)
        /\ p \in Existing(base, "seasons")
    BY <1>0, <1>3
  <2>3. t[n] = b
    BY <1>1
  <2> HIDE DEF acc, ep, base
  <2>4. p \in Existing(acc.view, "seasons")
    BY <2>1, TablesAre
  <2>5. Grown("tmdb", v, b) /\ Tmdb5(b) /\ \A u \in Tables : Existing(acc.view, u) \subseteq Existing(b.view, u)
    BY <2>1, <2>4, TmdbEpisodeGrows
  <2> HIDE DEF b
  <2>6. OK(b)
    BY <2>1, <2>5 DEF base
  <2> QED BY <1>0, <2>3, <2>6
<1> HIDE DEF S
<1>4. \A n \in 0..N : n \in S
  BY <1>0, <1>2, <1>3, EveryTurn
<1> QED BY <1>4 DEF S, t, N

LEMMA TmdbSeasonGrows ==
  ASSUME NEW v, NEW before, Grown("tmdb", v, before), Tmdb5(before), NEW s \in Existing(before.view, "series"),
         NEW season, season.number # Null, Len(season.episodes) \in Nat,
         \A n \in 1..Len(season.episodes) : season.episodes[n].number # Null,
         NEW seen, NEW late, NEW room, IsRoom(room)
  PROVE  LET b == TmdbSeason(before, s, season, seen, late, room) IN
         /\ Grown("tmdb", v, b) /\ Tmdb5(b)
         /\ \A u \in Tables : Existing(before.view, u) \subseteq Existing(b.view, u)
<1> DEFINE b == TmdbSeason(before, s, season, seen, late, room)
           known == NumberedSeasons(before.view, s, season.number)
           values == [series |-> s, number |-> season.number]
           new == Added(before, "seasons", values, room)
           acc == IF known # {} THEN [before EXCEPT !.new = LastOf(known, late)] ELSE new
           tagged == Filled(acc, "seasons", acc.new, season.tmdb)
           duplicate ==
             \E i \in Slots.seasons \ {acc.new} :
               /\ tagged.view.seasons[acc.new].tmdb # acc.view.seasons[acc.new].tmdb
               /\ Flushed(acc, seen).seasons[i].tmdb = season.tmdb
<1>0. "seasons" \in Tables
  BY TablesAre
<1>1. b = IF before.left \/ before.full THEN before
          ELSE IF acc.full THEN acc
          ELSE IF duplicate THEN [acc EXCEPT !.left = TRUE, !.hurt = @ \cup {s}]
          ELSE TmdbEpisodes(tagged, acc.new, season.episodes, late, room)
  BY DEF TmdbSeason
<1>2. /\ Grown("tmdb", v, acc) /\ Tmdb5(acc)
      /\ \A u \in Tables : Existing(before.view, u) \subseteq Existing(acc.view, u)
      /\ (~before.full /\ ~acc.full) => acc.new \in Existing(acc.view, "seasons")
  <2>1. CASE known # {}
    <3> DEFINE i == LastOf(known, late)
    <3>1. i \in Existing(before.view, "seasons")
      <4>1. known \subseteq Existing(before.view, "seasons") /\ known \subseteq Slots["seasons"]
        BY NumberedAre
      <4> HIDE DEF known
      <4> QED BY <4>1, <1>0, <2>1, LastIs
    <3>2. acc = [before EXCEPT !.new = i]
      BY <2>1
    <3> HIDE DEF acc, i
    <3>3. DOMAIN acc = DOMAIN before /\ acc.view = before.view /\ acc.new = i
      BY <3>2 DEF Tmdb5
    <3> QED BY <3>1, <3>3 DEF Grown, IsAcc, Tmdb5
  <2>2. CASE known = {}
    <3>1. acc = new
      BY <2>2
    <3>2. Row("seasons", values)["series"] = s /\ Row("seasons", values)["number"] # Null
      BY RowsAre
    <3> HIDE DEF values, known, acc
    <3>3. /\ Grown("tmdb", v, new)
          /\ DOMAIN new = DOMAIN before
          /\ \A f \in DOMAIN before \ {"view", "full", "new"} : new[f] = before[f]
          /\ \/ new.full = TRUE /\ new.view = before.view /\ new.new = before.new
             \/ /\ new.full = before.full
                /\ new.new \in room["seasons"] /\ new.new \in Existing(new.view, "seasons")
                /\ Inserted(before.view, new.view, "seasons", new.new, Row("seasons", values))
      BY <3>2, SeasonAdded
    <3> HIDE DEF new
    <3>4. \A t \in Tables : Existing(before.view, t) \subseteq Existing(new.view, t)
      <4>1. CASE new.view = before.view
        BY <4>1
      <4>2. CASE Inserted(before.view, new.view, "seasons", new.new, Row("seasons", values))
        BY <4>2 DEF Inserted, Existing, Exists
      <4> QED BY <3>3, <4>1, <4>2
    <3> QED BY <3>1, <3>3, <3>4 DEF Tmdb5
  <2> QED BY <2>1, <2>2
<1>3. CASE before.left \/ before.full
  BY <1>1, <1>3
<1>4. CASE ~(before.left \/ before.full) /\ acc.full
  <2> HIDE DEF acc
  <2> QED BY <1>1, <1>2, <1>4
<1>5. CASE ~(before.left \/ before.full) /\ ~acc.full /\ duplicate
  <2>1. b = [acc EXCEPT !.left = TRUE, !.hurt = @ \cup {s}]
    <3> HIDE DEF acc, b, tagged, duplicate
    <3> QED BY <1>1, <1>5
  <2> HIDE DEF acc, b
  <2>2. DOMAIN b = DOMAIN acc /\ b.view = acc.view
    BY <1>2, <2>1 DEF Tmdb5
  <2> QED BY <1>2, <2>2 DEF b, Grown, IsAcc, Tmdb5
<1>6. CASE ~(before.left \/ before.full) /\ ~acc.full /\ ~duplicate
  <2> DEFINE p == acc.new  N == Len(season.episodes)
  <2>1. b = EpisodeTurns(tagged, p, season.episodes, late, room)[N]
    <3> HIDE DEF acc, b, tagged, duplicate
    <3> QED BY <1>1, <1>6 DEF TmdbEpisodes
  <2>2. p \in Existing(acc.view, "seasons")
    <3> HIDE DEF acc, b, tagged, duplicate
    <3> QED BY <1>2, <1>6
  <2> HIDE DEF acc, b, p
  <2>3. /\ Grown("tmdb", v, tagged) /\ DOMAIN tagged = DOMAIN acc
        /\ \A u \in Tables : Existing(tagged.view, u) = Existing(acc.view, u)
    <3>1. LET c == Filled(acc, "seasons", p, season.tmdb) IN
           /\ Grown("tmdb", v, c) /\ DOMAIN c = DOMAIN acc
           /\ \A f \in DOMAIN acc \ {"view"} : c[f] = acc[f]
           /\ \A u \in Tables : Existing(c.view, u) = Existing(acc.view, u)
      BY <1>2, <2>2, FilledGrows
    <3> QED BY <3>1 DEF p
  <2>4. Tmdb5(tagged)
    BY <1>2, <2>3 DEF Tmdb5
  <2> HIDE DEF tagged
  <2> DEFINE eps == season.episodes
  <2>5. Len(eps) \in Nat /\ N = Len(eps) /\ (\A n \in 1..Len(eps) : eps[n].number # Null)
         /\ p \in Existing(tagged.view, "seasons")
    BY <2>2, <2>3, <1>0
  <2> HIDE DEF eps, N
  <2>6. \A n \in 0..Len(eps) : LET a == EpisodeTurns(tagged, p, eps, late, room)[n] IN
           /\ Grown("tmdb", v, a) /\ Tmdb5(a)
           /\ \A u \in Tables : Existing(tagged.view, u) \subseteq Existing(a.view, u)
    BY <2>3, <2>4, <2>5, EveryTmdbEpisodeTurn
  <2>7. b = EpisodeTurns(tagged, p, eps, late, room)[N] /\ N \in 0..Len(eps)
    BY <2>1, <2>5 DEF eps
  <2> QED BY <1>2, <2>3, <2>6, <2>7 DEF b
<1> QED BY <1>3, <1>4, <1>5, <1>6

\* A payload with which no turn stumbles.
IsPayload(payload) ==
  /\ Len(payload) \in Nat
  /\ \A k \in 1..Len(payload) :
       /\ payload[k].number # Null /\ Len(payload[k].episodes) \in Nat
       /\ \A n \in 1..Len(payload[k].episodes) : payload[k].episodes[n].number # Null

LEMMA EveryPayloadTurn ==
  ASSUME NEW v, NEW before, Grown("tmdb", v, before), Tmdb5(before), NEW s \in Existing(before.view, "series"),
         NEW payload, IsPayload(payload), NEW seen, NEW late, NEW room, IsRoom(room)
  PROVE  \A n \in 0..Len(payload) : LET acc == PayloadTurns(before, s, payload, seen, late, room)[n] IN
           /\ Grown("tmdb", v, acc) /\ Tmdb5(acc)
           /\ \A u \in Tables : Existing(before.view, u) \subseteq Existing(acc.view, u)
<1> DEFINE N == Len(payload)
           t == PayloadTurns(before, s, payload, seen, late, room)
           OK(acc) == /\ Grown("tmdb", v, acc) /\ Tmdb5(acc)
                      /\ \A u \in Tables : Existing(before.view, u) \subseteq Existing(acc.view, u)
           S == {n \in 0..N : OK(t[n])}
<1>0. N \in Nat /\ \A k \in 1..N : /\ payload[k].number # Null /\ Len(payload[k].episodes) \in Nat
                                   /\ \A n \in 1..Len(payload[k].episodes) : payload[k].episodes[n].number # Null
  BY DEF IsPayload
<1>1. /\ t[0] = [before EXCEPT !.left = FALSE]
      /\ \A n \in 1..N : t[n] = TmdbSeason(t[n - 1], s, payload[n], seen, late, room)
  BY <1>0, PayloadTurnsAre
<1> HIDE DEF t, N
<1>2. 0 \in S
  <2>1. DOMAIN t[0] = DOMAIN before /\ t[0].view = before.view
    BY <1>1 DEF Tmdb5
  <2> QED BY <1>0, <2>1 DEF Grown, IsAcc, Tmdb5
<1>3. ASSUME NEW n \in 1..N, n - 1 \in S
      PROVE  n \in S
  <2> DEFINE acc == t[n - 1]  season == payload[n]  b == TmdbSeason(acc, s, season, seen, late, room)
  <2>1. /\ Grown("tmdb", v, acc) /\ Tmdb5(acc)
        /\ \A u \in Tables : Existing(before.view, u) \subseteq Existing(acc.view, u)
    BY <1>0, <1>3
  <2>2. season.number # Null /\ Len(season.episodes) \in Nat /\ \A k \in 1..Len(season.episodes) : season.episodes[k].number # Null
    BY <1>0
  <2>3. t[n] = b
    BY <1>1
  <2> HIDE DEF acc, season
  <2>4. s \in Existing(acc.view, "series")
    BY <2>1, TablesAre
  <2>5. Grown("tmdb", v, b) /\ Tmdb5(b) /\ \A u \in Tables : Existing(acc.view, u) \subseteq Existing(b.view, u)
    BY <2>1, <2>2, <2>4, TmdbSeasonGrows
  <2> HIDE DEF b
  <2>6. OK(b)
    BY <2>1, <2>5
  <2> QED BY <1>0, <2>3, <2>6
<1> HIDE DEF S
<1>4. \A n \in 0..N : n \in S
  BY <1>0, <1>2, <1>3, EveryTurn
<1> QED BY <1>4 DEF S, t, N

LEMMA TmdbSeriesGrows ==
  ASSUME NEW v, NEW before, Grown("tmdb", v, before), Tmdb5(before), NEW s \in Existing(before.view, "series"),
         NEW payload, payload # NoPayload => IsPayload(payload), NEW seen, NEW late, NEW room, IsRoom(room)
  PROVE  LET acc == TmdbSeries(before, s, payload, seen, late, room) IN
           /\ Grown("tmdb", v, acc) /\ Tmdb5(acc)
           /\ \A u \in Tables : Existing(before.view, u) \subseteq Existing(acc.view, u)
<1>1. CASE payload = NoPayload
  BY <1>1 DEF TmdbSeries
<1>2. CASE payload # NoPayload
  <2>1. Len(payload) \in 0..Len(payload)
    BY <1>2 DEF IsPayload
  <2>2. \A n \in 0..Len(payload) : LET acc == PayloadTurns(before, s, payload, seen, late, room)[n] IN
           /\ Grown("tmdb", v, acc) /\ Tmdb5(acc)
           /\ \A u \in Tables : Existing(before.view, u) \subseteq Existing(acc.view, u)
    BY <1>2, EveryPayloadTurn
  <2> QED BY <1>2, <2>1, <2>2 DEF TmdbSeries
<1> QED BY <1>1, <1>2

LEMMA EveryTmdbTurn ==
  ASSUME NEW seen, IsView(seen), Sound(seen), NEW payload, NEW order, NEW late, NEW room, IsRoom(room),
         Len(order) \in Nat, 
         \A n \in 1..Len(order) : /\ order[n] \in Existing(seen, "series")
                                  /\ payload[order[n]] # NoPayload => IsPayload(payload[order[n]])
  PROVE  \A n \in 0..Len(order) : LET acc == TmdbTurns(seen, payload, order, late, room)[n] IN
           Grown("tmdb", seen, acc) /\ Tmdb5(acc)
<1> DEFINE N == Len(order)
           t == TmdbTurns(seen, payload, order, late, room)
           OK(acc) == Grown("tmdb", seen, acc) /\ Tmdb5(acc)
           S == {n \in 0..N : OK(t[n])}
<1>0. N \in Nat /\ \A n \in 1..N : order[n] \in Existing(seen, "series")
  OBVIOUS
<1>5. \A n \in 1..N : payload[order[n]] # NoPayload => IsPayload(payload[order[n]])
  OBVIOUS
<1>1. /\ t[0] = [view |-> seen, full |-> FALSE, new |-> 0, left |-> FALSE, hurt |-> {}]
      /\ \A n \in 1..N : t[n] = TmdbSeries(t[n - 1], order[n], payload[order[n]], seen, late, room)
  BY <1>0, TmdbTurnsAre
<1> HIDE DEF t, N
<1>2. 0 \in S
  <2>1. DOMAIN t[0] = {"view", "full", "new", "left", "hurt"} /\ t[0].view = seen
    BY <1>1
  <2> QED BY <1>0, <2>1, ExtendsItself DEF Grown, IsAcc, Tmdb5
<1>3. ASSUME NEW n \in 1..N, n - 1 \in S
      PROVE  n \in S
  <2> DEFINE acc == t[n - 1]  s == order[n]  x == payload[s]  b == TmdbSeries(acc, s, x, seen, late, room)
  <2>1. /\ Grown("tmdb", seen, acc) /\ Tmdb5(acc)
        /\ s \in Existing(seen, "series") /\ (x # NoPayload => IsPayload(x))
    <3>1. Grown("tmdb", seen, acc) /\ Tmdb5(acc)
      BY <1>3
    <3>2. s \in Existing(seen, "series")
      BY <1>0
    <3>3. x # NoPayload => IsPayload(x)
      BY <1>5
    <3> QED BY <3>1, <3>2, <3>3
  <2>3. t[n] = b
    BY <1>1
  <2> HIDE DEF acc, s, x
  <2>4. s \in Existing(acc.view, "series")
    BY <2>1, ExtendsExisting, TablesAre DEF Grown
  <2>5. Grown("tmdb", seen, b) /\ Tmdb5(b) /\ \A u \in Tables : Existing(acc.view, u) \subseteq Existing(b.view, u)
    BY <2>1, <2>4, TmdbSeriesGrows
  <2> HIDE DEF b
  <2> QED BY <1>0, <2>3, <2>5
<1> HIDE DEF S
<1>4. \A n \in 0..N : n \in S
  BY <1>0, <1>2, <1>3, EveryTurn
<1> QED BY <1>4 DEF S, t, N

\* The loop over the series of an answer.
Heal3(seen, acc) ==
  /\ DOMAIN acc = {"view", "of", "byId"}
  /\ Extends("watch", seen, acc.view)
  /\ \A t \in Tables : Existing(acc.view, t) = Existing(seen, t)
  /\ \A x \in DOMAIN acc.of : acc.of[x] \in Existing(seen, "series")
  /\ \A x \in DOMAIN acc.byId : acc.byId[x] \in Existing(seen, "series")

\* Healing the id of a series keeps the tables in order, one and all of them.
LEMMA HealedSeriesIs ==
  ASSUME NEW seen, NEW acc, Heal3(seen, acc), NEW listing, NEW x, x # Null
  PROVE  Heal3(seen, HealedSeries(seen, listing, acc, x))
<1> DEFINE found == ResolvedSeries(seen, acc.byId, listing, x)
           s == Min(found)
           w == Put(acc.view, "series", s, "jellyfin", x)
           b == HealedSeries(seen, listing, acc, x)
<1>0. "series" \in Tables /\ {"jellyfin", "tvdb", "imdb"} \subseteq Columns["series"] /\ Follows("watch", "series", "jellyfin")
  BY TablesAre DEF Follows
<1>1. found \subseteq Existing(seen, "series")
  <2>1. CASE x \in DOMAIN acc.byId
    BY <2>1 DEF ResolvedSeries, Heal3
  <2>2. CASE x \notin DOMAIN acc.byId
    <3> DEFINE by(c) == IF x \in DOMAIN listing.providers THEN With(seen, "series", c, listing.providers[x][c]) ELSE {}
    <3>1. found = IF by("tvdb") # {} THEN by("tvdb") ELSE by("imdb")
      BY <2>2 DEF ResolvedSeries
    <3>2. by("tvdb") \subseteq Existing(seen, "series") /\ by("imdb") \subseteq Existing(seen, "series")
      BY <1>0, WithIs
    <3> QED BY <3>1, <3>2
  <2> QED BY <2>1, <2>2
<1>2. CASE found = {}
  BY <1>2 DEF HealedSeries
<1>3. CASE found # {}
  <2>1. b = [acc EXCEPT !.view = w, !.byId = Also(acc.byId, x, s), !.of = Also(acc.of, x, s)]
    BY <1>3 DEF HealedSeries
  <2>2. s \in Existing(seen, "series")
    <3>1. found \subseteq Slots["series"]
      BY <1>1 DEF Existing
    <3> HIDE DEF found
    <3> QED BY <1>0, <1>1, <1>3, <3>1, FirstIs
  <2>3. s \in Existing(acc.view, "series") /\ Extends("watch", seen, acc.view)
    BY <1>0, <2>2 DEF Heal3
  <2> HIDE DEF s, b
  <2>4. Extends("watch", seen, w) /\ \A t \in Tables : Existing(w, t) = Existing(acc.view, t)
    BY <1>0, <2>3, PutGrows
  <2> HIDE DEF w
  <2>5. /\ DOMAIN b = DOMAIN acc /\ b.view = w /\ b.byId = Also(acc.byId, x, s) /\ b.of = Also(acc.of, x, s)
    BY <2>1 DEF Heal3
  <2>6. (\A y \in DOMAIN b.byId : b.byId[y] \in Existing(seen, "series")) /\ (\A y \in DOMAIN b.of : b.of[y] \in Existing(seen, "series"))
    BY <2>2, <2>5 DEF Heal3, Also
  <2> QED BY <2>4, <2>5, <2>6 DEF Heal3, b
<1> QED BY <1>2, <1>3

LEMMA EveryHealTurn ==
  ASSUME NEW seen, IsView(seen), Sound(seen), NEW listing, NEW order, Len(order) \in Nat, \A n \in 1..Len(order) : order[n] # Null
  PROVE  \A n \in 0..Len(order) : Heal3(seen, HealTurns(seen, listing, order)[n])
<1> DEFINE N == Len(order)
           t == HealTurns(seen, listing, order)
           X == {seen.series[s].jellyfin : s \in Slots.series} \ {Null}
           byId == [x \in X |-> Min(With(seen, "series", "jellyfin", x))]
           S == {n \in 0..N : Heal3(seen, t[n])}
<1>0. N \in Nat /\ \A n \in 1..N : order[n] # Null
  OBVIOUS
<1>1. /\ t[0] = [view |-> seen, of |-> <<>>, byId |-> byId]
      /\ \A n \in 1..N : t[n] = HealedSeries(seen, listing, t[n - 1], order[n])
  BY <1>0, HealTurnsAre
<1> HIDE DEF t, N
<1>2. 0 \in S
  <2>1. \A x \in X : byId[x] \in Existing(seen, "series")
    <3>1. ASSUME NEW x \in X PROVE Min(With(seen, "series", "jellyfin", x)) \in Existing(seen, "series")
      <4>1. "series" \in Tables /\ "jellyfin" \in Columns["series"]
        BY TablesAre
      <4>2. With(seen, "series", "jellyfin", x) # {}
        BY DEF With
      <4>3. With(seen, "series", "jellyfin", x) \subseteq Existing(seen, "series") /\ With(seen, "series", "jellyfin", x) \subseteq Slots["series"]
        BY <4>1, WithIs
      <4> QED BY <4>1, <4>2, <4>3, FirstIs
    <3> QED BY <3>1
  <2>2. DOMAIN byId = X
    OBVIOUS
  <2> HIDE DEF byId
  <2>3. /\ DOMAIN t[0] = {"view", "of", "byId"} /\ t[0].view = seen /\ t[0].of = <<>> /\ t[0].byId = byId
    BY <1>1
  <2>4. DOMAIN <<>> = {}
    OBVIOUS
  <2> QED BY <1>0, <2>1, <2>2, <2>3, <2>4, ExtendsItself DEF Heal3
<1>3. ASSUME NEW n \in 1..N, n - 1 \in S
      PROVE  n \in S
  BY <1>0, <1>1, <1>3, HealedSeriesIs
<1> HIDE DEF S
<1>4. \A n \in 0..N : n \in S
  BY <1>0, <1>2, <1>3, EveryTurn
<1> QED BY <1>4 DEF S, t, N

-----------------------------------------------------------------------------
\* The rows of watch_history, of a library with these episodes.
WatchRows(episodes) == [episode : episodes, status : Statuses \cup {Dropped}]

\* The loop over the episodes of an answer.
Item5(seen, acc) ==
  /\ DOMAIN acc = {"view", "of", "resolved", "added", "status"}
  /\ Extends("watch", seen, acc.view)
  /\ \A t \in Tables : Existing(acc.view, t) = Existing(seen, t)
  /\ \A x \in DOMAIN acc.of : acc.of[x] \in Existing(seen, "series")
  /\ acc.status \in [Slots["episodes"] -> Statuses \cup {Dropped}]
  /\ acc.added \in Seq(WatchRows(Existing(seen, "episodes")))

\* The episode of an item of the answer is one, or there is none.
LEMMA EpisodeOfIs ==
  ASSUME NEW seen, NEW acc, Item5(seen, acc), NEW late, NEW item
  PROVE  EpisodeOf(acc, late, item) \in Existing(seen, "episodes") \cup {0}
<1> DEFINE found == Triple(acc.view, acc.of[item.series], item)
<1>1. found \subseteq Existing(seen, "episodes") /\ found \subseteq Slots["episodes"]
  <2>1. found \subseteq Existing(acc.view, "episodes")
    BY NumberedAre DEF Triple
  <2> QED BY <2>1, TablesAre DEF Item5, Existing
<1> HIDE DEF found
<1>2. found # {} => LastOf(found, late) \in Existing(seen, "episodes")
  BY <1>1, LastIs, TablesAre
<1> QED BY <1>2 DEF EpisodeOf, found

\* Healing the ids of an episode and its season keeps the tables in order.
LEMMA HealedEpisodeGrows ==
  ASSUME NEW seen, NEW v, Extends("watch", seen, v), NEW i \in Existing(v, "episodes"), NEW item, item.id # Null
  PROVE  /\ Extends("watch", seen, HealedEpisode(v, i, item))
         /\ \A t \in Tables : Existing(HealedEpisode(v, i, item), t) = Existing(v, t)
<1> DEFINE u == Put(v, "episodes", i, "jellyfin", item.id)
           p == v.episodes[i].season
           w == Put(u, "seasons", p, "jellyfin", item.of)
<1>0. /\ "seasons" \in Tables /\ "episodes" \in Tables /\ "jellyfin" \in Columns["seasons"] /\ "jellyfin" \in Columns["episodes"]
      /\ Follows("watch", "seasons", "jellyfin") /\ Follows("watch", "episodes", "jellyfin")
  BY TablesAre DEF Follows
<1>1. Extends("watch", seen, u) /\ \A t \in Tables : Existing(u, t) = Existing(v, t)
  BY <1>0, PutGrows
<1>2. p \in Existing(v, "seasons")
  BY DEF Extends, Sound
<1>3. HealedEpisode(v, i, item) = IF item.of = Null THEN u ELSE w
  BY DEF HealedEpisode
<1> HIDE DEF p, u
<1>4. item.of # Null => Extends("watch", seen, w) /\ \A t \in Tables : Existing(w, t) = Existing(u, t)
  BY <1>0, <1>1, <1>2, PutGrows
<1> HIDE DEF w
<1> QED BY <1>1, <1>3, <1>4

\* An item of the answer does, and every one.
LEMMA ProcessedIs ==
  ASSUME NEW seen, NEW acc, Item5(seen, acc), NEW pick, NEW late, NEW item, item.id # Null, item.status \in Statuses
  PROVE  Item5(seen, Processed(pick, late, acc, item))
<1> DEFINE i == EpisodeOf(acc, late, item)
           b == Processed(pick, late, acc, item)
           w == HealedEpisode(acc.view, i, item)
<1>1. CASE i = 0
  BY <1>1 DEF Processed
<1>2. CASE i # 0
  <2>1. i \in Existing(seen, "episodes")
    BY <1>2, EpisodeOfIs
  <2>2. b = [acc EXCEPT
              !.view = w, !.resolved = @ \cup {i},
              !.status[i] = IF pick[i] # 0 THEN item.status ELSE @,
              !.added = IF pick[i] # 0 \/ item.status \notin Begun THEN @
                        ELSE Append(@, [episode |-> i, status |-> item.status])]
    BY <1>2 DEF Processed
  <2>3. i \in Existing(acc.view, "episodes") /\ Extends("watch", seen, acc.view) /\ i \in Slots["episodes"]
    BY <2>1, TablesAre DEF Item5, Existing
  <2> HIDE DEF i, b
  <2>4. Extends("watch", seen, w) /\ \A t \in Tables : Existing(w, t) = Existing(acc.view, t)
    BY <2>3, HealedEpisodeGrows
  <2> HIDE DEF w
  <2>5. /\ DOMAIN b = DOMAIN acc /\ b.view = w /\ b.of = acc.of
        /\ b.status = [acc.status EXCEPT ![i] = IF pick[i] # 0 THEN item.status ELSE @]
        /\ b.added = IF pick[i] # 0 \/ item.status \notin Begun THEN acc.added
                     ELSE Append(acc.added, [episode |-> i, status |-> item.status])
    BY <2>2 DEF Item5
  <2>6. b.status \in [Slots["episodes"] -> Statuses \cup {Dropped}]
    BY <2>3, <2>5 DEF Item5
  <2>7. b.added \in Seq(WatchRows(Existing(seen, "episodes")))
    <3>1. [episode |-> i, status |-> item.status] \in WatchRows(Existing(seen, "episodes"))
      BY <2>1 DEF WatchRows
    <3> QED BY <2>5, <3>1 DEF Item5
  <2> QED BY <2>4, <2>5, <2>6, <2>7 DEF Item5, b
<1> QED BY <1>1, <1>2

LEMMA EveryItemTurn ==
  ASSUME NEW seen, NEW healed, Heal3(seen, healed), NEW items, Len(items) \in Nat,
         \A n \in 1..Len(items) : items[n].id # Null /\ items[n].status \in Statuses,
         NEW late, NEW episodes, NEW loaded \in Seq(WatchRows(episodes)), NEW pick \in WatchPicks(loaded)
  PROVE  \A n \in 0..Len(items) : Item5(seen, ItemTurns(healed, items, late, loaded, pick)[n])
<1> DEFINE N == Len(items)
           t == ItemTurns(healed, items, late, loaded, pick)
           S == {n \in 0..N : Item5(seen, t[n])}
           st == [i \in Slots.episodes |-> IF pick[i] = 0 THEN Dropped ELSE loaded[pick[i]].status]
<1>0. N \in Nat /\ \A n \in 1..N : items[n].id # Null /\ items[n].status \in Statuses
  OBVIOUS
<1>1. /\ t[0] = BeforeItems(healed, loaded, pick)
      /\ \A n \in 1..N : t[n] = Processed(pick, late, t[n - 1], items[n])
  BY <1>0, ItemTurnsAre
<1> HIDE DEF t, N
<1>2. 0 \in S
  <2>1. st \in [Slots["episodes"] -> Statuses \cup {Dropped}]
    <3>1. ASSUME NEW i \in Slots["episodes"]
          PROVE  st[i] \in Statuses \cup {Dropped}
      <4>1. pick \in [Slots["episodes"] -> 0..Len(loaded)]
        BY DEF WatchPicks
      <4>2. pick[i] # 0 => pick[i] \in 1..Len(loaded)
        BY <4>1
      <4>3. pick[i] # 0 => loaded[pick[i]] \in WatchRows(episodes)
        BY <4>2
      <4>4. pick[i] # 0 => loaded[pick[i]].status \in Statuses \cup {Dropped}
        BY <4>3 DEF WatchRows
      <4> QED BY <4>4
    <3> QED BY <3>1
  <2> HIDE DEF st
  <2>2. t[0] = [view |-> healed.view, of |-> healed.of, resolved |-> {}, added |-> <<>>, status |-> st]
    BY <1>1 DEF BeforeItems, st
  <2>3. /\ DOMAIN t[0] = {"view", "of", "resolved", "added", "status"} /\ t[0].view = healed.view /\ t[0].of = healed.of
        /\ t[0].added = <<>> /\ t[0].status = st
    BY <2>2
  <2>4. <<>> \in Seq(WatchRows(Existing(seen, "episodes")))
    OBVIOUS
  <2>5. Extends("watch", seen, healed.view) /\ (\A u \in Tables : Existing(healed.view, u) = Existing(seen, u))
        /\ \A x \in DOMAIN healed.of : healed.of[x] \in Existing(seen, "series")
    BY DEF Heal3
  <2>6. Item5(seen, t[0])
    BY <2>1, <2>3, <2>4, <2>5 DEF Item5
  <2> QED BY <1>0, <2>6
<1>3. ASSUME NEW n \in 1..N, n - 1 \in S
      PROVE  n \in S
  BY <1>0, <1>1, <1>3, ProcessedIs
<1> HIDE DEF S
<1>4. \A n \in 0..N : n \in S
  BY <1>0, <1>2, <1>3, EveryTurn
<1> QED BY <1>4 DEF S, t, N

-----------------------------------------------------------------------------
\* Sequences of the elements of a set.

\* There are finitely many row ids, so sets of rows can be put in an order.
LEMMA SlotsFinite ==
  ASSUME NEW t \in Tables, NEW S, S \subseteq Slots[t]
  PROVE  IsFiniteSet(S)
<1>1. PICK n \in Nat : Slots[t] \subseteq 1..n
  BY SlotsAre
<1>2. IsFiniteSet(1..n)
  BY FS_Interval
<1> QED BY <1>1, <1>2, FS_Subset

\* s has each element of S once.
Enumerates(s, S) ==
  /\ Len(s) \in Nat
  /\ \A n \in 1..Len(s) : s[n] \in S
  /\ \A m, n \in 1..Len(s) : s[m] = s[n] => m = n
  /\ \A x \in S : \E n \in 1..Len(s) : s[n] = x

LEMMA InjectionEnumerates ==
  ASSUME NEW S, IsFiniteSet(S), NEW s \in [1..Cardinality(S) -> S],
         \A m, n \in 1..Cardinality(S) : s[m] = s[n] => m = n
  PROVE  Enumerates(s, S)
<1> DEFINE N == Cardinality(S)
<1>1. N \in Nat
  BY FS_CardinalityType
<1>2. s \in Injection(1..N, S)
  BY DEF Injection, IsInjective
<1>3. Cardinality(1..N) = N
  BY <1>1, FS_Interval
<1>4. s \in Surjection(1..N, S)
  BY <1>2, <1>3, FS_Injection
<1>5. \A x \in S : \E n \in 1..N : s[n] = x
  BY <1>4 DEF Surjection
<1>6. Len(s) = N
  BY <1>1
<1> QED BY <1>1, <1>5, <1>6 DEF Enumerates

\* The orders in which a set can be gone through.
LEMMA SetToSeqIs ==
  ASSUME NEW S, IsFiniteSet(S)
  PROVE  Enumerates(SetToSeq(S), S)
<1> DEFINE N == Cardinality(S)
<1>1. ExistsBijection(1..N, S)
  BY FS_CardinalityType
<1>2. \E f \in [1..N -> S] : IsInjective(f)
  BY <1>1 DEF ExistsBijection, Bijection, Injection
<1>3. SetToSeq(S) \in [1..N -> S] /\ IsInjective(SetToSeq(S))
  BY <1>2 DEF SetToSeq
<1>4. \A m, n \in 1..N : SetToSeq(S)[m] = SetToSeq(S)[n] => m = n
  BY <1>3 DEF IsInjective
<1> QED BY <1>3, <1>4, InjectionEnumerates

LEMMA SetToSeqsAre ==
  ASSUME NEW S, IsFiniteSet(S), NEW s \in SetToSeqs(S)
  PROVE  Enumerates(s, S)
<1>1. s \in [1..Cardinality(S) -> S] /\ \A m, n \in 1..Cardinality(S) : m # n => s[m] # s[n]
  BY DEF SetToSeqs
<1>2. \A m, n \in 1..Cardinality(S) : s[m] = s[n] => m = n
  BY <1>1
<1> QED BY <1>1, <1>2, InjectionEnumerates

\* A sequence of the values that it has.
LEMMA OwnRange ==
  ASSUME NEW s, s \in Seq(Range(s))
  PROVE  /\ Len(s) \in Nat /\ DOMAIN s = 1..Len(s)
         /\ \A n \in 1..Len(s) : s[n] \in Range(s)
OBVIOUS

\* The rows of watch_history stay valid as episodes are added.
LEMMA SeqMonotone ==
  ASSUME NEW S, NEW T, S \subseteq T, NEW s \in Seq(S)
  PROVE  s \in Seq(T)
<1>1. s \in [1..Len(s) -> T] /\ Len(s) \in Nat
  OBVIOUS
<1> QED BY <1>1

LEMMA WatchRowsMonotone ==
  ASSUME NEW S, NEW T, S \subseteq T, NEW s \in Seq(WatchRows(S))
  PROVE  s \in Seq(WatchRows(T))
<1>1. WatchRows(S) \subseteq WatchRows(T)
  BY DEF WatchRows
<1> QED BY <1>1, SeqMonotone

-----------------------------------------------------------------------------
\* What an item may be.
IsItem(item) ==
  /\ IsFiniteSet(item.seasons) /\ Null \notin item.seasons
  /\ Len(item.episodes) \in Nat
  /\ DOMAIN item.episodes = 1..Len(item.episodes)
  /\ \A n \in 1..Len(item.episodes) :
       item.episodes[n].number # Null /\ item.episodes[n].season # Null /\ item.episodes[n].id # Null

\* What the services may answer, from the assumptions about the constants.
LEMMA ItemsAre ==
  ASSUME NEW kind \in ImportKinds, NEW item \in Items[kind]
  PROVE  IsItem(item)
<1> DEFINE eps == item.episodes
<1>1. /\ IsFiniteSet(item.seasons) /\ Null \notin item.seasons
      /\ eps \in Seq(Range(eps))
      /\ \A ep \in Range(eps) : Null \notin {ep.id, ep.season, ep.number}
  BY SeriesImportsAssumption
<1> HIDE DEF eps
<1>2. Len(eps) \in Nat /\ DOMAIN eps = 1..Len(eps) /\ \A n \in 1..Len(eps) : eps[n] \in Range(eps)
  BY <1>1, OwnRange
<1>3. \A n \in 1..Len(eps) : eps[n].number # Null /\ eps[n].season # Null /\ eps[n].id # Null
  BY <1>1, <1>2
<1> QED BY <1>1, <1>2, <1>3 DEF IsItem, eps

LEMMA PayloadsAre ==
  ASSUME NEW seen, NEW payload \in TmdbAnswers(seen), NEW s \in Named(seen)
  PROVE  payload[s] # NoPayload => IsPayload(payload[s])
<1> DEFINE x == seen.series[s].tmdb  p == payload[s]
<1>1. p \in {NoPayload} \cup IF x \in DOMAIN Payloads THEN Payloads[x] ELSE {}
  BY DEF TmdbAnswers, Payload
<1> HIDE DEF x, p
<1> SUFFICES ASSUME p # NoPayload PROVE IsPayload(p)
  BY DEF p
<1>2. x \in DOMAIN Payloads /\ p \in Payloads[x]
  BY <1>1
<1>3. /\ p \in Seq(Range(p))
      /\ \A season \in Range(p) :
           /\ season.number # Null /\ season.episodes \in Seq(Range(season.episodes))
           /\ \A ep \in Range(season.episodes) : ep.number # Null
  BY <1>2, SeriesTmdbAssumption
<1>4. Len(p) \in Nat /\ \A k \in 1..Len(p) : p[k] \in Range(p)
  BY <1>3, OwnRange
<1>5. ASSUME NEW k \in 1..Len(p)
      PROVE  /\ p[k].number # Null /\ Len(p[k].episodes) \in Nat
             /\ \A n \in 1..Len(p[k].episodes) : p[k].episodes[n].number # Null
  <2> DEFINE eps == p[k].episodes
  <2>1. p[k].number # Null /\ eps \in Seq(Range(eps)) /\ \A ep \in Range(eps) : ep.number # Null
    BY <1>3, <1>4
  <2> HIDE DEF eps
  <2>2. Len(eps) \in Nat /\ \A n \in 1..Len(eps) : eps[n] \in Range(eps)
    BY <2>1, OwnRange
  <2>3. \A n \in 1..Len(eps) : eps[n].number # Null
    BY <2>1, <2>2
  <2> QED BY <2>1, <2>2, <2>3 DEF eps
<1> QED BY <1>4, <1>5 DEF IsPayload

\* What Jellyfin may answer for a user.
IsListing(listing) ==
  /\ Len(listing.episodes) \in Nat
  /\ DOMAIN listing.episodes = 1..Len(listing.episodes)
  /\ \A n \in 1..Len(listing.episodes) :
       LET item == listing.episodes[n] IN item.status \in Statuses /\ item.id # Null /\ item.series # Null

LEMMA ListingsAre ==
  ASSUME NEW listing \in Listings
  PROVE  IsListing(listing)
<1> DEFINE eps == listing.episodes
<1>1. /\ eps \in Seq(Range(eps))
      /\ \A item \in Range(eps) : item.status \in Statuses /\ Null \notin {item.id, item.series}
  BY SeriesWatchesAssumption
<1> HIDE DEF eps
<1>2. Len(eps) \in Nat /\ DOMAIN eps = 1..Len(eps) /\ \A n \in 1..Len(eps) : eps[n] \in Range(eps)
  BY <1>1, OwnRange
<1>3. \A n \in 1..Len(eps) : eps[n].status \in Statuses /\ eps[n].id # Null /\ eps[n].series # Null
  BY <1>1, <1>2
<1> QED BY <1>2, <1>3 DEF IsListing, eps

\* An order of the series of an answer.
LEMMA OrdersAre ==
  ASSUME NEW listing, IsListing(listing), NEW order \in Orders(listing)
  PROVE  /\ Enumerates(order, {listing.episodes[n].series : n \in 1..Len(listing.episodes)})
         /\ \A n \in 1..Len(order) : order[n] # Null
<1> DEFINE eps == listing.episodes
           N == Len(eps)
           X == {eps[n].series : n \in 1..N}
           f == [n \in 1..N |-> eps[n].series]
<1>1. N \in Nat /\ DOMAIN eps = 1..N /\ \A n \in 1..N : eps[n].series # Null
  BY DEF IsListing
<1>2. order \in SetToSeqs(X)
  BY <1>1 DEF Orders
<1>3. IsFiniteSet(X)
  <2>1. f \in Surjection(1..N, X)
    BY DEF Surjection
  <2>0. 1 \in Int /\ N \in Int
    BY <1>1
  <2> HIDE DEF f, X, N
  <2>2. IsFiniteSet(1..N)
    BY <2>0, FS_Interval
  <2> QED BY <2>1, <2>2, FS_Surjection
<1>4. Enumerates(order, X)
  BY <1>2, <1>3, SetToSeqsAre
<1>5. \A n \in 1..Len(order) : order[n] # Null
  BY <1>1, <1>4 DEF Enumerates
<1> QED BY <1>4, <1>5

-----------------------------------------------------------------------------
\* What each job makes of the tables it has read.

\* Filling or creating a series touches its row alone, and fills what is empty.
LEMMA FilledSeriesGrows ==
  ASSUME NEW kind \in ImportKinds, NEW v, IsView(v), Sound(v), NEW s \in Slots["series"], NEW ids,
         s \in Existing(v, "series") \/ ~Nameless(kind, ids)
  PROVE  LET w == FilledSeries(v, kind, s, ids) IN
         /\ Extends(kind, v, w)
         /\ s \in Existing(w, "series")
         /\ \A t \in Tables : \A j \in Slots[t] : t # "series" \/ j # s => w[t][j] = v[t][j]
         /\ \A c \in Columns["series"] : w["series"][s][c] =
              IF c \in Fills[kind] /\ v["series"][s][c] = Null THEN ids[c] ELSE v["series"][s][c]
<1> DEFINE row == [c \in Columns["series"] |->
                     IF c \in Fills[kind] /\ v["series"][s][c] = Null THEN ids[c] ELSE v["series"][s][c]]
           w == PutRow(v, "series", s, row)
<1>1. FilledSeries(v, kind, s, ids) = w
  BY DEF FilledSeries
<1>2. row = [c \in Columns["series"] |-> row[c]] /\ "series" \in Tables
  BY TablesAre
<1>3. \A c \in Columns["series"] : row[c] = IF c \in Fills[kind] /\ v["series"][s][c] = Null THEN ids[c] ELSE v["series"][s][c]
  OBVIOUS
<1> HIDE DEF row
<1>4. /\ IsView(w)
      /\ \A u \in Tables : \A j \in Slots[u] : w[u][j] = IF u = "series" /\ j = s THEN row ELSE v[u][j]
  BY <1>2, PutRowIs
<1> HIDE DEF w
<1>5. \A t \in Tables : \A j \in Slots[t] : t # "series" \/ j # s => w[t][j] = v[t][j]
  BY <1>4
<1>6. w["series"][s] = row
  BY <1>2, <1>4
<1>7. \A t \in Tables : \A i \in Slots[t] : \A c \in Columns[t] : v[t][i][c] \in {Null, w[t][i][c]}
  BY <1>3, <1>4, TablesAre
<1>8. Covers(v, w)
  BY <1>7 DEF Covers
<1>9. \A t \in Tables : Existing(v, t) \subseteq Existing(w, t)
  BY <1>8, CoversExisting
<1>10. s \in Existing(w, "series")
  <2>1. CASE s \in Existing(v, "series")
    BY <2>1, <1>9, <1>2
  <2>2. CASE s \notin Existing(v, "series") /\ ~Nameless(kind, ids)
    <3>1. PICK c \in Fills[kind] : ids[c] # Null
      BY <2>2 DEF Nameless
    <3>2. c \in Columns["series"]
      BY <3>1, TablesAre DEF Fills, ImportKinds, External
    <3>3. v["series"][s][c] = Null
      BY <2>2, <3>2 DEF Existing, Exists
    <3>4. w["series"][s][c] # Null
      BY <3>1, <3>2, <3>3, <1>3, <1>6
    <3> QED BY <3>2, <3>4 DEF Existing, Exists
  <2> QED BY <2>1, <2>2
<1>11. \A t \in {"seasons", "episodes"} : Existing(w, t) = Existing(v, t)
  BY <1>5, TablesAre DEF Existing, Exists
<1>12. Sound(w)
  <2>1. ASSUME NEW i \in Existing(w, "seasons")
        PROVE  w["seasons"][i]["series"] \in Existing(w, "series") /\ w["seasons"][i]["number"] # Null
    <3>1. i \in Existing(v, "seasons") /\ i \in Slots["seasons"]
      BY <2>1, <1>11 DEF Existing
    <3>2. w["seasons"][i] = v["seasons"][i]
      BY <3>1, <1>5, TablesAre
    <3> QED BY <3>1, <3>2, <1>9, <1>2 DEF Sound
  <2>2. ASSUME NEW i \in Existing(w, "episodes")
        PROVE  w["episodes"][i]["season"] \in Existing(w, "seasons") /\ w["episodes"][i]["number"] # Null
    <3>1. i \in Existing(v, "episodes") /\ i \in Slots["episodes"]
      BY <2>2, <1>11 DEF Existing
    <3>2. w["episodes"][i] = v["episodes"][i]
      BY <3>1, <1>5, TablesAre
    <3> QED BY <3>1, <3>2, <1>11 DEF Sound
  <2> QED BY <2>1, <2>2 DEF Sound
<1>13. Extends(kind, v, w)
  BY <1>4, <1>7, <1>8, <1>12 DEF Extends
<1>14. \A c \in Columns["series"] : w["series"][s][c] =
              IF c \in Fills[kind] /\ v["series"][s][c] = Null THEN ids[c] ELSE v["series"][s][c]
  BY <1>3, <1>6
<1> QED BY <1>1, <1>5, <1>10, <1>13, <1>14

\* The seasons that Sonarr's import adds, and the order in which it does.
LEMMA MissingNumbers ==
  ASSUME NEW v, NEW s, NEW numbers, IsFiniteSet(numbers), Null \notin numbers, NEW late
  PROVE  LET missing == numbers \ DOMAIN SeasonsByNumber(v, s, late) IN
         /\ Enumerates(SetToSeq(missing), missing)
         /\ \A n \in 1..Len(SetToSeq(missing)) : SetToSeq(missing)[n] # Null
<1> DEFINE missing == numbers \ DOMAIN SeasonsByNumber(v, s, late)
<1>1. IsFiniteSet(missing) /\ missing \subseteq numbers
  BY FS_Subset
<1> HIDE DEF missing
<1>2. Enumerates(SetToSeq(missing), missing)
  BY <1>1, SetToSeqIs
<1>3. \A n \in 1..Len(SetToSeq(missing)) : SetToSeq(missing)[n] # Null
  BY <1>1, <1>2 DEF Enumerates
<1> QED BY <1>2, <1>3 DEF missing

\* Each loop as a whole keeps the tables in order: Sonarr's seasons and episodes,
\* Jellyfin's episodes, the TMDB update, the heals, the pass of the watch sync.
LEMMA AddedSeasonsGrow ==
  ASSUME NEW kind, NEW v, IsView(v), Sound(v), NEW s \in Existing(v, "series"), NEW numbers,
         IsFiniteSet(numbers), Null \notin numbers, NEW late, NEW room, IsRoom(room)
  PROVE  Grown(kind, v, AddedSeasons(v, s, numbers, late, room))
<1> DEFINE list == SetToSeq(numbers \ DOMAIN SeasonsByNumber(v, s, late))
<1>1. Len(list) \in Nat /\ \A n \in 1..Len(list) : list[n] # Null
  BY MissingNumbers DEF Enumerates
<1>2. AddedSeasons(v, s, numbers, late, room) = SeasonTurns(v, s, list, room)[Len(list)]
  BY DEF AddedSeasons, AfterSeasons
<1> HIDE DEF list
<1>3. \A n \in 0..Len(list) : Grown(kind, v, SeasonTurns(v, s, list, room)[n])
  BY <1>1, EverySeasonTurn
<1>4. Len(list) \in 0..Len(list)
  BY <1>1
<1> QED BY <1>2, <1>3, <1>4

LEMMA SonarrGrows ==
  ASSUME NEW v, IsView(v), Sound(v), NEW seasons, IsSeasons(v, seasons), NEW episodes, NEW room,
         IsRoom(room), Len(episodes) \in Nat, \A n \in 1..Len(episodes) : episodes[n].number # Null
  PROVE  Grown("sonarr", v, AfterSonarr(v, seasons, episodes, room))
<1>1. \A n \in 0..Len(episodes) : Grown("sonarr", v, SonarrTurns(v, seasons, episodes, room)[n])
  BY EverySonarrTurn
<1>2. Len(episodes) \in 0..Len(episodes)
  OBVIOUS
<1> QED BY <1>1, <1>2 DEF AfterSonarr

LEMMA JellyfinGrows ==
  ASSUME NEW v, IsView(v), Sound(v), NEW s \in Existing(v, "series"), NEW episodes, NEW late, NEW room,
         IsRoom(room), Len(episodes) \in Nat,
         \A n \in 1..Len(episodes) : episodes[n].number # Null /\ episodes[n].season # Null /\ episodes[n].id # Null
  PROVE  Grown("jellyfin", v, AfterJellyfin(v, s, episodes, late, room))
<1>1. \A n \in 0..Len(episodes) : Grown("jellyfin", v, JellyfinTurns(v, s, episodes, late, room)[n])
  BY EveryJellyfinTurn
<1>2. Len(episodes) \in 0..Len(episodes)
  OBVIOUS
<1> QED BY <1>1, <1>2 DEF AfterJellyfin

\* The series that the TMDB update finds, and the order in which it takes them.
LEMMA NamedAre ==
  ASSUME NEW seen, NEW order \in SetToSeqs(Named(seen))
  PROVE  /\ Named(seen) \subseteq Existing(seen, "series")
         /\ Enumerates(order, Named(seen))
<1>1. Named(seen) \subseteq Existing(seen, "series")
  BY TablesAre DEF Named, Existing, Exists
<1>2. Named(seen) \subseteq Slots["series"] /\ "series" \in Tables
  BY TablesAre DEF Named
<1>3. IsFiniteSet(Named(seen))
  BY <1>2, SlotsFinite
<1>4. Enumerates(order, Named(seen))
  BY <1>3, SetToSeqsAre
<1> QED BY <1>1, <1>4

LEMMA TmdbGrows ==
  ASSUME NEW seen, IsView(seen), Sound(seen), NEW payload \in TmdbAnswers(seen),
         NEW order \in SetToSeqs(Named(seen)), NEW late, NEW room, IsRoom(room)
  PROVE  Grown("tmdb", seen, TmdbOutcome(seen, payload, order, late, room))
<1>1. /\ Len(order) \in Nat
      /\ \A n \in 1..Len(order) : order[n] \in Named(seen)
      /\ Named(seen) \subseteq Existing(seen, "series")
  BY NamedAre DEF Enumerates
<1>2. \A n \in 1..Len(order) : /\ order[n] \in Existing(seen, "series")
                               /\ payload[order[n]] # NoPayload => IsPayload(payload[order[n]])
  BY <1>1, PayloadsAre
<1>3. \A n \in 0..Len(order) : Grown("tmdb", seen, TmdbTurns(seen, payload, order, late, room)[n])
  BY <1>1, <1>2, EveryTmdbTurn
<1>4. Len(order) \in 0..Len(order)
  BY <1>1
<1> QED BY <1>3, <1>4 DEF TmdbOutcome

LEMMA HealsAre ==
  ASSUME NEW seen, IsView(seen), Sound(seen), NEW listing, IsListing(listing), NEW order \in Orders(listing)
  PROVE  Heal3(seen, SeriesHealed(seen, listing, order))
<1>1. Len(order) \in Nat /\ \A n \in 1..Len(order) : order[n] # Null
  BY OrdersAre DEF Enumerates
<1>2. \A n \in 0..Len(order) : Heal3(seen, HealTurns(seen, listing, order)[n])
  BY <1>1, EveryHealTurn
<1>3. Len(order) \in 0..Len(order)
  BY <1>1
<1> QED BY <1>2, <1>3 DEF SeriesHealed

\* What Jellyfin does not list becomes DROPPED, unless it was WATCHED.
LEMMA DropsIs ==
  ASSUME NEW seen, NEW acc, Item5(seen, acc)
  PROVE  /\ Item5(seen, Drops(acc))
         /\ Drops(acc).view = acc.view /\ Drops(acc).of = acc.of
         /\ Drops(acc).resolved = acc.resolved /\ Drops(acc).added = acc.added
         /\ \A i \in Slots["episodes"] : Drops(acc).status[i] =
              IF i \in acc.resolved \/ acc.status[i] = Watched THEN acc.status[i] ELSE Dropped
<1> DEFINE status == [i \in Slots["episodes"] |->
                        IF i \in acc.resolved \/ acc.status[i] = Watched THEN acc.status[i] ELSE Dropped]
           b == [acc EXCEPT !.status = status]
<1>1. b = Drops(acc)
  BY DEF Drops
<1>2. status \in [Slots["episodes"] -> Statuses \cup {Dropped}]
  BY DEF Item5
<1>3. /\ DOMAIN b = DOMAIN acc
      /\ b.view = acc.view /\ b.of = acc.of /\ b.resolved = acc.resolved /\ b.added = acc.added
      /\ b.status = status
  BY DEF Item5
<1>4. \A i \in Slots["episodes"] : status[i] =
              IF i \in acc.resolved \/ acc.status[i] = Watched THEN acc.status[i] ELSE Dropped
  OBVIOUS
<1> HIDE DEF b, status
<1>5. Item5(seen, b)
  BY <1>2, <1>3 DEF Item5
<1> QED BY <1>1, <1>3, <1>4, <1>5

\* What a pass of the watch sync comes to keeps the tables and the rows in order.
LEMMA WatchGrows ==
  ASSUME NEW seen, IsView(seen), Sound(seen), NEW listing \in Listings, NEW order \in Orders(listing), NEW late,
         NEW episodes, NEW loaded \in Seq(WatchRows(episodes)), NEW pick \in WatchPicks(loaded)
  PROVE  Item5(seen, WatchOutcome(seen, listing, order, late, loaded, pick))
<1> DEFINE healed == SeriesHealed(seen, listing, order)
           items == listing.episodes
           acc == ItemTurns(healed, items, late, loaded, pick)[Len(items)]
<1>1. IsListing(listing)
  BY ListingsAre
<1>2. Heal3(seen, healed)
  BY <1>1, HealsAre
<1>3. Len(items) \in Nat /\ \A n \in 1..Len(items) : items[n].id # Null /\ items[n].status \in Statuses
  BY <1>1 DEF IsListing
<1> HIDE DEF healed, items
<1>4. \A n \in 0..Len(items) : Item5(seen, ItemTurns(healed, items, late, loaded, pick)[n])
  BY <1>2, <1>3, EveryItemTurn
<1>5. Len(items) \in 0..Len(items)
  BY <1>3
<1>6. Item5(seen, acc)
  BY <1>4, <1>5
<1>7. WatchOutcome(seen, listing, order, late, loaded, pick) = Drops(acc)
  BY DEF WatchOutcome, healed, items
<1> HIDE DEF acc
<1> QED BY <1>6, <1>7, DropsIs

-----------------------------------------------------------------------------
(* The inductive invariant.                                                 *)

\* What a run has read of the tables d, which other runs may have extended.
Past(x, d) ==
  /\ IsView(x.seen) /\ Sound(x.seen)
  /\ \A t \in Tables : Existing(x.seen, t) \subseteq Existing(d, t)
  /\ ~x.raced => x.seen = d

ImportRun(x, d) ==
  /\ x.kind \in ImportKinds
  /\ x.at \in {"listed", "series", "episodes"}
  /\ Sound(Overlay(d, x.mine))
  /\ ~x.raced => Extends(x.kind, d, Overlay(d, x.mine))
  /\ x.at = "listed" => x.mine = Nothing
  /\ "done" \in DOMAIN x
  /\ x.at = "episodes" =>
       /\ {"item", "series", "seasons"} \subseteq DOMAIN x
       /\ x.item \in Items[x.kind]
       /\ x.series \in Existing(Overlay(d, x.mine), "series")
       /\ IsSeasons(Overlay(d, x.mine), x.seasons)

TmdbRun(x, d) ==
  x.kind = "tmdb" /\ x.at = "fetch" /\ "seen" \in DOMAIN x /\ x.mine = Nothing /\ Past(x, d)

UsersRun(x) ==
  x.kind = "watch" /\ x.at = "users" /\ "left" \in DOMAIN x /\ x.left \subseteq Users /\ x.mine = Nothing

PassRun(x, d) ==
  /\ x.kind = "watch" /\ {"left", "user", "seen"} \subseteq DOMAIN x
  /\ x.left \subseteq Users /\ x.user \in Users /\ x.mine = Nothing /\ Past(x, d)

LibraryRun(x, d) == x.at = "library" /\ PassRun(x, d)

RowsRun(x, d, w) ==
  /\ x.at = "rows" /\ PassRun(x, d) /\ "loaded" \in DOMAIN x
  /\ x.loaded \in Seq(WatchRows(Existing(d, "episodes")))
  /\ ~x.raced => x.loaded = w[x.user]

\* The state x of a live run, over the tables d and the rows w.
RunIs(x, d, w) ==
  /\ {"kind", "at", "mine", "raced"} \subseteq DOMAIN x
  /\ x.raced \in BOOLEAN
  /\ \/ ImportRun(x, d)
     \/ TmdbRun(x, d)
     \/ UsersRun(x)
     \/ LibraryRun(x, d)
     \/ RowsRun(x, d, w)

WatchIs(w, d) ==
  /\ w = [u \in Users |-> w[u]]
  /\ \A u \in Users : w[u] \in Seq(WatchRows(Existing(d, "episodes")))

SeriesInv ==
  /\ IsView(db) /\ Sound(db)
  /\ WatchIs(watch, db)
  /\ run = [r \in Runs |-> run[r]]
  /\ \A r \in Runs : Live(r) => RunIs(run[r], db, watch)
  /\ crossed \in BOOLEAN

-----------------------------------------------------------------------------
\* The same changes, over more rows.
LEMMA OverlayExisting ==
  ASSUME NEW d, NEW e, NEW mine, \A t \in Tables : Existing(d, t) \subseteq Existing(e, t)
  PROVE  \A t \in Tables : Existing(Overlay(d, mine), t) \subseteq Existing(Overlay(e, mine), t)
<1> SUFFICES ASSUME NEW t \in Tables, NEW i \in Existing(Overlay(d, mine), t)
             PROVE  i \in Existing(Overlay(e, mine), t)
  OBVIOUS
<1>1. i \in Slots[t]
  BY DEF Existing
<1>2. PICK c \in Columns[t] : Overlay(d, mine)[t][i][c] # Null
  BY DEF Existing, Exists
<1>3. CASE mine[t][i][c] # Null
  <2>1. Overlay(e, mine)[t][i][c] # Null
    BY <1>1, <1>3, OverlayIs
  <2> QED BY <1>1, <2>1 DEF Existing, Exists
<1>4. CASE mine[t][i][c] = Null
  <2>1. d[t][i][c] # Null
    BY <1>1, <1>2, <1>4, OverlayIs
  <2>2. i \in Existing(e, t)
    BY <1>1, <2>1 DEF Existing, Exists
  <2>3. \A b \in Columns[t] : e[t][i][b] # Null => Overlay(e, mine)[t][i][b] # Null
    BY <1>1, OverlayIs
  <2> QED BY <1>1, <2>2, <2>3 DEF Existing, Exists
<1> QED BY <1>3, <1>4

\* A run after the commit of another.
LEMMA UnreadAfterCommit ==
  ASSUME NEW x, NEW d, NEW e, NEW w, NEW z, RunIs(x, d, w), x.at = "listed" \/ x.at = "users",
         IsView(e), Sound(e)
  PROVE  RunIs(x, e, z)
<1>1. CASE x.at = "listed"
  <2>1. ImportRun(x, d)
    BY <1>1 DEF RunIs, TmdbRun, UsersRun, LibraryRun, RowsRun
  <2>2. x.mine = Nothing
    BY <1>1, <2>1 DEF ImportRun
  <2>3. Overlay(e, x.mine) = e
    BY <2>2, OverlayNothing
  <2>4. Extends(x.kind, e, e)
    BY ExtendsItself
  <2>5. ImportRun(x, e)
    BY <1>1, <2>1, <2>3, <2>4 DEF ImportRun
  <2> QED BY <2>5 DEF RunIs
<1>2. CASE x.at = "users"
  BY <1>2 DEF RunIs, ImportRun, TmdbRun, UsersRun, LibraryRun, RowsRun
<1> QED BY <1>1, <1>2

LEMMA RacedAfterCommit ==
  ASSUME NEW x, NEW d, NEW e, NEW w, NEW z, RunIs(x, d, w), IsView(d), Sound(d), IsView(e), Sound(e),
         \A t \in Tables : Existing(d, t) \subseteq Existing(e, t)
  PROVE  RunIs([x EXCEPT !.raced = TRUE], e, z)
<1> DEFINE y == [x EXCEPT !.raced = TRUE]
<1> SUFFICES RunIs(y, e, z)
  OBVIOUS
<1>1. /\ DOMAIN y = DOMAIN x
      /\ \A f \in DOMAIN x \ {"raced"} : y[f] = x[f]
      /\ y.raced = TRUE
  BY DEF RunIs
<1>2. {"kind", "at", "mine", "raced"} \subseteq DOMAIN x
  BY DEF RunIs
<1> HIDE DEF y
<1>3. y.kind = x.kind /\ y.at = x.at /\ y.mine = x.mine
  BY <1>1, <1>2
<1>4. ASSUME "seen" \in DOMAIN x, Past(x, d) PROVE Past(y, e)
  <2>1. y.seen = x.seen
    BY <1>1, <1>4
  <2> QED BY <2>1, <1>1, <1>4 DEF Past
<1>5. CASE ImportRun(x, d)
  <2>1. Sound(Overlay(e, x.mine))
    BY <1>5, OverlaySound DEF ImportRun
  <2>2. \A t \in Tables : Existing(Overlay(d, x.mine), t) \subseteq Existing(Overlay(e, x.mine), t)
    BY OverlayExisting
  <2>3. /\ {"item", "series", "seasons"} \subseteq DOMAIN x => /\ y.item = x.item /\ y.series = x.series
                                                              /\ y.seasons = x.seasons
        /\ "done" \in DOMAIN y
    BY <1>1, <1>5 DEF ImportRun
  <2>4. "series" \in Tables /\ "seasons" \in Tables
    BY TablesAre
  <2>5. ASSUME x.at = "episodes" PROVE x.series \in Existing(Overlay(e, x.mine), "series") /\ IsSeasons(Overlay(e, x.mine), x.seasons)
    BY <1>5, <2>2, <2>4, <2>5 DEF ImportRun, IsSeasons
  <2>6. ImportRun(y, e)
    BY <1>1, <1>3, <1>5, <2>1, <2>3, <2>5 DEF ImportRun
  <2> QED BY <1>1, <1>2, <2>6 DEF RunIs
<1>6. CASE TmdbRun(x, d)
  BY <1>1, <1>2, <1>3, <1>4, <1>6 DEF RunIs, TmdbRun
<1>7. CASE UsersRun(x)
  <2>1. y.left = x.left
    BY <1>1, <1>7 DEF UsersRun
  <2> QED BY <1>1, <1>2, <1>3, <1>7, <2>1 DEF RunIs, UsersRun
<1>8. ASSUME PassRun(x, d) PROVE PassRun(y, e)
  <2>1. y.left = x.left /\ y.user = x.user
    BY <1>1, <1>8 DEF PassRun
  <2> QED BY <1>1, <1>2, <1>3, <1>4, <1>8, <2>1 DEF PassRun
<1>9. CASE LibraryRun(x, d)
  BY <1>1, <1>2, <1>3, <1>8, <1>9 DEF RunIs, LibraryRun
<1>10. CASE RowsRun(x, d, w)
  <2>1. y.loaded = x.loaded
    BY <1>1, <1>10 DEF RowsRun
  <2>0. Existing(d, "episodes") \subseteq Existing(e, "episodes")
    BY TablesAre
  <2>2. x.loaded \in Seq(WatchRows(Existing(e, "episodes")))
    BY <1>10, <2>0, WatchRowsMonotone DEF RowsRun
  <2> QED BY <1>1, <1>2, <1>3, <1>8, <1>10, <2>1, <2>2 DEF RunIs, RowsRun
<1> QED BY <1>5, <1>6, <1>7, <1>9, <1>10 DEF RunIs

-----------------------------------------------------------------------------
(* The steps.                                                               *)

\* A step of a run that leaves the tables alone.
LEMMA LocalStep ==
  ASSUME SeriesInv, NEW r \in Runs, NEW y, y = NoRun \/ RunIs(y, db, watch),
         run' = [run EXCEPT ![r] = y], UNCHANGED <<db, watch, crossed>>
  PROVE  SeriesInv'
<1>1. run = [q \in Runs |-> run[q]]
  BY DEF SeriesInv
<1>2. run' = [q \in Runs |-> run'[q]]
  BY <1>1
<1>3. \A q \in Runs : run'[q] = IF q = r THEN y ELSE run[q]
  BY <1>1
<1>4. \A q \in Runs : run'[q] # NoRun => RunIs(run'[q], db, watch)
  BY <1>3 DEF SeriesInv, Live
<1> QED BY <1>2, <1>4 DEF SeriesInv, Live

\* A step of a run that ends in a commit.
LEMMA CommitStep ==
  ASSUME SeriesInv, NEW r \in Runs, Live(r), NEW y, y = NoRun \/ RunIs(y, db', watch'),
         run' = Committed(r, y), IsView(db'), Sound(db'),
         \A t \in Tables : Existing(db, t) \subseteq Existing(db', t),
         WatchIs(watch', db'), crossed' = (crossed \/ run[r].raced)
  PROVE  SeriesInv'
<1>1. run' = [q \in Runs |-> run'[q]]
  BY DEF Committed
<1>2. ASSUME NEW q \in Runs, run'[q] # NoRun
      PROVE  RunIs(run'[q], db', watch')
  <2>1. CASE q = r
    BY <1>2, <2>1 DEF Committed
  <2>2. CASE q # r /\ ~Live(q)
    BY <1>2, <2>2 DEF Committed, Live
  <2>3. CASE q # r /\ Live(q)
    <3>1. RunIs(run[q], db, watch)
      BY <2>3 DEF SeriesInv
    <3>2. CASE Unread(q)
      <4>1. run'[q] = run[q]
        BY <2>3, <3>2 DEF Committed
      <4>2. run[q].at = "listed" \/ run[q].at = "users"
        BY <3>2 DEF Unread, At
      <4> QED BY <3>1, <4>1, <4>2, UnreadAfterCommit
    <3>3. CASE ~Unread(q)
      <4>1. run'[q] = [run[q] EXCEPT !.raced = TRUE]
        BY <2>3, <3>3 DEF Committed
      <4> QED BY <3>1, <4>1, RacedAfterCommit DEF SeriesInv
    <3> QED BY <3>2, <3>3
  <2> QED BY <2>1, <2>2, <2>3
<1>3. crossed' \in BOOLEAN
  <2>1. RunIs(run[r], db, watch)
    BY DEF SeriesInv
  <2> QED BY <2>1 DEF RunIs, SeriesInv
<1> QED BY <1>1, <1>2, <1>3 DEF SeriesInv, Live

\* The row ids that a run may use are row ids.
LEMMA RoomIs == \A r \in Runs : IsRoom([t \in Tables |-> Room(r, t)])
BY DEF IsRoom, Room

\* What is known of an import.
LEMMA ImportIs ==
  ASSUME SeriesInv, NEW r \in Runs, At(r, "listed") \/ At(r, "series") \/ At(r, "episodes")
  PROVE  ImportRun(run[r], db) /\ IsView(View(r)) /\ Sound(View(r)) /\ Covers(db, View(r))
<1>1. RunIs(run[r], db, watch)
  BY DEF SeriesInv, At
<1>2. ImportRun(run[r], db)
  BY <1>1 DEF RunIs, TmdbRun, UsersRun, LibraryRun, RowsRun, At
<1> QED BY <1>2, OverlayIs, CoversOverlay DEF ImportRun, View

\* An import that has made w of its view.
LEMMA ImportNow ==
  ASSUME NEW x, NEW d, IsView(d), ImportRun(x, d), NEW w, Extends(x.kind, Overlay(d, x.mine), w)
  PROVE  /\ Overlay(d, Changes(d, w)) = w
         /\ Sound(w)
         /\ ~x.raced => Extends(x.kind, d, w)
<1>1. Covers(d, Overlay(d, x.mine)) /\ Covers(Overlay(d, x.mine), w)
  BY CoversOverlay DEF Extends
<1>2. Covers(d, w)
  BY <1>1 DEF Covers
<1>3. Overlay(d, Changes(d, w)) = w
  BY <1>2, OverlayChanges DEF Extends
<1>4. ~x.raced => Extends(x.kind, d, w)
  BY ExtendsAgain DEF ImportRun
<1> QED BY <1>3, <1>4 DEF Extends

\* The steps of an import keep the invariant.
LEMMA StartImportInv ==
  ASSUME SeriesInv, NEW r \in Runs, NEW kind \in ImportKinds, StartImport(r, kind)
  PROVE  SeriesInv'
<1> DEFINE y == [kind |-> kind, at |-> "listed", done |-> <<>>, mine |-> Nothing, raced |-> FALSE]
<1>1. run' = [run EXCEPT ![r] = y] /\ UNCHANGED <<db, watch, crossed>>
  BY DEF StartImport
<1>2. /\ {"kind", "at", "mine", "raced", "done"} \subseteq DOMAIN y
      /\ y.kind = kind /\ y.at = "listed" /\ y.mine = Nothing /\ y.raced = FALSE
  OBVIOUS
<1> HIDE DEF y
<1>3. Overlay(db, y.mine) = db
  BY <1>2, OverlayNothing DEF SeriesInv
<1>4. Extends(kind, db, db)
  BY ExtendsItself DEF SeriesInv
<1>5. ImportRun(y, db)
  BY <1>2, <1>3, <1>4 DEF ImportRun, SeriesInv
<1>6. RunIs(y, db, watch)
  BY <1>2, <1>5 DEF RunIs
<1> QED BY <1>1, <1>6, LocalStep

\* The run after an item that has made w of its view.
LEMMA ItemDoneIs ==
  ASSUME SeriesInv, NEW r \in Runs, At(r, "listed") \/ At(r, "series") \/ At(r, "episodes"), NEW item, NEW w,
         Extends(run[r].kind, View(r), w)
  PROVE  RunIs(ItemDone(r, item, w), db, watch) /\ Overlay(db, ItemDone(r, item, w).mine) = w
<1> DEFINE y == ItemDone(r, item, w)
<1>1. ImportRun(run[r], db)
  BY ImportIs
<1>2. /\ {"kind", "at", "mine", "raced", "done"} \subseteq DOMAIN y
      /\ y.kind = run[r].kind /\ y.at = "series" /\ y.mine = Changes(db, w) /\ y.raced = run[r].raced
  BY DEF ItemDone
<1> HIDE DEF y
<1>3. /\ Overlay(db, Changes(db, w)) = w
      /\ Sound(w)
      /\ ~run[r].raced => Extends(run[r].kind, db, w)
  BY <1>1, ImportNow DEF View, SeriesInv
<1>4. ImportRun(y, db)
  BY <1>1, <1>2, <1>3 DEF ImportRun
<1>5. run[r].raced \in BOOLEAN
  BY DEF SeriesInv, At, RunIs
<1>6. RunIs(y, db, watch) /\ Overlay(db, y.mine) = w
  BY <1>2, <1>3, <1>4, <1>5 DEF RunIs
<1> QED BY <1>6 DEF y

LEMMA ImportSkipsInv ==
  ASSUME SeriesInv, NEW r \in Runs, NEW item, ImportSkips(r, item)
  PROVE  SeriesInv'
<1>1. At(r, "listed") \/ At(r, "series")
  BY DEF ImportSkips, NextItem
<1>2. Extends(run[r].kind, View(r), View(r))
  BY <1>1, ImportIs, ExtendsItself
<1>3. RunIs(ItemDone(r, item, View(r)), db, watch)
  BY <1>1, <1>2, ItemDoneIs
<1> QED BY <1>3, LocalStep DEF ImportSkips

\* What the episodes of an item make of the view extends it.
LEMMA EpisodesImportedGrow ==
  ASSUME SeriesInv, NEW r \in Runs, At(r, "episodes"), NEW late
  PROVE  Grown(run[r].kind, View(r), EpisodesImported(r, late))
<1> DEFINE room == [t \in Tables |-> Room(r, t)]
           item == run[r].item
           eps == item.episodes
           v == View(r)
<1>1. ImportRun(run[r], db) /\ IsView(v) /\ Sound(v)
  BY ImportIs
<1>2. /\ item \in Items[run[r].kind]
      /\ run[r].series \in Existing(v, "series")
      /\ IsSeasons(v, run[r].seasons)
      /\ run[r].kind \in ImportKinds
  BY <1>1 DEF ImportRun, View, At
<1>3. IsItem(item)
  BY <1>2, ItemsAre
<1>4. Len(eps) \in Nat /\ \A n \in 1..Len(eps) : eps[n].number # Null /\ eps[n].season # Null /\ eps[n].id # Null
  BY <1>3 DEF IsItem
<1>5. IsRoom(room)
  BY RoomIs
<1>6. EpisodesImported(r, late) = IF run[r].kind = "sonarr" THEN AfterSonarr(v, run[r].seasons, eps, room)
                                  ELSE AfterJellyfin(v, run[r].series, eps, late, room)
  BY DEF EpisodesImported
<1> HIDE DEF room, v, eps
<1>7. ASSUME run[r].kind = "sonarr" PROVE Grown("sonarr", v, EpisodesImported(r, late))
  <2>1. Grown("sonarr", v, AfterSonarr(v, run[r].seasons, eps, room))
    BY <1>1, <1>2, <1>4, <1>5, SonarrGrows
  <2> QED BY <2>1, <1>6, <1>7
<1>8. ASSUME run[r].kind = "jellyfin" PROVE Grown("jellyfin", v, EpisodesImported(r, late))
  <2>1. Grown("jellyfin", v, AfterJellyfin(v, run[r].series, eps, late, room))
    BY <1>1, <1>2, <1>4, <1>5, JellyfinGrows
  <2> QED BY <2>1, <1>6, <1>8
<1> QED BY <1>2, <1>7, <1>8 DEF ImportKinds, v

LEMMA ImportEpisodesInv ==
  ASSUME SeriesInv, NEW r \in Runs, ImportEpisodes(r)
  PROVE  SeriesInv'
<1>1. PICK late \in Lates(View(r)) :
        run' = [run EXCEPT ![r] = ItemDone(r, run[r].item, EpisodesImported(r, late).view)]
  BY DEF ImportEpisodes
<1>2. At(r, "episodes") /\ UNCHANGED <<db, watch, crossed>>
  BY DEF ImportEpisodes
<1>3. Extends(run[r].kind, View(r), EpisodesImported(r, late).view)
  BY <1>2, EpisodesImportedGrow DEF Grown
<1>4. RunIs(ItemDone(r, run[r].item, EpisodesImported(r, late).view), db, watch)
  BY <1>2, <1>3, ItemDoneIs
<1> QED BY <1>1, <1>2, <1>4, LocalStep

\* What the step from an item to its episodes comes to.
SeriesImported(r, item, late, s, filled, after, seasons) ==
  LET kind == run[r].kind
      v == View(r)
      listed == kind = "sonarr" /\ item.ids.sonarr # Null
  IN  /\ kind \in ImportKinds /\ item \in Items[kind] /\ IsItem(item)
      /\ IsView(v) /\ Sound(v)
      /\ s \in Slots["series"]
      /\ s \in Existing(v, "series") \/ ~Nameless(kind, item.ids)
      /\ IF Candidates(v, kind, item.ids) # {} THEN s \in Candidates(v, kind, item.ids)
         ELSE s \notin Existing(v, "series")
      /\ filled = FilledSeries(v, kind, s, item.ids)
      /\ Extends(kind, v, filled)
      /\ after = AddedSeasons(filled, s, IF listed THEN item.seasons ELSE {}, late,
                              [t \in Tables |-> Room(r, t)])
      /\ Grown(kind, filled, after) /\ Extends(kind, v, after.view)
      /\ ~after.full
      /\ late \in Lates(v)
      /\ seasons = IF listed THEN SeasonsByNumber(after.view, s, late) ELSE <<>>
      /\ s \in Existing(after.view, "series")

\* What the step that finds or creates a series comes to.
LEMMA ImportSeriesIs ==
  ASSUME SeriesInv, NEW r \in Runs, NEW item, ImportSeries(r, item)
  PROVE  \E late, s, filled, after, seasons :
           /\ SeriesImported(r, item, late, s, filled, after, seasons)
           /\ run' = [run EXCEPT ![r] =
                [kind |-> run[r].kind, at |-> "episodes", done |-> run[r].done, item |-> item, series |-> s,
                 seasons |-> seasons, mine |-> Changes(db, after.view), raced |-> run[r].raced]]
<1> DEFINE kind == run[r].kind
           v == View(r)
           listed == kind = "sonarr" /\ item.ids.sonarr # Null
           found == Candidates(v, kind, item.ids)
           room == [t \in Tables |-> Room(r, t)]
           free == {i \in room.series : ~Exists(v, "series", i)}
           s == IF found # {} THEN Min(found) ELSE Min(free)
           filled == FilledSeries(v, kind, s, item.ids)
           numbers == IF listed THEN item.seasons ELSE {}
           after(late) == AddedSeasons(filled, s, numbers, late, room)
           seasons(late) == IF listed THEN SeasonsByNumber(after(late).view, s, late) ELSE <<>>
<1>1. PICK late \in Lates(v) :
        /\ ~after(late).full
        /\ run' = [run EXCEPT ![r] =
             [kind |-> kind, at |-> "episodes", done |-> run[r].done, item |-> item, series |-> s,
              seasons |-> seasons(late), mine |-> Changes(db, after(late).view), raced |-> run[r].raced]]
  BY DEF ImportSeries, SeriesInv
<1>2. (At(r, "listed") \/ At(r, "series")) /\ item \in Items[kind]
  BY DEF ImportSeries, NextItem
<1>3. found # {} \/ (~Nameless(kind, item.ids) /\ free # {})
  BY DEF ImportSeries
<1>4. IsView(v) /\ Sound(v) /\ ImportRun(run[r], db)
  BY <1>2, ImportIs
<1>5. kind \in ImportKinds
  BY <1>4 DEF ImportRun
<1>6. IsItem(item)
  BY <1>2, <1>5, ItemsAre
<1>7. "series" \in Tables
  BY TablesAre
<1>8. IsRoom(room) /\ room.series \subseteq Slots["series"]
  BY <1>7, RoomIs DEF IsRoom
<1>9. found \subseteq Existing(v, "series") /\ found \subseteq Slots["series"]
  <2>1. ASSUME NEW i \in found
        PROVE  i \in Existing(v, "series") /\ i \in Slots["series"]
    <3>1. PICK c \in External \cup {kind} : i \in With(v, "series", c, item.ids[c])
      BY DEF Candidates, Matching
    <3>2. c \in Columns["series"]
      BY <1>5, TablesAre DEF External, ImportKinds
    <3>3. With(v, "series", c, item.ids[c]) \subseteq Existing(v, "series") /\ With(v, "series", c, item.ids[c]) \subseteq Slots["series"]
      BY <1>7, <3>2, WithIs
    <3> QED BY <3>1, <3>3
  <2> QED BY <2>1
<1>10. /\ s \in Slots["series"]
       /\ s \in Existing(v, "series") \/ ~Nameless(kind, item.ids)
       /\ IF found # {} THEN s \in found ELSE s \notin Existing(v, "series")
  <2>1. CASE found # {}
    <3>1. Min(found) \in found
      BY <1>7, <1>9, <2>1, FirstIs
    <3> QED BY <2>1, <3>1, <1>9
  <2>2. CASE found = {}
    <3>1. Min(free) \in free
      BY <1>3, <1>7, <1>8, <2>2, FirstIs
    <3>2. s = Min(free)
      BY <2>2
    <3>3. s \in Slots["series"] /\ ~Exists(v, "series", s)
      BY <3>1, <3>2, <1>8
    <3>4. ~Nameless(kind, item.ids)
      BY <1>3, <2>2
    <3> HIDE DEF s, found
    <3> QED BY <2>2, <3>3, <3>4 DEF Existing
  <2> QED BY <2>1, <2>2
<1>11. IsFiniteSet(numbers) /\ Null \notin numbers
  BY <1>6, FS_EmptySet DEF IsItem
<1> HIDE DEF v, room, numbers, s, found
<1>12. Extends(kind, v, filled) /\ s \in Existing(filled, "series")
  BY <1>4, <1>5, <1>10, FilledSeriesGrows
<1> HIDE DEF filled
<1>13. IsView(filled) /\ Sound(filled)
  BY <1>12 DEF Extends
<1>14. Grown(kind, filled, after(late))
  BY <1>8, <1>11, <1>12, <1>13, AddedSeasonsGrow
<1>15. Extends(kind, filled, after(late).view)
  BY <1>14 DEF Grown
<1>16. Extends(kind, v, after(late).view)
  BY <1>12, <1>15, ExtendsAgain
<1>17. s \in Existing(after(late).view, "series")
  BY <1>7, <1>12, <1>15, ExtendsExisting
<1> WITNESS late, s, filled, after(late), seasons(late)
<1>18. filled = FilledSeries(v, kind, s, item.ids)
  BY DEF filled
<1>19. after(late) = AddedSeasons(filled, s, IF listed THEN item.seasons ELSE {}, late,
                                       [t \in Tables |-> Room(r, t)])
  BY DEF numbers, room
<1>20. seasons(late) = IF listed THEN SeasonsByNumber(after(late).view, s, late) ELSE <<>>
  OBVIOUS
<1> HIDE DEF after, seasons
<1> QED BY <1>1, <1>2, <1>4, <1>5, <1>6, <1>10, <1>12, <1>14, <1>16, <1>17, <1>18, <1>19, <1>20 DEF v, found, SeriesImported

LEMMA ImportSeriesInv ==
  ASSUME SeriesInv, NEW r \in Runs, NEW item, ImportSeries(r, item)
  PROVE  SeriesInv'
<1> DEFINE kind == run[r].kind
           v == View(r)
<1>1. PICK late, s, filled, after, seasons :
        /\ SeriesImported(r, item, late, s, filled, after, seasons)
        /\ run' = [run EXCEPT ![r] =
             [kind |-> kind, at |-> "episodes", done |-> run[r].done, item |-> item, series |-> s,
              seasons |-> seasons, mine |-> Changes(db, after.view), raced |-> run[r].raced]]
  BY ImportSeriesIs
<1> DEFINE w == after.view
<1>0. /\ kind \in ImportKinds /\ item \in Items[kind]
      /\ Extends(kind, v, w)
      /\ s \in Existing(w, "series")
      /\ seasons = <<>> \/ seasons = SeasonsByNumber(w, s, late)
  BY <1>1 DEF SeriesImported
<1> DEFINE y == [kind |-> kind, at |-> "episodes", done |-> run[r].done, item |-> item, series |-> s,
                 seasons |-> seasons, mine |-> Changes(db, w), raced |-> run[r].raced]
<1>2. (At(r, "listed") \/ At(r, "series")) /\ UNCHANGED <<db, watch, crossed>>
  BY DEF ImportSeries, NextItem
<1>3. ImportRun(run[r], db)
  BY <1>2, ImportIs
<1>4. /\ {"kind", "at", "mine", "raced", "done", "item", "series", "seasons"} \subseteq DOMAIN y
      /\ y.kind = kind /\ y.at = "episodes" /\ y.mine = Changes(db, w) /\ y.raced = run[r].raced
      /\ y.item = item /\ y.series = s /\ y.seasons = seasons
  OBVIOUS
<1>5. run' = [run EXCEPT ![r] = y]
  BY <1>1
<1> HIDE DEF y, w
<1>6. /\ Overlay(db, Changes(db, w)) = w
      /\ Sound(w)
      /\ ~run[r].raced => Extends(kind, db, w)
  BY <1>0, <1>3, ImportNow DEF View, SeriesInv
<1>7. IsSeasons(w, seasons)
  <2>1. IsSeasons(w, SeasonsByNumber(w, s, late))
    BY SeasonsByNumberAre
  <2>2. IsSeasons(w, <<>>)
    BY DEF IsSeasons
  <2> QED BY <1>0, <2>1, <2>2
<1>8. ImportRun(y, db)
  BY <1>0, <1>4, <1>6, <1>7 DEF ImportRun
<1>9. run[r].raced \in BOOLEAN
  BY <1>2 DEF SeriesInv, At, RunIs
<1>10. RunIs(y, db, watch)
  BY <1>4, <1>8, <1>9 DEF RunIs
<1> QED BY <1>2, <1>5, <1>10, LocalStep

\* The rows of watch_history stay with the episodes.
LEMMA WatchStays ==
  ASSUME NEW w, NEW d, NEW e, WatchIs(w, d), \A t \in Tables : Existing(d, t) \subseteq Existing(e, t)
  PROVE  WatchIs(w, e)
<1>1. Existing(d, "episodes") \subseteq Existing(e, "episodes")
  BY TablesAre
<1>2. \A u \in Users : w[u] \in Seq(WatchRows(Existing(e, "episodes")))
  BY <1>1, WatchRowsMonotone DEF WatchIs
<1> QED BY <1>2 DEF WatchIs

LEMMA ImportCommitsInv ==
  ASSUME SeriesInv, NEW r \in Runs, ImportCommits(r)
  PROVE  SeriesInv'
<1>1. At(r, "listed") \/ At(r, "series")
  BY DEF ImportCommits
<1>2. IsView(View(r)) /\ Sound(View(r)) /\ Covers(db, View(r))
  BY <1>1, ImportIs
<1>3. \A t \in Tables : Existing(db, t) \subseteq Existing(View(r), t)
  BY <1>2, CoversExisting
<1>4. WatchIs(watch, View(r))
  BY <1>3, WatchStays DEF SeriesInv
<1>5. db' = View(r) /\ run' = Committed(r, NoRun) /\ crossed' = (crossed \/ run[r].raced) /\ watch' = watch
  BY DEF ImportCommits
<1>6. Live(r)
  BY <1>1 DEF At
<1> HIDE DEF At
<1> QED BY <1>2, <1>3, <1>4, <1>5, <1>6, CommitStep

\* A run that ends, in success or in failure, without having written.
LEMMA Ends ==
  ASSUME SeriesInv, NEW r \in Runs, run' = [run EXCEPT ![r] = NoRun], UNCHANGED <<db, watch, crossed>>
  PROVE  SeriesInv'
BY LocalStep

-----------------------------------------------------------------------------
\* What has been read just now is what there is.
LEMMA PastNow ==
  ASSUME SeriesInv, NEW x, x.seen = db
  PROVE  Past(x, db)
BY DEF Past, SeriesInv

\* The steps of the TMDB update keep the invariant.
LEMMA StartTmdbInv ==
  ASSUME SeriesInv, NEW r \in Runs, StartTmdb(r)
  PROVE  SeriesInv'
<1> DEFINE y == [kind |-> "tmdb", at |-> "fetch", seen |-> db, mine |-> Nothing, raced |-> FALSE]
<1>1. run' = [run EXCEPT ![r] = y] /\ UNCHANGED <<db, watch, crossed>>
  BY DEF StartTmdb
<1>2. /\ {"kind", "at", "mine", "raced", "seen"} \subseteq DOMAIN y
      /\ y.kind = "tmdb" /\ y.at = "fetch" /\ y.mine = Nothing /\ y.raced = FALSE /\ y.seen = db
  OBVIOUS
<1> HIDE DEF y
<1>3. RunIs(y, db, watch)
  BY <1>2, PastNow DEF RunIs, TmdbRun
<1> QED BY <1>1, <1>3, LocalStep

\* What a run writes that has made v of what it had read.
LEMMA WrittenIs ==
  ASSUME NEW x, NEW d, IsView(d), Sound(d), Past(x, d), NEW kind, NEW v, Extends(kind, x.seen, v)
  PROVE  LET w == Overlay(d, Changes(x.seen, v)) IN
         /\ IsView(w) /\ Sound(w) /\ Covers(d, w)
         /\ \A t \in Tables : Existing(d, t) \subseteq Existing(w, t)
         /\ ~x.raced => w = v
<1> DEFINE w == Overlay(d, Changes(x.seen, v))
<1>1. Overlay(x.seen, Changes(x.seen, v)) = v
  BY OverlayChanges DEF Extends
<1>2. Sound(w)
  BY <1>1, OverlaySound DEF Past, Extends
<1>3. Covers(d, w)
  BY CoversOverlay
<1>4. \A t \in Tables : Existing(d, t) \subseteq Existing(w, t)
  BY <1>3, CoversExisting
<1>5. IsView(w)
  BY OverlayIs
<1>6. ~x.raced => w = v
  BY <1>1 DEF Past
<1> QED BY <1>2, <1>3, <1>4, <1>5, <1>6

LEMMA TmdbCommitsInv ==
  ASSUME SeriesInv, NEW r \in Runs, TmdbCommits(r)
  PROVE  SeriesInv'
<1> DEFINE seen == run[r].seen
           room == [t \in Tables |-> Room(r, t)]
<1>1. PICK acc \in TmdbOutcomes(r) : db' = Flushed(acc, seen)
  BY DEF TmdbCommits
<1>2. PICK payload \in TmdbAnswers(seen), order \in SetToSeqs(Named(seen)), late \in Lates(seen) :
        acc = TmdbOutcome(seen, payload, order, late, room)
  BY <1>1 DEF TmdbOutcomes
<1>3. RunIs(run[r], db, watch) /\ Live(r) /\ run[r].at = "fetch"
  BY DEF SeriesInv, TmdbCommits, At
<1>4. TmdbRun(run[r], db)
  BY <1>3 DEF RunIs, ImportRun, UsersRun, LibraryRun, RowsRun
<1>5. IsView(seen) /\ Sound(seen)
  BY <1>4 DEF TmdbRun, Past
<1>6. IsRoom(room)
  BY RoomIs
<1> HIDE DEF room
<1>7. Grown("tmdb", seen, TmdbOutcome(seen, payload, order, late, room))
  BY <1>2, <1>5, <1>6, TmdbGrows
<1>8. Extends("tmdb", seen, acc.view)
  BY <1>2, <1>7 DEF Grown
<1>9. /\ IsView(db') /\ Sound(db')
      /\ \A t \in Tables : Existing(db, t) \subseteq Existing(db', t)
  BY <1>1, <1>4, <1>8, WrittenIs DEF Flushed, TmdbRun, SeriesInv
<1>10. WatchIs(watch, db')
  BY <1>9, WatchStays DEF SeriesInv
<1>11. run' = Committed(r, NoRun) /\ crossed' = (crossed \/ run[r].raced) /\ watch' = watch
  BY DEF TmdbCommits
<1> QED BY <1>3, <1>9, <1>10, <1>11, CommitStep

\* The run of the watch sync that has these users left.
LEMMA WithUsersIs ==
  ASSUME NEW left, left \subseteq Users, NEW open, NEW d, NEW w
  PROVE  WithUsers(left, open) = NoRun \/ RunIs(WithUsers(left, open), d, w)
<1> DEFINE y == [kind |-> "watch", at |-> "users", left |-> left, open |-> open, mine |-> Nothing,
                 raced |-> FALSE]
<1>1. WithUsers(left, open) = NoRun \/ WithUsers(left, open) = y
  BY DEF WithUsers
<1>2. /\ {"kind", "at", "mine", "raced", "left"} \subseteq DOMAIN y
      /\ y.kind = "watch" /\ y.at = "users" /\ y.mine = Nothing /\ y.raced = FALSE /\ y.left = left
  OBVIOUS
<1> HIDE DEF y
<1>3. RunIs(y, d, w)
  BY <1>2 DEF RunIs, UsersRun
<1> QED BY <1>1, <1>3

\* What is known of a watch sync between two users.
LEMMA UsersAre ==
  ASSUME SeriesInv, NEW r \in Runs, At(r, "users")
  PROVE  UsersRun(run[r])
<1>1. RunIs(run[r], db, watch) /\ run[r].at = "users"
  BY DEF SeriesInv, At
<1> QED BY <1>1 DEF RunIs, ImportRun, TmdbRun, LibraryRun, RowsRun

\* The steps of the watch sync keep the invariant.
LEMMA StartWatchInv ==
  ASSUME SeriesInv, NEW r \in Runs, StartWatch(r)
  PROVE  SeriesInv'
<1>1. WithUsers(Users, TRUE) = NoRun \/ RunIs(WithUsers(Users, TRUE), db, watch)
  BY WithUsersIs
<1>2. run' = [run EXCEPT ![r] = WithUsers(Users, TRUE)] /\ UNCHANGED <<db, watch, crossed>>
  BY DEF StartWatch
<1> QED BY <1>1, <1>2, LocalStep

LEMMA ListsNothingInv ==
  ASSUME SeriesInv, NEW r \in Runs, NEW u, ListsNothing(r, u)
  PROVE  SeriesInv'
<1> DEFINE y == WithUsers(run[r].left \ {u}, run[r].open)
<1>1. UsersRun(run[r])
  BY UsersAre DEF ListsNothing
<1>2. y = NoRun \/ RunIs(y, db, watch)
  BY <1>1, WithUsersIs DEF UsersRun
<1>3. run' = [run EXCEPT ![r] = y] /\ UNCHANGED <<db, watch, crossed>>
  BY DEF ListsNothing, SeriesInv
<1> HIDE DEF y
<1> QED BY <1>2, <1>3, LocalStep

LEMMA ListingFailsInv ==
  ASSUME SeriesInv, NEW r \in Runs, NEW u, ListingFails(r, u)
  PROVE  SeriesInv'
<1> DEFINE z == WithUsers(run[r].left \ {u}, FALSE)
           y == IF run[r].open THEN NoRun ELSE z
<1>1. UsersRun(run[r])
  BY UsersAre DEF ListingFails
<1>2. z = NoRun \/ RunIs(z, db, watch)
  BY <1>1, WithUsersIs DEF UsersRun
<1>3. run' = [run EXCEPT ![r] = y] /\ UNCHANGED <<db, watch, crossed>>
  BY DEF ListingFails, SeriesInv
<1> HIDE DEF z
<1>4. y = NoRun \/ RunIs(y, db, watch)
  BY <1>2
<1> HIDE DEF y
<1> QED BY <1>3, <1>4, LocalStep

LEMMA ReadsLibraryInv ==
  ASSUME SeriesInv, NEW r \in Runs, NEW u \in Users, ReadsLibrary(r, u)
  PROVE  SeriesInv'
<1> DEFINE y == [kind |-> "watch", at |-> "library", left |-> run[r].left \ {u}, user |-> u, seen |-> db,
                 mine |-> Nothing, raced |-> FALSE]
<1>1. UsersRun(run[r])
  BY UsersAre DEF ReadsLibrary
<1>2. run' = [run EXCEPT ![r] = y] /\ UNCHANGED <<db, watch, crossed>>
  BY DEF ReadsLibrary, SeriesInv
<1>3. /\ {"kind", "at", "mine", "raced", "left", "user", "seen"} \subseteq DOMAIN y
      /\ y.kind = "watch" /\ y.at = "library" /\ y.mine = Nothing /\ y.raced = FALSE
      /\ y.left = run[r].left \ {u} /\ y.user = u /\ y.seen = db
  OBVIOUS
<1> HIDE DEF y
<1>4. y.left \subseteq Users
  BY <1>1, <1>3 DEF UsersRun
<1>5. Past(y, db)
  BY <1>3, PastNow
<1>6. RunIs(y, db, watch)
  BY <1>3, <1>4, <1>5 DEF RunIs, LibraryRun, PassRun
<1> QED BY <1>2, <1>6, LocalStep

LEMMA ReadsRowsInv ==
  ASSUME SeriesInv, NEW r \in Runs, ReadsRows(r)
  PROVE  SeriesInv'
<1> DEFINE x == run[r]
           y == [kind |-> "watch", at |-> "rows", left |-> x.left, user |-> x.user, seen |-> x.seen,
                 loaded |-> watch[x.user], mine |-> Nothing, raced |-> x.raced]
<1>1. RunIs(x, db, watch) /\ x.at = "library"
  BY DEF ReadsRows, SeriesInv, At
<1>2. PassRun(x, db) /\ x.raced \in BOOLEAN
  BY <1>1 DEF RunIs, ImportRun, TmdbRun, UsersRun, LibraryRun, RowsRun
<1>3. run' = [run EXCEPT ![r] = y] /\ UNCHANGED <<db, watch, crossed>>
  BY DEF ReadsRows, SeriesInv
<1>4. /\ {"kind", "at", "mine", "raced", "left", "user", "seen", "loaded"} \subseteq DOMAIN y
      /\ y.kind = "watch" /\ y.at = "rows" /\ y.mine = Nothing /\ y.raced = x.raced
      /\ y.left = x.left /\ y.user = x.user /\ y.seen = x.seen /\ y.loaded = watch[x.user]
  OBVIOUS
<1> HIDE DEF y, x
<1>5. Past(y, db)
  BY <1>2, <1>4 DEF PassRun, Past
<1>6. PassRun(y, db)
  BY <1>2, <1>4, <1>5 DEF PassRun
<1>7. y.loaded \in Seq(WatchRows(Existing(db, "episodes")))
  BY <1>2, <1>4 DEF PassRun, SeriesInv, WatchIs
<1>8. RunIs(y, db, watch)
  BY <1>2, <1>4, <1>6, <1>7 DEF RunIs, RowsRun
<1> QED BY <1>3, <1>8, LocalStep

-----------------------------------------------------------------------------
\* What is known of a pass that has read everything, and of what it comes to.
LEMMA PassIs ==
  ASSUME SeriesInv, NEW r \in Runs, At(r, "rows"), NEW p \in Passes(r)
  PROVE  /\ Live(r) /\ RowsRun(run[r], db, watch)
         /\ IsView(run[r].seen) /\ Sound(run[r].seen)
         /\ p.listing \in Listings /\ p.order \in Orders(p.listing)
         /\ p.late \in Lates(run[r].seen) /\ p.pick \in WatchPicks(run[r].loaded)
         /\ Item5(run[r].seen, PassOutcome(r, p))
<1> DEFINE x == run[r]
<1>1. RunIs(x, db, watch) /\ x.at = "rows" /\ Live(r)
  BY DEF SeriesInv, At
<1>2. RowsRun(x, db, watch)
  BY <1>1 DEF RunIs, ImportRun, TmdbRun, UsersRun, LibraryRun
<1>3. IsView(x.seen) /\ Sound(x.seen) /\ x.loaded \in Seq(WatchRows(Existing(db, "episodes")))
  BY <1>2 DEF RowsRun, PassRun, Past
<1>4. PICK listing \in Listings :
        p \in [listing : {listing}, order : Orders(listing), late : Lates(x.seen),
               pick : WatchPicks(x.loaded)]
  BY DEF Passes
<1>5. /\ p.listing \in Listings /\ p.order \in Orders(p.listing)
      /\ p.late \in Lates(x.seen) /\ p.pick \in WatchPicks(x.loaded)
  BY <1>4
<1>6. Item5(x.seen, WatchOutcome(x.seen, p.listing, p.order, p.late, x.loaded, p.pick))
  BY <1>3, <1>5, WatchGrows
<1> QED BY <1>1, <1>2, <1>3, <1>5, <1>6 DEF PassOutcome

\* Two sequences, joined.
LEMMA JoinedIs ==
  ASSUME NEW R, NEW f \in Seq(R), NEW g \in Seq(R)
  PROVE  /\ f \o g \in Seq(R)
         /\ Len(f \o g) = Len(f) + Len(g)
         /\ \A n \in 1..Len(f) : (f \o g)[n] = f[n]
         /\ \A n \in 1..Len(g) : (f \o g)[Len(f) + n] = g[n]
<1>1. Len(f) \in Nat /\ Len(g) \in Nat
  OBVIOUS
<1>2. Len(f \o g) = Len(f) + Len(g) /\ f \o g \in Seq(R)
  BY ConcatProperties
<1>3. \A n \in 1..Len(f) + Len(g) : (f \o g)[n] = IF n <= Len(f) THEN f[n] ELSE g[n - Len(f)]
  BY ConcatProperties
<1>4. \A n \in 1..Len(f) : (f \o g)[n] = f[n]
  BY <1>1, <1>3
<1>5. ASSUME NEW n \in 1..Len(g) PROVE (f \o g)[Len(f) + n] = g[n]
  BY <1>1, <1>3
<1> QED BY <1>2, <1>4, <1>5

\* The rows that a pass leaves.
LEMMA RowsWrittenAre ==
  ASSUME NEW now, NEW S, now \in Seq(WatchRows(S)), S \subseteq Slots["episodes"], NEW pick, NEW loaded, NEW acc,
         acc.status \in [Slots["episodes"] -> Statuses \cup {Dropped}], acc.added \in Seq(WatchRows(S))
  PROVE  /\ RowsWritten(now, pick, loaded, acc) \in Seq(WatchRows(S))
         /\ Len(RowsWritten(now, pick, loaded, acc)) = Len(now) + Len(acc.added)
         /\ \A n \in 1..Len(now) : RowsWritten(now, pick, loaded, acc)[n] =
              LET i == now[n].episode IN
              IF pick[i] = n /\ acc.status[i] # loaded[n].status
              THEN [now[n] EXCEPT !.status = acc.status[i]] ELSE now[n]
         /\ \A n \in 1..Len(acc.added) :
              RowsWritten(now, pick, loaded, acc)[Len(now) + n] = acc.added[n]
<1> DEFINE R == WatchRows(S)
           w(n) == LET i == now[n].episode IN
                   IF pick[i] = n /\ acc.status[i] # loaded[n].status
                   THEN [now[n] EXCEPT !.status = acc.status[i]] ELSE now[n]
           f == [n \in 1..Len(now) |-> w(n)]
           added == acc.added
<1>1. Len(now) \in Nat /\ DOMAIN now = 1..Len(now)
  OBVIOUS
<1>2. \A n \in 1..Len(now) : now[n] \in R
  OBVIOUS
<1>3. ASSUME NEW n \in 1..Len(now) PROVE w(n) \in R
  <2>1. now[n].episode \in Slots["episodes"] /\ now[n] \in [episode : S, status : Statuses \cup {Dropped}]
    BY <1>2 DEF WatchRows
  <2>2. acc.status[now[n].episode] \in Statuses \cup {Dropped}
    BY <2>1
  <2>3. [now[n] EXCEPT !.status = acc.status[now[n].episode]] \in [episode : S, status : Statuses \cup {Dropped}]
    BY <2>1, <2>2
  <2> QED BY <1>2, <2>3 DEF WatchRows
<1>4. \A n \in 1..Len(now) : f[n] = w(n)
  OBVIOUS
<1>5. RowsWritten(now, pick, loaded, acc) = f \o added
  BY <1>1 DEF RowsWritten
<1>6. f \in [1..Len(now) -> R]
  BY <1>3
<1>7. \A n \in 1..Len(now) : f[n] = LET i == now[n].episode IN
              IF pick[i] = n /\ acc.status[i] # loaded[n].status
              THEN [now[n] EXCEPT !.status = acc.status[i]] ELSE now[n]
  BY <1>4
<1> HIDE DEF f
<1>8. f \in Seq(R) /\ Len(f) = Len(now)
  BY <1>1, <1>6
<1>9. added \in Seq(R) /\ Len(added) \in Nat
  OBVIOUS
<1> HIDE DEF R, added
<1>10. /\ f \o added \in Seq(R)
       /\ Len(f \o added) = Len(f) + Len(added)
       /\ \A n \in 1..Len(f) : (f \o added)[n] = f[n]
       /\ \A n \in 1..Len(added) : (f \o added)[Len(f) + n] = added[n]
  <2>1. f \in Seq(R) /\ added \in Seq(R)
    BY <1>8, <1>9
  <2>2. \A h \in Seq(R) : \A g \in Seq(R) :
          /\ h \o g \in Seq(R)
          /\ Len(h \o g) = Len(h) + Len(g)
          /\ \A n \in 1..Len(h) : (h \o g)[n] = h[n]
          /\ \A n \in 1..Len(g) : (h \o g)[Len(h) + n] = g[n]
    BY JoinedIs
  <2> QED BY <2>1, <2>2, Zenon
<1> QED BY <1>5, <1>7, <1>8, <1>10 DEF R, added

\* The commit of a pass keeps the invariant: its heals, its rows.
LEMMA WatchCommitsInv ==
  ASSUME SeriesInv, NEW r \in Runs, WatchCommits(r)
  PROVE  SeriesInv'
<1> DEFINE x == run[r]
           u == run[r].user
<1>1. At(r, "rows")
  BY DEF WatchCommits
<1>2. PICK p \in Passes(r) :
        /\ db' = HealsWritten(r, PassOutcome(r, p))
        /\ watch' = [watch EXCEPT ![u] = RowsWritten(watch[u], p.pick, x.loaded, PassOutcome(r, p))]
  BY DEF WatchCommits, SeriesInv, WatchIs
<1> DEFINE acc == PassOutcome(r, p)
           rows == RowsWritten(watch[u], p.pick, x.loaded, acc)
<1>3. /\ Live(r) /\ RowsRun(x, db, watch)
      /\ Item5(x.seen, acc)
  BY <1>1, PassIs
<1>4. PassRun(x, db)
  BY <1>3 DEF RowsRun
<1>5. Past(x, db) /\ u \in Users /\ x.left \subseteq Users
  BY <1>4 DEF PassRun
<1>6. db' = Overlay(db, Changes(x.seen, acc.view)) /\ watch' = [watch EXCEPT ![u] = rows]
  BY <1>2 DEF HealsWritten
<1>7. run' = Committed(r, WithUsers(x.left, FALSE)) /\ crossed' = (crossed \/ x.raced)
  BY DEF WatchCommits
<1> HIDE DEF acc
<1>8. Extends("watch", x.seen, acc.view)
  BY <1>3 DEF Item5
<1>9. /\ IsView(db') /\ Sound(db')
      /\ \A t \in Tables : Existing(db, t) \subseteq Existing(db', t)
  BY <1>5, <1>6, <1>8, WrittenIs DEF SeriesInv
<1> DEFINE S == Existing(db, "episodes")
           T == Existing(db', "episodes")
<1>10. S \subseteq Slots["episodes"] /\ S \subseteq T /\ Existing(x.seen, "episodes") \subseteq S
  <2>1. S \subseteq Slots["episodes"]
    BY DEF Existing
  <2>2. "episodes" \in Tables
    BY TablesAre
  <2>3. S \subseteq T
    BY <1>9, <2>2
  <2>4. Existing(x.seen, "episodes") \subseteq S
    BY <1>5, <2>2 DEF Past
  <2> QED BY <2>1, <2>3, <2>4
<1>11. /\ acc.status \in [Slots["episodes"] -> Statuses \cup {Dropped}]
       /\ acc.added \in Seq(WatchRows(Existing(x.seen, "episodes")))
  BY <1>3 DEF Item5
<1>12. watch[u] \in Seq(WatchRows(S)) /\ watch = [q \in Users |-> watch[q]]
       /\ \A q \in Users : watch[q] \in Seq(WatchRows(S))
  BY <1>5 DEF SeriesInv, WatchIs
<1> HIDE DEF S, T
<1>13. acc.added \in Seq(WatchRows(S))
  BY <1>10, <1>11, WatchRowsMonotone
<1>14. rows \in Seq(WatchRows(S))
  BY <1>10, <1>11, <1>12, <1>13, RowsWrittenAre
<1> HIDE DEF rows, x, u
<1>15. watch' = [q \in Users |-> watch'[q]] /\ \A q \in Users : watch'[q] = IF q = u THEN rows ELSE watch[q]
  BY <1>5, <1>6, <1>12
<1>16. \A q \in Users : watch'[q] \in Seq(WatchRows(T))
  <2>1. \A q \in Users : watch'[q] \in Seq(WatchRows(S))
    BY <1>12, <1>14, <1>15
  <2> QED BY <2>1, <1>10, WatchRowsMonotone
<1>17. WatchIs(watch', db')
  BY <1>15, <1>16 DEF WatchIs, T
<1>18. WithUsers(x.left, FALSE) = NoRun \/ RunIs(WithUsers(x.left, FALSE), db', watch')
  BY <1>5, WithUsersIs
<1>19. crossed' = (crossed \/ run[r].raced)
  BY <1>7 DEF x
<1> QED BY <1>3, <1>7, <1>9, <1>17, <1>18, <1>19, CommitStep

-----------------------------------------------------------------------------
\* The invariant holds at the start, and every step keeps it.
LEMMA SeriesInvInit == Init => SeriesInv
<1> SUFFICES ASSUME Init PROVE SeriesInv
  OBVIOUS
<1>1. IsView(db) /\ \A t \in Tables : Existing(db, t) = {}
  BY NothingIs DEF Init, Existing, Exists
<1>2. Existing(db, "seasons") = {} /\ Existing(db, "episodes") = {}
  BY <1>1, TablesAre
<1>3. Sound(db)
  BY <1>2 DEF Sound
<1>4. WatchIs(watch, db)
  BY DEF Init, WatchIs
<1>5. run = [r \in Runs |-> run[r]] /\ \A r \in Runs : ~Live(r)
  BY DEF Init, Live
<1>6. crossed \in BOOLEAN
  BY DEF Init
<1> QED BY <1>1, <1>3, <1>4, <1>5, <1>6 DEF SeriesInv

LEMMA SeriesInvNext ==
  ASSUME SeriesInv, [Next]_vars
  PROVE  SeriesInv'
<1>1. CASE UNCHANGED vars
  BY <1>1 DEF vars, SeriesInv, Live
<1>2. ASSUME NEW r \in Runs, NEW kind \in ImportKinds, StartImport(r, kind)
      PROVE  SeriesInv'
  BY <1>2, StartImportInv
<1>3. ASSUME NEW r \in Runs, NEW item, ImportSkips(r, item)
      PROVE  SeriesInv'
  BY <1>3, ImportSkipsInv
<1>4. ASSUME NEW r \in Runs, NEW item, ImportSeries(r, item)
      PROVE  SeriesInv'
  BY <1>4, ImportSeriesInv
<1>5. ASSUME NEW r \in Runs, ImportEpisodes(r) \/ ImportCommits(r)
      PROVE  SeriesInv'
  BY <1>5, ImportEpisodesInv, ImportCommitsInv
<1>6. ASSUME NEW r \in Runs, ImportFails(r) \/ TmdbFails(r) \/ WatchFails(r)
      PROVE  SeriesInv'
  BY <1>6, Ends DEF ImportFails, TmdbFails, WatchFails
<1>7. ASSUME NEW r \in Runs, StartTmdb(r) \/ TmdbCommits(r)
      PROVE  SeriesInv'
  BY <1>7, StartTmdbInv, TmdbCommitsInv
<1>8. ASSUME NEW r \in Runs, StartWatch(r) \/ ReadsRows(r) \/ WatchCommits(r)
      PROVE  SeriesInv'
  BY <1>8, StartWatchInv, ReadsRowsInv, WatchCommitsInv
<1>9. ASSUME NEW r \in Runs, NEW u \in Users, ListsNothing(r, u) \/ ReadsLibrary(r, u) \/ ListingFails(r, u)
      PROVE  SeriesInv'
  BY <1>9, ListsNothingInv, ReadsLibraryInv, ListingFailsInv
<1> QED BY <1>1, <1>2, <1>3, <1>4, <1>5, <1>6, <1>7, <1>8, <1>9 DEF Next

\* The inductive invariant of the four jobs over the series tables holds throughout:
\* rows have their parents, the rows of watch_history point at episodes, and what a
\* run has read or changed fits what is committed, raced or not.
THEOREM SeriesInvariance == Spec => []SeriesInv
<1>1. Init => SeriesInv
  BY SeriesInvInit
<1>2. SeriesInv /\ [Next]_vars => SeriesInv'
  BY SeriesInvNext
<1> QED BY <1>1, <1>2, PTL DEF Spec

\* The type invariant is part of it.
LEMMA SeriesInvTypes == SeriesInv => TypeOK
<1> SUFFICES ASSUME SeriesInv PROVE TypeOK
  OBVIOUS
<1>1. \A t \in Tables : \A i \in Slots[t] : DOMAIN db[t][i] = Columns[t]
  BY DEF SeriesInv, IsView
<1>2. /\ \A i \in Existing(db, "seasons") : db.seasons[i].series \in Existing(db, "series")
      /\ \A i \in Existing(db, "episodes") : db.episodes[i].season \in Existing(db, "seasons")
  BY DEF SeriesInv, Sound
<1>3. \A u \in Users : \A n \in DOMAIN watch[u] :
        watch[u][n] \in [episode : Existing(db, "episodes"), status : Statuses \cup {Dropped}]
  <2>1. \A u \in Users : watch[u] \in Seq(WatchRows(Existing(db, "episodes")))
    BY DEF SeriesInv, WatchIs
  <2>2. ASSUME NEW R, NEW s \in Seq(R), NEW n \in DOMAIN s PROVE s[n] \in R
    BY <2>2
  <2> QED BY <2>1, <2>2 DEF WatchRows
<1>4. ASSUME NEW r \in Runs, Live(r)
      PROVE  run[r].kind \in ImportKinds \cup {"tmdb", "watch"} /\ run[r].raced \in BOOLEAN
  <2>1. RunIs(run[r], db, watch)
    BY <1>4 DEF SeriesInv
  <2> QED BY <2>1 DEF RunIs, ImportRun, TmdbRun, UsersRun, LibraryRun, RowsRun, PassRun
<1>5. crossed \in BOOLEAN
  BY DEF SeriesInv
<1> QED BY <1>1, <1>2, <1>3, <1>4, <1>5 DEF TypeOK

\* Type correctness: every committed season and episode has its parent, every row
\* of watch_history an episode, whichever jobs overlap
\* (src/backend/app/models/media.py:110 and :127, models/user.py:43).
THEOREM TypesHold == Spec => []TypeOK
BY SeriesInvariance, SeriesInvTypes, PTL

-----------------------------------------------------------------------------
(* What a commit may change.                                                *)

\* A commit is no step of another run.
LEMMA OthersDoNotStep ==
  ASSUME NEW r \in Runs, NEW y, run' = Committed(r, y)
  PROVE  \A q \in Runs \ {r} : ~Steps(q)
BY DEF Committed, Steps

\* r is the one run that steps, and makes db of it what a job of its kind may.
CommitOf(r) ==
  /\ \A q \in Runs \ {r} : ~Steps(q)
  /\ ~run[r].raced => Extends(run[r].kind, db, db')

\* Each commit makes of the tables what its job may.
LEMMA ImportCommitIs ==
  ASSUME SeriesInv, NEW r \in Runs, ImportCommits(r)
  PROVE  CommitOf(r)
<1>1. ImportRun(run[r], db)
  BY ImportIs DEF ImportCommits
<1>2. db' = Overlay(db, run[r].mine) /\ run' = Committed(r, NoRun)
  BY DEF ImportCommits, View
<1> QED BY <1>1, <1>2, OthersDoNotStep DEF CommitOf, ImportRun

\* What is known of a TMDB update.
LEMMA TmdbIs ==
  ASSUME SeriesInv, NEW r \in Runs, At(r, "fetch")
  PROVE  TmdbRun(run[r], db) /\ IsView(run[r].seen) /\ Sound(run[r].seen)
<1>1. RunIs(run[r], db, watch) /\ run[r].at = "fetch"
  BY DEF SeriesInv, At
<1>2. TmdbRun(run[r], db)
  BY <1>1 DEF RunIs, ImportRun, UsersRun, LibraryRun, RowsRun
<1> QED BY <1>2 DEF TmdbRun, Past

LEMMA TmdbCommitIs ==
  ASSUME SeriesInv, NEW r \in Runs, TmdbCommits(r)
  PROVE  CommitOf(r)
<1> DEFINE seen == run[r].seen
           room == [t \in Tables |-> Room(r, t)]
<1>1. PICK payload \in TmdbAnswers(seen), order \in SetToSeqs(Named(seen)), late \in Lates(seen) :
        db' = Flushed(TmdbOutcome(seen, payload, order, late, room), seen)
  BY DEF TmdbCommits, TmdbOutcomes
<1>2. TmdbRun(run[r], db) /\ IsView(seen) /\ Sound(seen)
  BY TmdbIs DEF TmdbCommits
<1>3. IsRoom(room)
  BY RoomIs
<1> DEFINE acc == TmdbOutcome(seen, payload, order, late, room)
<1> HIDE DEF room
<1>4. Extends("tmdb", seen, acc.view)
  BY <1>1, <1>2, <1>3, TmdbGrows DEF Grown
<1>5. db' = Overlay(db, Changes(seen, acc.view))
  BY <1>1 DEF Flushed
<1> HIDE DEF acc
<1>6. Past(run[r], db) /\ run[r].kind = "tmdb"
  BY <1>2 DEF TmdbRun
<1>7. ~run[r].raced => db' = acc.view /\ seen = db
  BY <1>4, <1>5, <1>6, WrittenIs DEF SeriesInv, Past
<1>8. run' = Committed(r, NoRun)
  BY DEF TmdbCommits
<1> QED BY <1>4, <1>6, <1>7, <1>8, OthersDoNotStep DEF CommitOf

LEMMA WatchCommitIs ==
  ASSUME SeriesInv, NEW r \in Runs, WatchCommits(r)
  PROVE  CommitOf(r)
<1>1. PICK p \in Passes(r) : db' = HealsWritten(r, PassOutcome(r, p))
  BY DEF WatchCommits
<1> DEFINE acc == PassOutcome(r, p)
           seen == run[r].seen
<1>2. RowsRun(run[r], db, watch) /\ Item5(seen, acc)
  BY PassIs DEF WatchCommits
<1> HIDE DEF acc
<1>3. Past(run[r], db) /\ run[r].kind = "watch"
  BY <1>2 DEF RowsRun, PassRun
<1>4. Extends("watch", seen, acc.view)
  BY <1>2 DEF Item5
<1>5. db' = Overlay(db, Changes(seen, acc.view))
  BY <1>1 DEF HealsWritten, acc
<1>6. ~run[r].raced => db' = acc.view /\ seen = db
  BY <1>3, <1>4, <1>5, WrittenIs DEF SeriesInv, Past
<1>7. run' = Committed(r, WithUsers(run[r].left, FALSE))
  BY DEF WatchCommits
<1> QED BY <1>3, <1>4, <1>6, <1>7, OthersDoNotStep DEF CommitOf

\* A step changes the tables only in a commit.
LEMMA StepsCommit ==
  ASSUME SeriesInv, [Next]_vars
  PROVE  db' = db \/ \E r \in Runs : CommitOf(r)
<1>1. ASSUME NEW r \in Runs, ImportCommits(r) \/ TmdbCommits(r) \/ WatchCommits(r)
      PROVE  CommitOf(r)
  BY <1>1, ImportCommitIs, TmdbCommitIs, WatchCommitIs
<1>2. ASSUME NEW r \in Runs, NEW x, StartImport(r, x) \/ ImportSkips(r, x) \/ ImportSeries(r, x)
      PROVE  db' = db
  BY <1>2 DEF StartImport, ImportSkips, ImportSeries
<1>3. ASSUME NEW r \in Runs, ImportEpisodes(r) \/ ImportFails(r) \/ StartTmdb(r) \/ TmdbFails(r)
      PROVE  db' = db
  BY <1>3 DEF ImportEpisodes, ImportFails, StartTmdb, TmdbFails
<1>4. ASSUME NEW r \in Runs, NEW u, ListsNothing(r, u) \/ ReadsLibrary(r, u) \/ ListingFails(r, u)
      PROVE  db' = db
  BY <1>4 DEF ListsNothing, ReadsLibrary, ListingFails
<1>5. ASSUME NEW r \in Runs, StartWatch(r) \/ ReadsRows(r) \/ WatchFails(r)
      PROVE  db' = db
  BY <1>5 DEF StartWatch, ReadsRows, WatchFails
<1>6. CASE UNCHANGED vars
  BY <1>6 DEF vars
<1> QED BY <1>1, <1>2, <1>3, <1>4, <1>5, <1>6 DEF Next

\* No step changes an id that is set, or moves a row, but as its source allows.
LEMMA IdsAreKept ==
  ASSUME SeriesInv, [Next]_vars
  PROVE  \A r \in Runs : Steps(r) =>
       \A t \in Tables : \A i \in Existing(db, t) : \A c \in Columns[t] :
         \/ db[t][i][c] \in {Null, db'[t][i][c]}
         \/ run[r].kind = "watch" /\ c = "jellyfin"
         \/ t = "episodes" /\ <<run[r].kind, c>> \in
              {<<"sonarr", "season">>, <<"sonarr", "number">>, <<"jellyfin", "number">>}
<1> SUFFICES ASSUME NEW r \in Runs, Steps(r), NEW t \in Tables, NEW i \in Existing(db, t), NEW c \in Columns[t]
             PROVE  db[t][i][c] \in {Null, db'[t][i][c]} \/ Follows(run[r].kind, t, c)
  BY DEF Follows
<1>1. CASE db' = db
  BY <1>1
<1>2. ASSUME NEW q \in Runs, CommitOf(q)
      PROVE  db[t][i][c] \in {Null, db'[t][i][c]} \/ Follows(run[r].kind, t, c)
  <2>1. q = r
    BY <1>2 DEF CommitOf
  <2>2. Extends(run[r].kind, db, db')
    BY <1>2, <2>1 DEF CommitOf, Steps
  <2>3. i \in Slots[t]
    BY DEF Existing
  <2> QED BY <2>2, <2>3 DEF Extends
<1> QED BY <1>1, <1>2, StepsCommit

\* No job takes an id from a row that another job has identified, and rows move
\* only to follow their own source (update_existing_series in series_utils.py sets an
\* identifier only where there is none).
THEOREM IdsKept == Spec => LibraryIdsAreKept
<1>1. SeriesInv /\ [Next]_vars =>
        [\A r \in Runs : Steps(r) =>
       \A t \in Tables : \A i \in Existing(db, t) : \A c \in Columns[t] :
         \/ db[t][i][c] \in {Null, db'[t][i][c]}
         \/ run[r].kind = "watch" /\ c = "jellyfin"
         \/ t = "episodes" /\ <<run[r].kind, c>> \in
              {<<"sonarr", "season">>, <<"sonarr", "number">>, <<"jellyfin", "number">>}]_vars
  BY IdsAreKept
<1> QED BY <1>1, SeriesInvariance, PTL DEF Spec, LibraryIdsAreKept

-----------------------------------------------------------------------------
(* Where the seasons and the episodes stand.                                *)

SameSeasons(v, w) ==
  /\ Existing(w, "seasons") = Existing(v, "seasons")
  /\ \A i \in Existing(v, "seasons") : /\ w["seasons"][i]["series"] = v["seasons"][i]["series"]
                                       /\ w["seasons"][i]["number"] = v["seasons"][i]["number"]

SameEpisodes(v, w) ==
  /\ Existing(w, "episodes") = Existing(v, "episodes")
  /\ \A i \in Existing(v, "episodes") : /\ w["episodes"][i]["season"] = v["episodes"][i]["season"]
                                        /\ w["episodes"][i]["number"] = v["episodes"][i]["number"]

\* The seasons that w has over u share their number with none.
AloneIn(u, w) ==
  \A i \in Existing(w, "seasons") \ Existing(u, "seasons") :
    NumberedSeasons(w, w["seasons"][i]["series"], w["seasons"][i]["number"]) = {i}

\* The episodes that w has over u were missing in u.
MissedIn(u, w) ==
  \A i \in Existing(w, "episodes") \ Existing(u, "episodes") :
    NumberedEpisodes(u, w["episodes"][i]["season"], w["episodes"][i]["number"]) = {}

\* Nothing new shares a place with anything.
LEMMA AloneItself == ASSUME NEW v PROVE AloneIn(v, v) /\ MissedIn(v, v)
BY DEF AloneIn, MissedIn

\* Rows that stand where they stood are found where they were.
LEMMA SameNumbered ==
  ASSUME NEW v, NEW w
  PROVE  /\ SameSeasons(v, w) => \A p, n : NumberedSeasons(w, p, n) = NumberedSeasons(v, p, n)
         /\ SameEpisodes(v, w) => \A p, n : NumberedEpisodes(w, p, n) = NumberedEpisodes(v, p, n)
<1>1. ASSUME SameSeasons(v, w), NEW p, NEW n
      PROVE  NumberedSeasons(w, p, n) = NumberedSeasons(v, p, n)
  <2>1. \A i \in NumberedSeasons(w, p, n) : i \in NumberedSeasons(v, p, n)
    BY <1>1, NumberedAre DEF SameSeasons
  <2>2. \A i \in NumberedSeasons(v, p, n) : i \in NumberedSeasons(w, p, n)
    BY <1>1, NumberedAre DEF SameSeasons
  <2> QED BY <2>1, <2>2
<1>2. ASSUME SameEpisodes(v, w), NEW p, NEW n
      PROVE  NumberedEpisodes(w, p, n) = NumberedEpisodes(v, p, n)
  <2>1. \A i \in NumberedEpisodes(w, p, n) : i \in NumberedEpisodes(v, p, n)
    BY <1>2, NumberedAre DEF SameEpisodes
  <2>2. \A i \in NumberedEpisodes(v, p, n) : i \in NumberedEpisodes(w, p, n)
    BY <1>2, NumberedAre DEF SameEpisodes
  <2> QED BY <2>1, <2>2
<1> QED BY <1>1, <1>2

LEMMA SameAgain ==
  ASSUME NEW u, NEW v, NEW w
  PROVE  /\ SameSeasons(u, v) /\ SameSeasons(v, w) => SameSeasons(u, w)
         /\ SameEpisodes(u, v) /\ SameEpisodes(v, w) => SameEpisodes(u, w)
         /\ SameSeasons(u, u) /\ SameEpisodes(u, u)
BY DEF SameSeasons, SameEpisodes

\* What was created where nothing stood remains so while nothing moves.
LEMMA AloneStays ==
  ASSUME NEW u, NEW v, NEW w, AloneIn(u, v), SameSeasons(v, w)
  PROVE  AloneIn(u, w)
<1> SUFFICES ASSUME NEW i \in Existing(w, "seasons") \ Existing(u, "seasons")
             PROVE  NumberedSeasons(w, w["seasons"][i]["series"], w["seasons"][i]["number"]) = {i}
  BY DEF AloneIn
<1>1. \A p, n : NumberedSeasons(w, p, n) = NumberedSeasons(v, p, n)
  BY SameNumbered
<1>2. /\ i \in Existing(v, "seasons") \ Existing(u, "seasons")
      /\ w["seasons"][i]["series"] = v["seasons"][i]["series"]
      /\ w["seasons"][i]["number"] = v["seasons"][i]["number"]
  BY DEF SameSeasons
<1>3. NumberedSeasons(v, v["seasons"][i]["series"], v["seasons"][i]["number"]) = {i}
  BY <1>2 DEF AloneIn
<1> QED BY <1>1, <1>2, <1>3

LEMMA MissedStays ==
  ASSUME NEW u, NEW v, NEW w, MissedIn(u, v), SameEpisodes(v, w)
  PROVE  MissedIn(u, w)
BY DEF MissedIn, SameEpisodes

\* One more row, of its own table alone.
LEMMA InsertedIs ==
  ASSUME NEW v, NEW w, NEW t \in Tables, NEW i, NEW row, Inserted(v, w, t, i, row), Fits(v, t, row)
  PROVE  /\ OneMore(v, w, t, i)
         /\ t # "seasons" => SameSeasons(v, w)
         /\ t # "episodes" => SameEpisodes(v, w)
<1>1. ASSUME NEW u \in Tables PROVE Existing(w, u) = IF u = t THEN Existing(v, u) \cup {i} ELSE Existing(v, u)
  <2>1. CASE u # t
    BY <2>1 DEF Inserted, Existing, Exists
  <2>2. CASE u = t
    <3>1. i \in Existing(w, u)
      BY <2>2 DEF Inserted, Fits, Existing, Exists
    <3>2. \A j \in Slots[u] : j # i => (j \in Existing(w, u) <=> j \in Existing(v, u))
      BY <2>2 DEF Inserted, Existing, Exists
    <3>3. Existing(w, u) \subseteq Slots[u] /\ Existing(v, u) \subseteq Slots[u]
      BY DEF Existing
    <3> QED BY <2>2, <3>1, <3>2, <3>3
  <2> QED BY <2>1, <2>2
<1>2. OneMore(v, w, t, i)
  BY <1>1 DEF OneMore
<1>3. t # "seasons" => SameSeasons(v, w)
  <2>1. ASSUME t # "seasons", NEW j \in Existing(v, "seasons")
        PROVE  w["seasons"][j] = v["seasons"][j]
    BY <2>1, TablesAre DEF Inserted, Existing
  <2> QED BY <1>2, <2>1, TablesAre DEF SameSeasons, OneMore
<1>4. t # "episodes" => SameEpisodes(v, w)
  <2>1. ASSUME t # "episodes", NEW j \in Existing(v, "episodes")
        PROVE  w["episodes"][j] = v["episodes"][j]
    BY <2>1, TablesAre DEF Inserted, Existing
  <2> QED BY <1>2, <2>1, TablesAre DEF SameEpisodes, OneMore
<1> QED BY <1>2, <1>3, <1>4

\* One more season with a number that was free; one more episode that was missing.
LEMMA AloneGrows ==
  ASSUME NEW u, NEW v, NEW w, AloneIn(u, v), NEW i, NEW row, Inserted(v, w, "seasons", i, row),
         Fits(v, "seasons", row), NumberedSeasons(v, row["series"], row["number"]) = {}
  PROVE  AloneIn(u, w)
<1>0. "seasons" \in Tables
  BY TablesAre
<1>7. OneMore(v, w, "seasons", i)
  BY <1>0, InsertedIs
<1>1. Existing(w, "seasons") = Existing(v, "seasons") \cup {i} /\ i \in Slots["seasons"] /\ i \notin Existing(v, "seasons")
  BY <1>0, <1>7 DEF OneMore, Inserted
<1>2. w["seasons"][i] = row /\ \A j \in Existing(v, "seasons") : w["seasons"][j] = v["seasons"][j]
  BY <1>1, TablesAre DEF Inserted, Existing
<1>3. row["series"] # Null
  BY SlotsAre, TablesAre DEF Fits, Existing
<1>4. \A j \in Existing(v, "seasons") : v["seasons"][j]["series"] # row["series"] \/ v["seasons"][j]["number"] # row["number"]
  BY <1>3, NumberedAre DEF Existing
<1>5. NumberedSeasons(w, row["series"], row["number"]) = {i}
  <2>1. i \in NumberedSeasons(w, row["series"], row["number"])
    BY <1>1, <1>2, <1>3, NumberedAre
  <2>2. ASSUME NEW j \in NumberedSeasons(w, row["series"], row["number"]) PROVE j = i
    <3>1. j \in Existing(w, "seasons") /\ w["seasons"][j]["series"] = row["series"] /\ w["seasons"][j]["number"] = row["number"]
      BY <2>2, NumberedAre
    <3> QED BY <3>1, <1>1, <1>2, <1>4
  <2> QED BY <2>1, <2>2
<1>6. ASSUME NEW j \in Existing(v, "seasons") \ Existing(u, "seasons")
      PROVE  NumberedSeasons(w, w["seasons"][j]["series"], w["seasons"][j]["number"]) = {j}
  <2> DEFINE s == v["seasons"][j]["series"]
             n == v["seasons"][j]["number"]
  <2>1. NumberedSeasons(v, s, n) = {j}
    BY DEF AloneIn
  <2>2. w["seasons"][j]["series"] = s /\ w["seasons"][j]["number"] = n
    BY <1>2
  <2>3. s # row["series"] \/ n # row["number"]
    BY <1>4
  <2>4. j \in Slots["seasons"] /\ s # Null
    BY <2>1, NumberedAre
  <2> HIDE DEF s, n
  <2>5. j \in NumberedSeasons(w, s, n)
    BY <2>2, <2>4, NumberedAre
  <2>6. ASSUME NEW k \in NumberedSeasons(w, s, n) PROVE k = j
    <3>1. k \in Existing(w, "seasons") /\ k \in Slots["seasons"] /\ w["seasons"][k]["series"] = s /\ w["seasons"][k]["number"] = n
      BY <2>6, NumberedAre
    <3>2. k \in Existing(v, "seasons")
      BY <3>1, <2>3, <1>1, <1>2
    <3>3. k \in NumberedSeasons(v, s, n)
      BY <3>1, <3>2, <2>4, <1>2, NumberedAre
    <3> QED BY <3>3, <2>1
  <2> QED BY <2>2, <2>5, <2>6
<1> QED BY <1>1, <1>2, <1>5, <1>6 DEF AloneIn

LEMMA MissedGrows ==
  ASSUME NEW u, NEW v, NEW w, MissedIn(u, v), NEW i, NEW row, Inserted(v, w, "episodes", i, row),
         Fits(v, "episodes", row), NumberedEpisodes(u, row["season"], row["number"]) = {}
  PROVE  MissedIn(u, w)
<1>0. "episodes" \in Tables
  BY TablesAre
<1>7. OneMore(v, w, "episodes", i)
  BY <1>0, InsertedIs
<1>1. Existing(w, "episodes") = Existing(v, "episodes") \cup {i} /\ i \in Slots["episodes"] /\ i \notin Existing(v, "episodes")
  BY <1>0, <1>7 DEF OneMore, Inserted
<1>2. w["episodes"][i] = row /\ \A j \in Existing(v, "episodes") : w["episodes"][j] = v["episodes"][j]
  BY <1>1, TablesAre DEF Inserted, Existing
<1> QED BY <1>1, <1>2 DEF MissedIn

\* Another value in one column, which does not say where the row stands.
LEMMA PutSame ==
  ASSUME NEW v, IsView(v), NEW t \in Tables, NEW i \in Existing(v, t), NEW c \in Columns[t], NEW x,
         \A y \in Tables : Existing(Put(v, t, i, c, x), y) = Existing(v, y)
  PROVE  /\ ~(t = "seasons" /\ c \in {"series", "number"}) => SameSeasons(v, Put(v, t, i, c, x))
         /\ ~(t = "episodes" /\ c \in {"season", "number"}) => SameEpisodes(v, Put(v, t, i, c, x))
<1> DEFINE w == Put(v, t, i, c, x)
<1>0. i \in Slots[t]
  BY DEF Existing
<1>1. \A u \in Tables : \A j \in Slots[u] : \A d \in Columns[u] :
        w[u][j][d] = IF u = t /\ j = i /\ d = c THEN x ELSE v[u][j][d]
  BY <1>0, PutIs
<1>2. \A u \in Tables : Existing(w, u) = Existing(v, u)
  OBVIOUS
<1> HIDE DEF w
<1>3. ASSUME ~(t = "seasons" /\ c \in {"series", "number"}), NEW j \in Existing(v, "seasons")
      PROVE  w["seasons"][j]["series"] = v["seasons"][j]["series"] /\ w["seasons"][j]["number"] = v["seasons"][j]["number"]
  <2>1. j \in Slots["seasons"] /\ "seasons" \in Tables /\ {"series", "number"} \subseteq Columns["seasons"]
    BY TablesAre DEF Existing
  <2> QED BY <1>1, <1>3, <2>1
<1>4. ASSUME ~(t = "episodes" /\ c \in {"season", "number"}), NEW j \in Existing(v, "episodes")
      PROVE  w["episodes"][j]["season"] = v["episodes"][j]["season"] /\ w["episodes"][j]["number"] = v["episodes"][j]["number"]
  <2>1. j \in Slots["episodes"] /\ "episodes" \in Tables /\ {"season", "number"} \subseteq Columns["episodes"]
    BY TablesAre DEF Existing
  <2> QED BY <1>1, <1>4, <2>1
<1> QED BY <1>2, <1>3, <1>4, TablesAre DEF SameSeasons, SameEpisodes, w

-----------------------------------------------------------------------------
(* What one turn of the loop of Jellyfin's import does.                     *)

\* b is a with the season of ep, or its id.
Seasoned(a, b, s, ep, room) ==
  /\ b.byId = a.byId /\ b.byNumber = a.byNumber
  /\ \/ /\ ep.season \in DOMAIN a.seasons /\ b.seasons = a.seasons
        /\ \A t \in Tables : \A j \in Slots[t] : \A c \in Columns[t] :
             b.view[t][j][c] =
               IF t = "seasons" /\ j = a.seasons[ep.season] /\ c = "jellyfin" /\ a.view[t][j][c] = Null
               THEN ep.of ELSE a.view[t][j][c]
        /\ SameSeasons(a.view, b.view) /\ SameEpisodes(a.view, b.view)
     \/ /\ ep.season \notin DOMAIN a.seasons /\ b.seasons = Also(a.seasons, ep.season, b.new)
        /\ b.new \in room["seasons"]
        /\ Inserted(a.view, b.view, "seasons", b.new,
                    Row("seasons", [series |-> s, number |-> ep.season, jellyfin |-> ep.of]))

\* What a turn of Jellyfin's loop does to the season and to the episode, cell by cell.
LEMMA JellyfinSeasonIs ==
  ASSUME NEW v, NEW acc, Grown("jellyfin", v, acc), Indexed3(acc), NEW s \in Existing(acc.view, "series"),
         NEW ep, ep.season # Null, NEW room, IsRoom(room), ~JellyfinSeason(acc, s, ep, room).full
  PROVE  ~acc.full /\ Seasoned(acc, JellyfinSeason(acc, s, ep, room), s, ep, room)
<1> DEFINE b == JellyfinSeason(acc, s, ep, room)
           i == acc.seasons[ep.season]
           values == [series |-> s, number |-> ep.season, jellyfin |-> ep.of]
           more == Added(acc, "seasons", values, room)
<1>0. /\ "seasons" \in Tables
      /\ {"jellyfin"} \subseteq Columns["seasons"]
      /\ DOMAIN acc = {"view", "full", "new", "seasons", "byId", "byNumber"}
  BY TablesAre DEF Indexed3
<1>1. ~acc.full
  BY DEF JellyfinSeason
<1>9. IsView(acc.view) /\ Sound(acc.view)
  BY DEF Grown, Extends
<1>2. CASE ep.season \in DOMAIN acc.seasons /\ acc.view.seasons[i].jellyfin # Null
  <2>1. b = acc
    BY <1>1, <1>2 DEF JellyfinSeason
  <2> HIDE DEF b
  <2>2. \A t \in Tables : \A j \in Slots[t] : \A c \in Columns[t] :
          b.view[t][j][c] =
            IF t = "seasons" /\ j = i /\ c = "jellyfin" /\ acc.view[t][j][c] = Null
            THEN ep.of ELSE acc.view[t][j][c]
    BY <1>2, <2>1
  <2>3. Seasoned(acc, b, s, ep, room)
    BY <1>2, <2>1, <2>2, SameAgain DEF Seasoned
  <2> QED BY <1>1, <2>3 DEF b
<1>3. CASE ep.season \in DOMAIN acc.seasons /\ acc.view.seasons[i].jellyfin = Null
  <2> DEFINE w == Put(acc.view, "seasons", i, "jellyfin", ep.of)
  <2>1. b = [acc EXCEPT !.view = w]
    BY <1>1, <1>3 DEF JellyfinSeason
  <2>2. i \in Existing(acc.view, "seasons") /\ i \in Slots["seasons"]
    BY <1>3 DEF Indexed3, IsSeasons, Existing
  <2>3. acc.view["seasons"][i]["jellyfin"] = Null
    BY <1>3
  <2>8. ep.season \in DOMAIN acc.seasons
    BY <1>3
  <2> HIDE DEF i
  <2>4. \A y \in Tables : Existing(w, y) = Existing(acc.view, y)
    <3>1. Extends("jellyfin", v, acc.view)
      BY DEF Grown
    <3> QED BY <1>0, <2>2, <2>3, <3>1, PutGrows
  <2>5. SameSeasons(acc.view, w) /\ SameEpisodes(acc.view, w)
    BY <1>0, <1>9, <2>2, <2>4, PutSame
  <2>6. \A t \in Tables : \A j \in Slots[t] : \A c \in Columns[t] :
          w[t][j][c] = IF t = "seasons" /\ j = i /\ c = "jellyfin" THEN ep.of ELSE acc.view[t][j][c]
    BY <1>0, <1>9, <2>2, PutIs
  <2> HIDE DEF w, b
  <2>7. b.view = w /\ b.seasons = acc.seasons /\ b.byId = acc.byId /\ b.byNumber = acc.byNumber
    BY <1>0, <2>1
  <2>9. \A t \in Tables : \A j \in Slots[t] : \A c \in Columns[t] :
          b.view[t][j][c] = IF t = "seasons" /\ j = i /\ c = "jellyfin" /\ acc.view[t][j][c] = Null
                            THEN ep.of ELSE acc.view[t][j][c]
    BY <2>3, <2>6, <2>7
  <2>10. Seasoned(acc, b, s, ep, room)
    BY <2>5, <2>7, <2>8, <2>9 DEF Seasoned, i
  <2> QED BY <1>1, <2>10 DEF b
<1>4. CASE ep.season \notin DOMAIN acc.seasons
  <2>1. b = IF more.full THEN more ELSE [more EXCEPT !.seasons = Also(more.seasons, ep.season, more.new)]
    BY <1>1, <1>4 DEF JellyfinSeason
  <2>2. Row("seasons", values)["series"] = s /\ Row("seasons", values)["number"] # Null
    BY RowsAre
  <2> HIDE DEF values
  <2>3. /\ Grown("jellyfin", v, more)
        /\ DOMAIN more = DOMAIN acc
        /\ \A f \in DOMAIN acc \ {"view", "full", "new"} : more[f] = acc[f]
        /\ \/ more.full = TRUE /\ more.view = acc.view /\ more.new = acc.new
           \/ /\ more.full = acc.full
              /\ more.new \in room["seasons"] /\ more.new \in Existing(more.view, "seasons")
              /\ Inserted(acc.view, more.view, "seasons", more.new, Row("seasons", values))
    BY <2>2, SeasonAdded
  <2>4. ~more.full
    BY <2>1
  <2> HIDE DEF more, b
  <2>5. more.seasons = acc.seasons /\ more.byId = acc.byId /\ more.byNumber = acc.byNumber
    BY <2>3, <1>0
  <2>6. /\ b.view = more.view /\ b.new = more.new /\ b.byId = acc.byId /\ b.byNumber = acc.byNumber
        /\ b.seasons = Also(acc.seasons, ep.season, more.new)
    BY <1>0, <2>1, <2>3, <2>4, <2>5
  <2>7. more.new \in room["seasons"] /\ Inserted(acc.view, more.view, "seasons", more.new, Row("seasons", values))
    BY <2>3, <2>4
  <2>8. Seasoned(acc, b, s, ep, room)
    BY <1>4, <2>6, <2>7 DEF Seasoned, values
  <2> QED BY <1>1, <2>8 DEF b
<1> QED BY <1>2, <1>3, <1>4

\* b is a, whose seasons have that of ep, with the episode ep.
Episoded(a, b, ep, room) ==
  LET p == a.seasons[ep.season]
      place == <<p, ep.number>>
  IN  /\ b.seasons = a.seasons
      /\ \/ \E i \in Existing(a.view, "episodes") :
              /\ IF ep.id \in DOMAIN a.byId THEN i = a.byId[ep.id]
                 ELSE place \in DOMAIN a.byNumber /\ i = a.byNumber[place]
              /\ \A t \in Tables : \A j \in Slots[t] : \A c \in Columns[t] :
                   b.view[t][j][c] =
                     IF t = "episodes" /\ j = i /\ c = "number" THEN ep.number
                     ELSE IF t = "episodes" /\ j = i /\ c = "jellyfin" /\ a.view[t][j][c] = Null THEN ep.id
                     ELSE a.view[t][j][c]
              /\ b.byNumber = a.byNumber
              /\ b.byId = IF a.view["episodes"][i]["jellyfin"] = Null THEN Also(a.byId, ep.id, i) ELSE a.byId
              /\ \A y \in Tables : Existing(b.view, y) = Existing(a.view, y)
              /\ SameSeasons(a.view, b.view)
         \/ /\ ep.id \notin DOMAIN a.byId /\ place \notin DOMAIN a.byNumber
            /\ b.new \in room["episodes"]
            /\ Inserted(a.view, b.view, "episodes", b.new,
                        Row("episodes", [season |-> p, number |-> ep.number, jellyfin |-> ep.id]))
            /\ b.byId = Also(a.byId, ep.id, b.new)
            /\ b.byNumber = Also(a.byNumber, place, b.new)

LEMMA JellyfinEpisodeIs ==
  ASSUME NEW v, NEW before, Grown("jellyfin", v, before), Indexed3(before), NEW s \in Existing(before.view, "series"),
         NEW ep, ep.season # Null, ep.number # Null, ep.id # Null, NEW room, IsRoom(room),
         ~JellyfinEpisode(before, s, ep, room).full
  PROVE  LET acc == JellyfinSeason(before, s, ep, room) IN
         /\ ~before.full /\ ~acc.full
         /\ Grown("jellyfin", v, acc) /\ Indexed3(acc) /\ ep.season \in DOMAIN acc.seasons
         /\ Seasoned(before, acc, s, ep, room)
         /\ Episoded(acc, JellyfinEpisode(before, s, ep, room), ep, room)
<1> DEFINE b == JellyfinEpisode(before, s, ep, room)
           acc == JellyfinSeason(before, s, ep, room)
           p == acc.seasons[ep.season]
           place == <<p, ep.number>>
           i == IF ep.id \in DOMAIN acc.byId THEN acc.byId[ep.id] ELSE acc.byNumber[place]
           fills == acc.view.episodes[i].jellyfin = Null
           values == [season |-> p, number |-> ep.number, jellyfin |-> ep.id]
           new == Added(acc, "episodes", values, room)
           u == IF fills THEN Put(acc.view, "episodes", i, "jellyfin", ep.id) ELSE acc.view
           w == Put(u, "episodes", i, "number", ep.number)
<1>0. /\ "episodes" \in Tables /\ "seasons" \in Tables
      /\ {"season", "number", "jellyfin"} \subseteq Columns["episodes"]
      /\ Follows("jellyfin", "episodes", "number")
  BY TablesAre DEF Follows
<1>1. b = IF acc.full THEN acc
          ELSE IF ep.id \in DOMAIN acc.byId \/ place \in DOMAIN acc.byNumber
          THEN [acc EXCEPT !.view = w, !.byId = IF fills THEN Also(acc.byId, ep.id, i) ELSE acc.byId]
          ELSE [new EXCEPT !.byId = Also(new.byId, ep.id, new.new),
                           !.byNumber = Also(new.byNumber, place, new.new)]
  BY DEF JellyfinEpisode
<1>2. /\ Grown("jellyfin", v, acc) /\ Indexed3(acc)
      /\ ~acc.full => ep.season \in DOMAIN acc.seasons
  BY JellyfinSeasonGrows
<1>3. ~acc.full
  BY <1>1
<1>10. ~before.full /\ Seasoned(before, acc, s, ep, room)
  BY <1>3, JellyfinSeasonIs
<1> HIDE DEF acc, b
<1>4. DOMAIN acc = {"view", "full", "new", "seasons", "byId", "byNumber"}
  BY <1>2 DEF Indexed3
<1>9. IsView(acc.view) /\ Sound(acc.view) /\ Extends("jellyfin", v, acc.view)
  BY <1>2 DEF Grown, Extends
<1>5. ASSUME ep.id \in DOMAIN acc.byId \/ place \in DOMAIN acc.byNumber
      PROVE  Episoded(acc, b, ep, room)
  <2>1. i \in Existing(acc.view, "episodes") /\ i \in Slots["episodes"]
    BY <1>2, <1>5 DEF Indexed3, Existing
  <2>2. b = [acc EXCEPT !.view = w, !.byId = IF fills THEN Also(acc.byId, ep.id, i) ELSE acc.byId]
    BY <1>1, <1>3, <1>5
  <2>3. fills <=> acc.view["episodes"][i]["jellyfin"] = Null
    OBVIOUS
  <2>4. IF ep.id \in DOMAIN acc.byId THEN i = acc.byId[ep.id]
        ELSE place \in DOMAIN acc.byNumber /\ i = acc.byNumber[place]
    BY <1>5
  <2> HIDE DEF i, fills
  <2>5. /\ Extends("jellyfin", v, u) /\ \A y \in Tables : Existing(u, y) = Existing(acc.view, y)
        /\ SameSeasons(acc.view, u)
        /\ \A t \in Tables : \A j \in Slots[t] : \A c \in Columns[t] :
             u[t][j][c] = IF t = "episodes" /\ j = i /\ c = "jellyfin" /\ acc.view[t][j][c] = Null THEN ep.id
                          ELSE acc.view[t][j][c]
    <3>1. CASE ~fills
      BY <1>9, <2>3, <3>1, SameAgain
    <3>2. CASE fills
      <4> DEFINE z == Put(acc.view, "episodes", i, "jellyfin", ep.id)
      <4>1. Extends("jellyfin", v, z) /\ \A y \in Tables : Existing(z, y) = Existing(acc.view, y)
        BY <1>0, <1>9, <2>1, <2>3, <3>2, PutGrows
      <4>2. SameSeasons(acc.view, z)
        BY <1>0, <1>9, <2>1, <4>1, PutSame
      <4>3. \A t \in Tables : \A j \in Slots[t] : \A c \in Columns[t] :
              z[t][j][c] = IF t = "episodes" /\ j = i /\ c = "jellyfin" THEN ep.id ELSE acc.view[t][j][c]
        BY <1>0, <1>9, <2>1, PutIs
      <4>4. u = z
        BY <3>2
      <4> HIDE DEF z, u
      <4> QED BY <2>3, <3>2, <4>1, <4>2, <4>3, <4>4
    <3> QED BY <3>1, <3>2
  <2> HIDE DEF u
  <2>6. \A y \in Tables : Existing(w, y) = Existing(acc.view, y)
    <3>1. i \in Existing(u, "episodes")
      BY <1>0, <2>1, <2>5
    <3>2. \A y \in Tables : Existing(w, y) = Existing(u, y)
      BY <1>0, <2>5, <3>1, PutGrows
    <3> QED BY <2>5, <3>2
  <2>7. SameSeasons(acc.view, w)
    <3>1. IsView(u) /\ i \in Existing(u, "episodes") /\ \A y \in Tables : Existing(w, y) = Existing(u, y)
      BY <1>0, <2>1, <2>5, <2>6 DEF Extends
    <3>2. SameSeasons(u, w)
      BY <1>0, <3>1, PutSame
    <3> QED BY <2>5, <3>2, SameAgain
  <2>8. \A t \in Tables : \A j \in Slots[t] : \A c \in Columns[t] :
          w[t][j][c] = IF t = "episodes" /\ j = i /\ c = "number" THEN ep.number ELSE u[t][j][c]
    BY <1>0, <2>1, <2>5, PutIs DEF Extends
  <2> HIDE DEF w
  <2>9. /\ b.view = w /\ b.seasons = acc.seasons /\ b.byNumber = acc.byNumber
        /\ b.byId = IF fills THEN Also(acc.byId, ep.id, i) ELSE acc.byId
    BY <1>4, <2>2
  <2>10. \A t \in Tables : \A j \in Slots[t] : \A c \in Columns[t] :
           b.view[t][j][c] =
             IF t = "episodes" /\ j = i /\ c = "number" THEN ep.number
             ELSE IF t = "episodes" /\ j = i /\ c = "jellyfin" /\ acc.view[t][j][c] = Null THEN ep.id
             ELSE acc.view[t][j][c]
    BY <2>5, <2>8, <2>9
  <2> QED BY <2>1, <2>3, <2>4, <2>6, <2>7, <2>9, <2>10 DEF Episoded
<1>6. ASSUME ~(ep.id \in DOMAIN acc.byId \/ place \in DOMAIN acc.byNumber)
      PROVE  Episoded(acc, b, ep, room)
  <2>1. b = [new EXCEPT !.byId = Also(new.byId, ep.id, new.new), !.byNumber = Also(new.byNumber, place, new.new)]
    BY <1>1, <1>3, <1>6
  <2>2. p \in Existing(acc.view, "seasons")
    BY <1>2, <1>3 DEF Indexed3, IsSeasons
  <2>3. Row("episodes", values)["season"] = p /\ Row("episodes", values)["number"] # Null
    BY RowsAre
  <2> HIDE DEF values, p
  <2>4. /\ Grown("jellyfin", v, new)
        /\ DOMAIN new = DOMAIN acc
        /\ \A f \in DOMAIN acc \ {"view", "full", "new"} : new[f] = acc[f]
        /\ \/ new.full = TRUE /\ new.view = acc.view /\ new.new = acc.new
           \/ /\ new.full = acc.full
              /\ new.new \in room["episodes"] /\ new.new \in Existing(new.view, "episodes")
              /\ Inserted(acc.view, new.view, "episodes", new.new, Row("episodes", values))
    BY <1>2, <2>2, <2>3, EpisodeAdded
  <2> HIDE DEF new, place
  <2>5. new.seasons = acc.seasons /\ new.byId = acc.byId /\ new.byNumber = acc.byNumber
    BY <2>4, <1>4
  <2>6. /\ b.view = new.view /\ b.seasons = new.seasons /\ b.new = new.new /\ b.full = new.full
        /\ b.byId = Also(new.byId, ep.id, new.new) /\ b.byNumber = Also(new.byNumber, place, new.new)
    BY <1>4, <2>1, <2>4
  <2>7. ~b.full
    BY DEF b
  <2>8. new.new \in room["episodes"] /\ Inserted(acc.view, new.view, "episodes", new.new, Row("episodes", values))
    BY <2>4, <2>6, <2>7
  <2> QED BY <1>6, <2>5, <2>6, <2>8 DEF Episoded, place, values, p
<1>7. Episoded(acc, b, ep, room)
  BY <1>5, <1>6
<1> QED BY <1>2, <1>3, <1>7, <1>10 DEF acc, b

\* Where one more row is found by number.
LEMMA InsertedNumbered ==
  ASSUME NEW v, NEW w, NEW t \in {"seasons", "episodes"}, NEW i, NEW row, Inserted(v, w, t, i, row), Fits(v, t, row)
  PROVE  /\ \A p, n : NumberedSeasons(w, p, n) = NumberedSeasons(v, p, n) \cup
              (IF t = "seasons" /\ row["series"] = p /\ row["number"] = n THEN {i} ELSE {})
         /\ \A p, n : NumberedEpisodes(w, p, n) = NumberedEpisodes(v, p, n) \cup
              (IF t = "episodes" /\ row["season"] = p /\ row["number"] = n THEN {i} ELSE {})
<1>0. "seasons" \in Tables /\ "episodes" \in Tables /\ t \in Tables /\ "series" \in Tables
  BY TablesAre
<1>1. CASE t = "seasons"
  <2>1. \A p, n : NumberedEpisodes(w, p, n) = NumberedEpisodes(v, p, n)
    BY <1>0, <1>1, InsertedIs, SameNumbered
  <2>2. /\ i \in Slots["seasons"] /\ i \notin Existing(v, "seasons") /\ w["seasons"][i] = row
        /\ \A j \in Slots["seasons"] : j # i => w["seasons"][j] = v["seasons"][j]
    BY <1>0, <1>1 DEF Inserted
  <2>3. row["series"] # Null
    BY <1>0, <1>1, SlotsAre DEF Fits, Existing
  <2>4. ASSUME NEW p, NEW n
        PROVE  NumberedSeasons(w, p, n) = NumberedSeasons(v, p, n) \cup
                 (IF row["series"] = p /\ row["number"] = n THEN {i} ELSE {})
    <3>1. \A j \in Slots["seasons"] : j # i => (j \in NumberedSeasons(w, p, n) <=> j \in NumberedSeasons(v, p, n))
      BY <2>2, NumberedAre
    <3>2. i \notin NumberedSeasons(v, p, n)
      BY <2>2, NumberedAre
    <3>3. i \in NumberedSeasons(w, p, n) <=> row["series"] = p /\ row["number"] = n
      BY <2>2, <2>3, NumberedAre
    <3>4. NumberedSeasons(w, p, n) \subseteq Slots["seasons"] /\ NumberedSeasons(v, p, n) \subseteq Slots["seasons"]
      BY NumberedAre
    <3> QED BY <2>2, <3>1, <3>2, <3>3, <3>4
  <2> QED BY <1>1, <2>1, <2>4
<1>2. CASE t = "episodes"
  <2>1. \A p, n : NumberedSeasons(w, p, n) = NumberedSeasons(v, p, n)
    BY <1>0, <1>2, InsertedIs, SameNumbered
  <2>2. /\ i \in Slots["episodes"] /\ i \notin Existing(v, "episodes") /\ w["episodes"][i] = row
        /\ \A j \in Slots["episodes"] : j # i => w["episodes"][j] = v["episodes"][j]
    BY <1>0, <1>2 DEF Inserted
  <2>3. row["season"] # Null
    BY <1>0, <1>2, SlotsAre DEF Fits, Existing
  <2>4. ASSUME NEW p, NEW n
        PROVE  NumberedEpisodes(w, p, n) = NumberedEpisodes(v, p, n) \cup
                 (IF row["season"] = p /\ row["number"] = n THEN {i} ELSE {})
    <3>1. \A j \in Slots["episodes"] : j # i => (j \in NumberedEpisodes(w, p, n) <=> j \in NumberedEpisodes(v, p, n))
      BY <2>2, NumberedAre
    <3>2. i \notin NumberedEpisodes(v, p, n)
      BY <2>2, NumberedAre
    <3>3. i \in NumberedEpisodes(w, p, n) <=> row["season"] = p /\ row["number"] = n
      BY <2>2, <2>3, NumberedAre
    <3>4. NumberedEpisodes(w, p, n) \subseteq Slots["episodes"] /\ NumberedEpisodes(v, p, n) \subseteq Slots["episodes"]
      BY NumberedAre
    <3> QED BY <2>2, <3>1, <3>2, <3>3, <3>4
  <2> QED BY <1>2, <2>1, <2>4
<1> QED BY <1>1, <1>2

\* Seasons stay where they are, and so do episodes, unless an import follows its source.
LEMMA ExtendsNumbered ==
  ASSUME NEW kind, NEW v, NEW w, Extends(kind, v, w), Sound(v)
  PROVE  /\ \A p, n : NumberedSeasons(v, p, n) \subseteq NumberedSeasons(w, p, n)
         /\ kind \notin {"sonarr", "jellyfin"} => \A p, n : NumberedEpisodes(v, p, n) \subseteq NumberedEpisodes(w, p, n)
<1>0. /\ "seasons" \in Tables /\ "episodes" \in Tables /\ "series" \in Tables
      /\ {"series", "number"} \subseteq Columns["seasons"] /\ {"season", "number"} \subseteq Columns["episodes"]
  BY TablesAre
<1>1. ASSUME NEW p, NEW n, NEW i \in NumberedSeasons(v, p, n) PROVE i \in NumberedSeasons(w, p, n)
  <2>1. i \in Slots["seasons"] /\ i \in Existing(v, "seasons") /\ p # Null /\ v["seasons"][i]["series"] = p /\ v["seasons"][i]["number"] = n
    BY <1>1, NumberedAre
  <2>2. n # Null
    BY <2>1 DEF Sound
  <2>3. ~Follows(kind, "seasons", "series") /\ ~Follows(kind, "seasons", "number")
    BY DEF Follows
  <2>4. v["seasons"][i]["series"] \in {Null, w["seasons"][i]["series"]} /\ v["seasons"][i]["number"] \in {Null, w["seasons"][i]["number"]}
    BY <1>0, <2>1, <2>3 DEF Extends
  <2> QED BY <2>1, <2>2, <2>4, NumberedAre
<1>2. ASSUME kind \notin {"sonarr", "jellyfin"}, NEW p, NEW n, NEW i \in NumberedEpisodes(v, p, n)
      PROVE  i \in NumberedEpisodes(w, p, n)
  <2>1. i \in Slots["episodes"] /\ i \in Existing(v, "episodes") /\ p # Null /\ v["episodes"][i]["season"] = p /\ v["episodes"][i]["number"] = n
    BY <1>2, NumberedAre
  <2>2. n # Null
    BY <2>1 DEF Sound
  <2>3. ~Follows(kind, "episodes", "season") /\ ~Follows(kind, "episodes", "number")
    BY <1>2 DEF Follows
  <2>4. v["episodes"][i]["season"] \in {Null, w["episodes"][i]["season"]} /\ v["episodes"][i]["number"] \in {Null, w["episodes"][i]["number"]}
    BY <1>0, <2>1, <2>3 DEF Extends
  <2> QED BY <2>1, <2>2, <2>4, NumberedAre
<1> QED BY <1>1, <1>2

-----------------------------------------------------------------------------
\* The seasons that Sonarr's import adds.
LEMMA AddedSeasonsAlone ==
  ASSUME NEW kind, NEW v, IsView(v), Sound(v), NEW s \in Existing(v, "series"), NEW numbers,
         IsFiniteSet(numbers), Null \notin numbers, NEW late, NEW room, IsRoom(room)
  PROVE  LET after == AddedSeasons(v, s, numbers, late, room) IN
         /\ AloneIn(v, after.view) /\ SameEpisodes(v, after.view)
         /\ ~after.full => \A n \in numbers : NumberedSeasons(after.view, s, n) # {}
         /\ after.view["series"] = v["series"]
<1> DEFINE missing == numbers \ DOMAIN SeasonsByNumber(v, s, late)
           list == SetToSeq(missing)
           N == Len(list)
           t == SeasonTurns(v, s, list, room)
           Turn(n) == /\ AloneIn(v, t[n].view) /\ SameEpisodes(v, t[n].view)
                      /\ \A k \in (n + 1)..N : NumberedSeasons(t[n].view, s, list[k]) = {}
                      /\ t[n].full \/ \A k \in 1..n : NumberedSeasons(t[n].view, s, list[k]) # {}
                      /\ t[n].view["series"] = v["series"]
           S == {n \in 0..N : Turn(n)}
<1>0. Enumerates(list, missing) /\ \A n \in 1..N : list[n] # Null
  BY MissingNumbers
<1>1. /\ N \in Nat /\ \A n \in 1..N : list[n] # Null
      /\ Enumerates(list, missing)
  BY <1>0 DEF Enumerates
<1>2. AddedSeasons(v, s, numbers, late, room) = t[N]
  BY DEF AddedSeasons, AfterSeasons
<1> HIDE DEF list
<1>3. /\ t[0] = Bare(v)
      /\ \A n \in 1..N : t[n] = Added(t[n - 1], "seasons", [series |-> s, number |-> list[n]], room)
  BY <1>1, SeasonTurnsAre
<1>4. \A n \in 0..N : Grown(kind, v, t[n])
  BY <1>1, EverySeasonTurn
<1>5. \A k \in 1..N : NumberedSeasons(v, s, list[k]) = {}
  <2>1. \A n \in missing : NumberedSeasons(v, s, n) = {}
    BY SeasonsByNumberAre
  <2> QED BY <2>1, <1>1 DEF Enumerates
<1>6. \A j, k \in 1..N : list[j] = list[k] => j = k
  BY <1>1 DEF Enumerates
<1>13. \A n \in missing : \E k \in 1..N : list[k] = n
  BY <1>1 DEF Enumerates
<1>14. \A n \in numbers : n \in missing \/ NumberedSeasons(v, s, n) # {}
  BY SeasonsByNumberAre
<1> HIDE DEF t, N, missing
<1>7. 0 \in S
  <2>1. t[0].view = v
    BY <1>3 DEF Bare
  <2>2. \A k \in (0 + 1)..N : NumberedSeasons(t[0].view, s, list[k]) = {}
    BY <1>1, <1>5, <2>1
  <2>3. \A k \in 1..0 : NumberedSeasons(t[0].view, s, list[k]) # {}
    OBVIOUS
  <2> QED BY <1>1, <2>1, <2>2, <2>3, AloneItself, SameAgain
<1>8. ASSUME NEW n \in 1..N, n - 1 \in S
      PROVE  n \in S
  <2> DEFINE acc == t[n - 1]
             values == [series |-> s, number |-> list[n]]
             row == Row("seasons", values)
             b == t[n]
  <2>0. /\ n \in Nat /\ n - 1 \in 0..N /\ (n - 1) + 1 = n /\ n \in n..N /\ \A k \in (n + 1)..N : k \in n..N /\ k # n /\ k \in 1..N
        /\ \A k \in 1..n : k = n \/ k \in 1..(n - 1)
    BY <1>1
  <2>1. /\ AloneIn(v, acc.view) /\ SameEpisodes(v, acc.view)
        /\ \A k \in n..N : NumberedSeasons(acc.view, s, list[k]) = {}
        /\ acc.full \/ \A k \in 1..(n - 1) : NumberedSeasons(acc.view, s, list[k]) # {}
        /\ acc.view["series"] = v["series"]
    BY <1>8, <2>0
  <2>2. Grown(kind, v, acc)
    BY <1>4, <2>0
  <2>3. row["series"] = s /\ row["number"] = list[n] /\ list[n] # Null
    BY <1>1, RowsAre
  <2>4. b = Added(acc, "seasons", values, room)
    BY <1>3
  <2>5. s \in Existing(acc.view, "series")
    BY <2>2, ExtendsExisting, TablesAre DEF Grown
  <2>6. IsAcc(acc) /\ IsView(acc.view) /\ "seasons" \in Tables /\ "series" \in Tables
    BY <2>2, TablesAre DEF Grown, Extends
  <2> HIDE DEF acc, values, b
  <2>7. \/ b.full = TRUE /\ b.view = acc.view
        \/ b.full = acc.full /\ Inserted(acc.view, b.view, "seasons", b.new, row)
    <3>1. IsRoom(room)
      OBVIOUS
    <3> DEFINE d == Added(acc, "seasons", values, room)
    <3>2. /\ DOMAIN d = DOMAIN acc
          /\ \A f \in DOMAIN acc \ {"view", "full", "new"} : d[f] = acc[f]
          /\ \/ d.full = TRUE /\ d.view = acc.view /\ d.new = acc.new
             \/ /\ d.full = acc.full
                /\ d.new \in room["seasons"]
                /\ Inserted(acc.view, d.view, "seasons", d.new, Row("seasons", values))
      BY <2>6, <3>1, AddedIs
    <3> HIDE DEF d
    <3> QED BY <2>4, <3>2 DEF d
  <2>8. CASE b.full = TRUE /\ b.view = acc.view
    <3>1. Turn(n)
      BY <2>0, <2>1, <2>8 DEF b
    <3> QED BY <3>1
  <2>9. CASE b.full = acc.full /\ Inserted(acc.view, b.view, "seasons", b.new, row)
    <3>1. Fits(acc.view, "seasons", row)
      BY <2>3, <2>5, TablesAre DEF Fits
    <3> HIDE DEF row
    <3>2. NumberedSeasons(acc.view, row["series"], row["number"]) = {}
      BY <2>0, <2>1, <2>3
    <3>3. AloneIn(v, b.view)
      BY <2>1, <2>9, <3>1, <3>2, AloneGrows
    <3>4. SameEpisodes(acc.view, b.view)
      BY <2>6, <2>9, <3>1, InsertedIs
    <3>5. SameEpisodes(v, b.view)
      BY <2>1, <3>4, SameAgain
    <3>6. \A p, m : NumberedSeasons(b.view, p, m) = NumberedSeasons(acc.view, p, m) \cup
              (IF row["series"] = p /\ row["number"] = m THEN {b.new} ELSE {})
      BY <2>9, <3>1, InsertedNumbered
    <3>7. \A k \in (n + 1)..N : NumberedSeasons(b.view, s, list[k]) = {}
      BY <1>6, <2>0, <2>1, <2>3, <3>6
    <3>8. b.full \/ \A k \in 1..n : NumberedSeasons(b.view, s, list[k]) # {}
      BY <2>0, <2>1, <2>3, <2>9, <3>6
    <3>9. b.view["series"] = acc.view["series"]
      <4>1. /\ b.view["series"] = [j \in Slots["series"] |-> b.view["series"][j]]
            /\ acc.view["series"] = [j \in Slots["series"] |-> acc.view["series"][j]]
        BY <2>6, <2>9 DEF Inserted, IsView
      <4>2. \A j \in Slots["series"] : b.view["series"][j] = acc.view["series"][j]
        BY <2>6, <2>9 DEF Inserted
      <4> QED BY <4>1, <4>2
    <3>10. Turn(n)
      BY <2>1, <3>3, <3>5, <3>7, <3>8, <3>9 DEF b
    <3> QED BY <3>10
  <2> QED BY <2>7, <2>8, <2>9
<1> HIDE DEF S
<1>9. \A n \in 0..N : n \in S
  BY <1>1, <1>7, <1>8, EveryTurn
<1>10. Turn(N)
  BY <1>1, <1>9 DEF S
<1>11. ~t[N].full => \A n \in numbers : NumberedSeasons(t[N].view, s, n) # {}
  <2>1. Extends(kind, v, t[N].view)
    BY <1>1, <1>4 DEF Grown
  <2>2. \A n : NumberedSeasons(v, s, n) \subseteq NumberedSeasons(t[N].view, s, n)
    BY <2>1, ExtendsNumbered
  <2> QED BY <1>10, <1>13, <1>14, <2>2
<1> QED BY <1>2, <1>10, <1>11

-----------------------------------------------------------------------------
\* What one turn of the loop of Sonarr's import does.
Sonarred(a, b, ep, seasons, room) ==
  /\ SameSeasons(a.view, b.view)
  /\ \/ ep.season \notin DOMAIN seasons /\ b = a
     \/ /\ ep.season \in DOMAIN seasons
        /\ With(a.view, "episodes", "sonarr", ep.id) = {}
        /\ b.full = TRUE /\ b.view = a.view
     \/ /\ ep.season \in DOMAIN seasons
        /\ With(a.view, "episodes", "sonarr", ep.id) = {}
        /\ b.full = a.full /\ b.new \in room["episodes"]
        /\ Inserted(a.view, b.view, "episodes", b.new,
             Row("episodes", [season |-> seasons[ep.season], number |-> ep.number, sonarr |-> ep.id]))
     \/ /\ ep.season \in DOMAIN seasons /\ b.full = a.full
        /\ \E i \in With(a.view, "episodes", "sonarr", ep.id) :
             \A t \in Tables : \A j \in Slots[t] : \A c \in Columns[t] :
               b.view[t][j][c] =
                 IF t = "episodes" /\ j = i /\ c = "season" THEN seasons[ep.season]
                 ELSE IF t = "episodes" /\ j = i /\ c = "number" THEN ep.number
                 ELSE a.view[t][j][c]
        /\ \A y \in Tables : Existing(b.view, y) = Existing(a.view, y)

\* What a turn of Sonarr's loop does, cell by cell.
LEMMA SonarrEpisodeIs ==
  ASSUME NEW v, NEW acc, Grown("sonarr", v, acc), NEW ep, ep.number # Null,
         NEW seasons, IsSeasons(acc.view, seasons), NEW room, IsRoom(room)
  PROVE  Sonarred(acc, SonarrEpisode(acc, ep, seasons, room), ep, seasons, room)
<1> DEFINE known == With(acc.view, "episodes", "sonarr", ep.id)
           p == seasons[ep.season]
           values == [season |-> seasons[ep.season], number |-> ep.number, sonarr |-> ep.id]
           i == Min(known)
           u == Put(acc.view, "episodes", i, "season", p)
           w == Put(u, "episodes", i, "number", ep.number)
           b == SonarrEpisode(acc, ep, seasons, room)
<1>0. /\ "episodes" \in Tables /\ "seasons" \in Tables
      /\ {"season", "number", "sonarr"} \subseteq Columns["episodes"]
  BY TablesAre
<1>9. IsView(acc.view) /\ Sound(acc.view) /\ Extends("sonarr", v, acc.view) /\ {"view", "full", "new"} \subseteq DOMAIN acc
  BY DEF Grown, Extends, IsAcc
<1>1. CASE ep.season \notin DOMAIN seasons
  BY <1>1, SameAgain DEF SonarrEpisode, Sonarred
<1>2. CASE ep.season \in DOMAIN seasons /\ known = {}
  <2> DEFINE d == Added(acc, "episodes", values, room)
  <2>1. b = d
    BY <1>2 DEF SonarrEpisode
  <2>2. p \in Existing(acc.view, "seasons")
    BY <1>2 DEF IsSeasons
  <2>3. Row("episodes", values)["season"] = p /\ Row("episodes", values)["number"] # Null
    BY RowsAre
  <2> HIDE DEF values, p
  <2>4. /\ Grown("sonarr", v, d)
        /\ DOMAIN d = DOMAIN acc
        /\ \A f \in DOMAIN acc \ {"view", "full", "new"} : d[f] = acc[f]
        /\ \/ d.full = TRUE /\ d.view = acc.view /\ d.new = acc.new
           \/ /\ d.full = acc.full
              /\ d.new \in room["episodes"] /\ d.new \in Existing(d.view, "episodes")
              /\ Inserted(acc.view, d.view, "episodes", d.new, Row("episodes", values))
    BY <2>2, <2>3, EpisodeAdded
  <2> HIDE DEF d, b
  <2>5. Fits(acc.view, "episodes", Row("episodes", values))
    BY <1>0, <2>2, <2>3 DEF Fits
  <2>6. SameSeasons(acc.view, d.view)
    BY <1>0, <2>4, <2>5, InsertedIs, SameAgain
  <2>7. Sonarred(acc, b, ep, seasons, room)
    BY <1>2, <2>1, <2>4, <2>6 DEF Sonarred, values, p
  <2> QED BY <2>7 DEF b
<1>3. CASE ep.season \in DOMAIN seasons /\ known # {}
  <2>1. b = [acc EXCEPT !.view = w]
    BY <1>3 DEF SonarrEpisode
  <2>2. p \in Existing(acc.view, "seasons")
    BY <1>3 DEF IsSeasons
  <2>3. i \in known /\ known \subseteq Existing(acc.view, "episodes")
    <3>1. known \subseteq Existing(acc.view, "episodes") /\ known \subseteq Slots["episodes"]
      BY <1>0, WithIs
    <3> HIDE DEF known
    <3> QED BY <3>1, <1>0, <1>3, FirstIs
  <2>4. i \in Existing(acc.view, "episodes") /\ p # Null /\ i \in Slots["episodes"]
    BY <2>2, <2>3, <1>0, SlotsAre DEF Existing
  <2> HIDE DEF i, p
  <2>5. Follows("sonarr", "episodes", "season") /\ Follows("sonarr", "episodes", "number")
    BY DEF Follows
  <2>6. Extends("sonarr", v, u) /\ \A y \in Tables : Existing(u, y) = Existing(acc.view, y)
    BY <1>0, <1>9, <2>2, <2>4, <2>5, PutGrows
  <2>7. SameSeasons(acc.view, u)
    BY <1>0, <1>9, <2>4, <2>6, PutSame
  <2>8. \A t \in Tables : \A j \in Slots[t] : \A c \in Columns[t] :
          u[t][j][c] = IF t = "episodes" /\ j = i /\ c = "season" THEN p ELSE acc.view[t][j][c]
    BY <1>0, <1>9, <2>4, PutIs
  <2> HIDE DEF u
  <2>9. i \in Existing(u, "episodes") /\ IsView(u)
    BY <2>4, <2>6, <1>0 DEF Extends
  <2>10. \A y \in Tables : Existing(w, y) = Existing(u, y)
    BY <1>0, <2>5, <2>6, <2>9, PutGrows
  <2>11. SameSeasons(u, w)
    BY <1>0, <2>9, <2>10, PutSame
  <2>12. \A t \in Tables : \A j \in Slots[t] : \A c \in Columns[t] :
          w[t][j][c] = IF t = "episodes" /\ j = i /\ c = "number" THEN ep.number ELSE u[t][j][c]
    BY <1>0, <2>4, <2>9, PutIs
  <2> HIDE DEF w, b
  <2>13. b.view = w /\ b.full = acc.full
    BY <1>9, <2>1
  <2>14. SameSeasons(acc.view, b.view) /\ \A y \in Tables : Existing(b.view, y) = Existing(acc.view, y)
    BY <2>6, <2>7, <2>10, <2>11, <2>13, SameAgain
  <2>15. \A t \in Tables : \A j \in Slots[t] : \A c \in Columns[t] :
           b.view[t][j][c] =
             IF t = "episodes" /\ j = i /\ c = "season" THEN seasons[ep.season]
             ELSE IF t = "episodes" /\ j = i /\ c = "number" THEN ep.number
             ELSE acc.view[t][j][c]
    BY <2>8, <2>12, <2>13 DEF p
  <2>16. Sonarred(acc, b, ep, seasons, room)
    BY <1>3, <2>3, <2>13, <2>14, <2>15 DEF Sonarred
  <2> QED BY <2>16 DEF b
<1> QED BY <1>1, <1>2, <1>3

\* Sonarr's loop over episodes leaves the seasons where they are.
LEMMA SonarrSameSeasons ==
  ASSUME NEW v, IsView(v), Sound(v), NEW seasons, IsSeasons(v, seasons), NEW episodes, NEW room,
         IsRoom(room), Len(episodes) \in Nat, \A n \in 1..Len(episodes) : episodes[n].number # Null
  PROVE  SameSeasons(v, AfterSonarr(v, seasons, episodes, room).view)
<1> DEFINE N == Len(episodes)
           t == SonarrTurns(v, seasons, episodes, room)
           S == {n \in 0..N : SameSeasons(v, t[n].view)}
<1>0. N \in Nat /\ \A n \in 1..N : episodes[n].number # Null
  OBVIOUS
<1>1. /\ t[0] = Bare(v)
      /\ \A n \in 1..N : t[n] = SonarrEpisode(t[n - 1], episodes[n], seasons, room)
  BY SonarrTurnsAre
<1>2. \A n \in 0..N : Grown("sonarr", v, t[n])
  BY EverySonarrTurn
<1>3. AfterSonarr(v, seasons, episodes, room) = t[N]
  BY DEF AfterSonarr
<1> HIDE DEF t, N
<1>4. 0 \in S
  BY <1>0, <1>1, SameAgain DEF Bare
<1>5. ASSUME NEW n \in 1..N, n - 1 \in S
      PROVE  n \in S
  <2> DEFINE acc == t[n - 1]  ep == episodes[n]  b == t[n]
  <2>1. n - 1 \in 0..N /\ ep.number # Null /\ SameSeasons(v, acc.view)
    BY <1>0, <1>5
  <2>2. Grown("sonarr", v, acc)
    BY <1>2, <2>1
  <2>3. b = SonarrEpisode(acc, ep, seasons, room)
    BY <1>1
  <2> HIDE DEF acc, ep, b
  <2>4. IsSeasons(acc.view, seasons)
    BY <2>2, SeasonsStay DEF Grown
  <2>5. Sonarred(acc, b, ep, seasons, room)
    BY <2>1, <2>2, <2>3, <2>4, SonarrEpisodeIs
  <2>6. SameSeasons(v, b.view)
    BY <2>1, <2>5, SameAgain DEF Sonarred
  <2> QED BY <1>0, <2>6 DEF b
<1> HIDE DEF S
<1>6. \A n \in 0..N : n \in S
  BY <1>0, <1>4, <1>5, EveryTurn
<1>7. N \in S
  BY <1>0, <1>6
<1> QED BY <1>3, <1>7 DEF S

-----------------------------------------------------------------------------
(* The loop of Jellyfin's import creates only what is missing.              *)

\* What the three dictionaries have when the loop begins.
Indexing(v, a, s, late) ==
  /\ a.seasons = SeasonsByNumber(v, s, late)
  /\ \A j \in Existing(v, "episodes") : \A n \in DOMAIN a.seasons :
       v["episodes"][j]["season"] = a.seasons[n] =>
         /\ <<v["episodes"][j]["season"], v["episodes"][j]["number"]>> \in DOMAIN a.byNumber
         /\ v["episodes"][j]["jellyfin"] # Null => v["episodes"][j]["jellyfin"] \in DOMAIN a.byId
  /\ \A p \in DOMAIN a.byNumber :
       /\ a.byNumber[p] \in Existing(v, "episodes")
       /\ p = <<v["episodes"][a.byNumber[p]]["season"], v["episodes"][a.byNumber[p]]["number"]>>
       /\ \E n \in DOMAIN a.seasons : p[1] = a.seasons[n]
  /\ \A x \in DOMAIN a.byId :
       /\ x # Null /\ a.byId[x] \in Existing(v, "episodes")
       /\ v["episodes"][a.byId[x]]["jellyfin"] = x
       /\ \E n \in DOMAIN a.seasons : v["episodes"][a.byId[x]]["season"] = a.seasons[n]

\* The three dictionaries know the rows of the seasons that the first one keeps.
LEMMA JellyfinIndexing ==
  ASSUME NEW v, NEW s, NEW late
  PROVE  Indexing(v, JellyfinIndexes(v, s, late), s, late)
<1> DEFINE seasons == SeasonsByNumber(v, s, late)
           kept == {seasons[n] : n \in DOMAIN seasons}
           loaded == {i \in Existing(v, "episodes") : v.episodes[i].season \in kept}
           tagged == {i \in loaded : v.episodes[i].jellyfin # Null}
           place(i) == <<v.episodes[i].season, v.episodes[i].number>>
           byId == [x \in {v.episodes[i].jellyfin : i \in tagged} |->
                      Min({i \in tagged : v.episodes[i].jellyfin = x})]
           byNumber == [p \in {place(i) : i \in loaded} |-> LastOf({i \in loaded : place(i) = p}, late)]
           acc == JellyfinIndexes(v, s, late)
<1>1. acc = [view |-> v, full |-> FALSE, new |-> 0, seasons |-> seasons, byId |-> byId, byNumber |-> byNumber]
  BY DEF JellyfinIndexes
<1>2. loaded \subseteq Existing(v, "episodes") /\ loaded \subseteq Slots["episodes"] /\ "episodes" \in Tables
  BY TablesAre DEF Existing
<1>3. /\ \A i \in loaded : \E n \in DOMAIN seasons : v["episodes"][i]["season"] = seasons[n]
      /\ \A i \in Existing(v, "episodes") : \A n \in DOMAIN seasons : v["episodes"][i]["season"] = seasons[n] => i \in loaded
  OBVIOUS
<1> HIDE DEF seasons, loaded
<1>4. \A x \in DOMAIN byId :
        /\ x # Null /\ byId[x] \in loaded
        /\ v["episodes"][byId[x]]["jellyfin"] = x
  <2>1. ASSUME NEW x \in DOMAIN byId
        PROVE  /\ x # Null /\ byId[x] \in loaded
               /\ v["episodes"][byId[x]]["jellyfin"] = x
    <3> DEFINE S == {i \in tagged : v.episodes[i].jellyfin = x}
    <3>1. S # {} /\ S \subseteq loaded /\ byId[x] = Min(S) /\ \A i \in S : v["episodes"][i]["jellyfin"] = x /\ x # Null
      OBVIOUS
    <3> HIDE DEF S, byId, tagged
    <3>2. Min(S) \in S
      BY <3>1, <1>2, FirstIs
    <3> QED BY <3>1, <3>2
  <2> QED BY <2>1
<1>5. \A p \in DOMAIN byNumber : byNumber[p] \in loaded /\ place(byNumber[p]) = p
  <2>1. ASSUME NEW p \in DOMAIN byNumber PROVE byNumber[p] \in loaded /\ place(byNumber[p]) = p
    <3> DEFINE S == {i \in loaded : place(i) = p}
    <3>1. S # {} /\ S \subseteq loaded /\ byNumber[p] = LastOf(S, late) /\ \A i \in S : place(i) = p
      OBVIOUS
    <3> HIDE DEF S, byNumber, place
    <3>2. S \subseteq Slots["episodes"]
      BY <3>1, <1>2
    <3>3. LastOf(S, late) \in S
      BY <3>1, <3>2, <1>2, LastIs
    <3> QED BY <3>1, <3>3
  <2> QED BY <2>1
<1>6. \A i \in loaded : /\ <<v["episodes"][i]["season"], v["episodes"][i]["number"]>> \in DOMAIN byNumber
                        /\ v["episodes"][i]["jellyfin"] # Null => v["episodes"][i]["jellyfin"] \in DOMAIN byId
  OBVIOUS
<1> HIDE DEF byId, byNumber, acc
<1>7. acc.view = v /\ acc.seasons = seasons /\ acc.byId = byId /\ acc.byNumber = byNumber
  BY <1>1
<1>8. \A p \in DOMAIN acc.byNumber :
       /\ acc.byNumber[p] \in Existing(v, "episodes")
       /\ p = <<v["episodes"][acc.byNumber[p]]["season"], v["episodes"][acc.byNumber[p]]["number"]>>
       /\ \E n \in DOMAIN acc.seasons : p[1] = acc.seasons[n]
  BY <1>2, <1>3, <1>5, <1>7
<1>9. \A j \in Existing(v, "episodes") : \A n \in DOMAIN acc.seasons :
       v["episodes"][j]["season"] = acc.seasons[n] =>
         /\ <<v["episodes"][j]["season"], v["episodes"][j]["number"]>> \in DOMAIN acc.byNumber
         /\ v["episodes"][j]["jellyfin"] # Null => v["episodes"][j]["jellyfin"] \in DOMAIN acc.byId
  BY <1>3, <1>6, <1>7
<1>10. \A x \in DOMAIN acc.byId :
       /\ x # Null /\ acc.byId[x] \in Existing(v, "episodes")
       /\ v["episodes"][acc.byId[x]]["jellyfin"] = x
       /\ \E n \in DOMAIN acc.seasons : v["episodes"][acc.byId[x]]["season"] = acc.seasons[n]
  BY <1>2, <1>3, <1>4, <1>7
<1>11. acc.seasons = SeasonsByNumber(v, s, late)
  BY <1>7 DEF seasons
<1> QED BY <1>8, <1>9, <1>10, <1>11 DEF Indexing, acc

\* b is what the turn of ep makes of a, by way of m.
JellyfinTurn(v, s, a, m, b, ep, room) ==
  /\ ~a.full /\ ~m.full
  /\ Grown("jellyfin", v, a) /\ Indexed3(a)
  /\ Grown("jellyfin", v, m) /\ Indexed3(m)
  /\ Grown("jellyfin", v, b) /\ Indexed3(b)
  /\ s \in Existing(a.view, "series")
  /\ ep.season \in DOMAIN m.seasons
  /\ ep.season # Null /\ ep.number # Null /\ ep.id # Null
  /\ Seasoned(a, m, s, ep, room)
  /\ Episoded(m, b, ep, room)

\* Every turn of Jellyfin's loop that finds room is a JellyfinTurn.
LEMMA JellyfinTurnIs ==
  ASSUME NEW v, IsView(v), Sound(v), NEW s \in Existing(v, "series"), NEW episodes, NEW late, NEW room,
         IsRoom(room), Len(episodes) \in Nat,
         \A n \in 1..Len(episodes) : episodes[n].number # Null /\ episodes[n].season # Null /\ episodes[n].id # Null,
         NEW n \in 1..Len(episodes), ~JellyfinTurns(v, s, episodes, late, room)[n].full
  PROVE  LET t == JellyfinTurns(v, s, episodes, late, room) IN
         JellyfinTurn(v, s, t[n - 1], JellyfinSeason(t[n - 1], s, episodes[n], room), t[n], episodes[n], room)
<1> DEFINE N == Len(episodes)
           t == JellyfinTurns(v, s, episodes, late, room)
           ep == episodes[n]
           a == t[n - 1]
           m == JellyfinSeason(a, s, ep, room)
           b == t[n]
<1>1. b = JellyfinEpisode(a, s, ep, room)
  BY JellyfinTurnsAre
<1>2. \A k \in 0..N : Grown("jellyfin", v, t[k]) /\ (~t[k].full => Indexed3(t[k]))
  BY EveryJellyfinTurn
<1>3. n - 1 \in 0..N /\ n \in 0..N /\ ep.season # Null /\ ep.number # Null /\ ep.id # Null /\ ~b.full
  OBVIOUS
<1> HIDE DEF t, N
<1>4. /\ Grown("jellyfin", v, a) /\ (~a.full => Indexed3(a))
      /\ Grown("jellyfin", v, b) /\ Indexed3(b)
  BY <1>2, <1>3
<1> HIDE DEF a, b, ep
<1>5. s \in Existing(a.view, "series")
  BY <1>4, ExtendsExisting, TablesAre DEF Grown
<1>6. a.full => b = a
  BY <1>1 DEF JellyfinEpisode, JellyfinSeason
<1>7. ~a.full /\ Indexed3(a)
  BY <1>3, <1>4, <1>6
<1>8. ~JellyfinEpisode(a, s, ep, room).full
  BY <1>1, <1>3
<1>9. /\ ~m.full
      /\ Grown("jellyfin", v, m) /\ Indexed3(m) /\ ep.season \in DOMAIN m.seasons
      /\ Seasoned(a, m, s, ep, room)
      /\ Episoded(m, JellyfinEpisode(a, s, ep, room), ep, room)
  BY <1>3, <1>4, <1>5, <1>7, <1>8, JellyfinEpisodeIs
<1> HIDE DEF m
<1>10. JellyfinTurn(v, s, a, m, b, ep, room)
  BY <1>1, <1>3, <1>4, <1>5, <1>7, <1>9 DEF JellyfinTurn
<1> QED BY <1>10 DEF m, a, b, ep, t

\* The seasons of s are those of the dictionary.
Keyed(acc, s) == \A n : NumberedSeasons(acc.view, s, n) # {} => n \in DOMAIN acc.seasons

\* A dictionary with one more entry.
LEMMA AlsoDomain ==
  ASSUME NEW f, NEW x, NEW y
  PROVE  /\ DOMAIN Also(f, x, y) = DOMAIN f \cup {x}
         /\ \A z \in DOMAIN f \cup {x} : Also(f, x, y)[z] = IF z = x THEN y ELSE f[z]
BY DEF Also

\* A season is created only when the dictionary has none, and then there is none.
LEMMA SeasonedAlone ==
  ASSUME NEW v, NEW s, NEW a, NEW m, NEW b, NEW ep, NEW room, JellyfinTurn(v, s, a, m, b, ep, room),
         AloneIn(v, a.view), Keyed(a, s)
  PROVE  /\ AloneIn(v, b.view) /\ Keyed(b, s)
         /\ SameSeasons(m.view, b.view) /\ SameEpisodes(a.view, m.view)
         /\ \A t \in Tables : Existing(a.view, t) \subseteq Existing(m.view, t)
<1> DEFINE row == Row("seasons", [series |-> s, number |-> ep.season, jellyfin |-> ep.of])
<1>1. row["series"] = s /\ row["number"] = ep.season
  BY RowsAre
<1> HIDE DEF row
<1>2. Seasoned(a, m, s, ep, room) /\ s \in Existing(a.view, "series") /\ ep.season # Null /\ ep.number # Null
  BY DEF JellyfinTurn
<1>3. /\ AloneIn(v, m.view) /\ Keyed(m, s)
      /\ SameEpisodes(a.view, m.view)
      /\ \A t \in Tables : Existing(a.view, t) \subseteq Existing(m.view, t)
  <2>1. CASE ep.season \in DOMAIN a.seasons
    <3>1. m.seasons = a.seasons /\ SameSeasons(a.view, m.view) /\ SameEpisodes(a.view, m.view)
      BY <1>2, <2>1 DEF Seasoned
    <3>2. AloneIn(v, m.view)
      BY <3>1, AloneStays
    <3>3. Keyed(m, s)
      BY <3>1, SameNumbered DEF Keyed
    <3>4. \A t \in Tables : Existing(a.view, t) \subseteq Existing(m.view, t)
      <4>1. \A t \in Tables : \A j \in Slots[t] : \A c \in Columns[t] :
              a.view[t][j][c] # Null => m.view[t][j][c] # Null
        BY <1>2, <2>1 DEF Seasoned
      <4> QED BY <4>1, CoversExisting DEF Covers
    <3> QED BY <3>1, <3>2, <3>3, <3>4
  <2>2. CASE ep.season \notin DOMAIN a.seasons
    <3>1. /\ m.seasons = Also(a.seasons, ep.season, m.new)
          /\ Inserted(a.view, m.view, "seasons", m.new, row)
      BY <1>2, <2>2 DEF Seasoned, row
    <3>2. Fits(a.view, "seasons", row)
      BY <1>1, <1>2, TablesAre DEF Fits
    <3>3. NumberedSeasons(a.view, row["series"], row["number"]) = {}
      BY <1>1, <2>2 DEF Keyed
    <3>4. AloneIn(v, m.view)
      BY <3>1, <3>2, <3>3, AloneGrows
    <3>5. Keyed(m, s)
      <4>1. \A n : NumberedSeasons(m.view, s, n) = NumberedSeasons(a.view, s, n) \cup
              (IF row["series"] = s /\ row["number"] = n THEN {m.new} ELSE {})
        <5> DEFINE u == a.view  w == m.view  i == m.new
        <5>1. Inserted(u, w, "seasons", i, row) /\ Fits(u, "seasons", row)
          BY <3>1, <3>2
        <5> HIDE DEF u, w, i
        <5>2. \A p, n : NumberedSeasons(w, p, n) = NumberedSeasons(u, p, n) \cup
              (IF row["series"] = p /\ row["number"] = n THEN {i} ELSE {})
          BY <5>1, InsertedNumbered
        <5> QED BY <5>2 DEF u, w, i
      <4>2. \A n : NumberedSeasons(m.view, s, n) # {} => n \in DOMAIN a.seasons \/ n = ep.season
        BY <1>1, <4>1 DEF Keyed
      <4>3. DOMAIN m.seasons = DOMAIN a.seasons \cup {ep.season}
        <5> DEFINE f == a.seasons  x == ep.season  y == m.new
        <5>1. m.seasons = Also(f, x, y)
          BY <3>1
        <5> HIDE DEF f, x, y
        <5>2. DOMAIN Also(f, x, y) = DOMAIN f \cup {x}
          BY AlsoDomain
        <5> QED BY <5>1, <5>2 DEF f, x
      <4> QED BY <4>2, <4>3 DEF Keyed
    <3>6. OneMore(a.view, m.view, "seasons", m.new) /\ SameEpisodes(a.view, m.view)
      BY <3>1, <3>2, InsertedIs, TablesAre
    <3> QED BY <3>4, <3>5, <3>6 DEF OneMore
  <2> QED BY <2>1, <2>2
<1>4. SameSeasons(m.view, b.view) /\ b.seasons = m.seasons
  <2>1. Episoded(m, b, ep, room) /\ Indexed3(m) /\ ep.season \in DOMAIN m.seasons
    BY DEF JellyfinTurn
  <2>2. b.seasons = m.seasons
    BY <2>1 DEF Episoded
  <2>3. CASE SameSeasons(m.view, b.view)
    BY <2>2, <2>3
  <2>4. CASE ~SameSeasons(m.view, b.view)
    <3> DEFINE r == Row("episodes", [season |-> m.seasons[ep.season], number |-> ep.number, jellyfin |-> ep.id])
    <3>1. Inserted(m.view, b.view, "episodes", b.new, r)
      BY <2>1, <2>4 DEF Episoded
    <3>2. r["season"] = m.seasons[ep.season] /\ r["number"] = ep.number
      BY RowsAre
    <3>3. m.seasons[ep.season] \in Existing(m.view, "seasons")
      BY <2>1 DEF Indexed3, IsSeasons
    <3> HIDE DEF r
    <3>4. Fits(m.view, "episodes", r)
      BY <1>2, <3>2, <3>3, TablesAre DEF Fits
    <3>5. SameSeasons(m.view, b.view)
      BY <3>1, <3>4, InsertedIs, TablesAre
    <3> QED BY <2>4, <3>5
  <2> QED BY <2>3, <2>4
<1>5. AloneIn(v, b.view)
  BY <1>3, <1>4, AloneStays
<1>6. Keyed(b, s)
  BY <1>3, <1>4, SameNumbered DEF Keyed
<1> QED BY <1>3, <1>4, <1>5, <1>6

LEMMA EveryJellyfinAlone ==
  ASSUME NEW v, IsView(v), Sound(v), NEW s \in Existing(v, "series"), NEW episodes, NEW late, NEW room,
         IsRoom(room), Len(episodes) \in Nat,
         \A n \in 1..Len(episodes) : episodes[n].number # Null /\ episodes[n].season # Null /\ episodes[n].id # Null
  PROVE  \A n \in 0..Len(episodes) : LET acc == JellyfinTurns(v, s, episodes, late, room)[n] IN
           acc.full \/ (AloneIn(v, acc.view) /\ Keyed(acc, s))
<1> DEFINE N == Len(episodes)
           t == JellyfinTurns(v, s, episodes, late, room)
           S == {n \in 0..N : t[n].full \/ (AloneIn(v, t[n].view) /\ Keyed(t[n], s))}
<1>0. N \in Nat
  OBVIOUS
<1>1. t[0] = JellyfinIndexes(v, s, late)
  BY JellyfinTurnsAre
<1>2. \A n \in 1..N : ~t[n].full =>
        JellyfinTurn(v, s, t[n - 1], JellyfinSeason(t[n - 1], s, episodes[n], room), t[n], episodes[n], room)
  BY JellyfinTurnIs
<1> HIDE DEF t, N
<1>3. 0 \in S
  <2> DEFINE a == JellyfinIndexes(v, s, late)
  <2>1. a.view = v
    BY JellyfinIndexesAre
  <2>2. a.seasons = SeasonsByNumber(v, s, late)
    BY JellyfinIndexing DEF Indexing
  <2> HIDE DEF a
  <2>3. Keyed(a, s)
    <3>1. DOMAIN a.seasons = {v["seasons"][i]["number"] : i \in SeasonsOf(v, s)}
      BY ONLY <2>2, SeasonsByNumberAre
    <3>2. \A n : NumberedSeasons(v, s, n) # {} => n \in DOMAIN a.seasons
      BY ONLY <3>1 DEF NumberedSeasons, Numbered, SeasonsOf
    <3> QED BY ONLY <2>1, <3>2 DEF Keyed
  <2>4. AloneIn(v, a.view)
    BY <2>1, AloneItself
  <2> QED BY <1>0, <1>1, <2>3, <2>4 DEF a
<1>4. ASSUME NEW n \in 1..N, n - 1 \in S
      PROVE  n \in S
  <2> DEFINE a == t[n - 1]  b == t[n]  ep == episodes[n]  m == JellyfinSeason(a, s, ep, room)
  <2>1. a.full \/ (AloneIn(v, a.view) /\ Keyed(a, s))
    BY <1>4
  <2>2. ~b.full => JellyfinTurn(v, s, a, m, b, ep, room)
    BY <1>2
  <2> HIDE DEF a, b, m, ep
  <2>3. ~b.full => ~a.full
    BY <2>2 DEF JellyfinTurn
  <2>4. ~b.full => AloneIn(v, b.view) /\ Keyed(b, s)
    BY <2>1, <2>2, <2>3, SeasonedAlone
  <2> QED BY <1>0, <2>4 DEF b
<1> HIDE DEF S
<1>5. \A n \in 0..N : n \in S
  BY <1>0, <1>3, <1>4, EveryTurn
<1> QED BY <1>5 DEF S, t, N

\* acc, after the turns of the episodes with these ids, has of v what ix had, and
\* knows where the episodes stand that it has created.
Missing(v, ix, acc, ids) ==
  /\ MissedIn(v, acc.view)
  /\ \A n \in DOMAIN acc.seasons : acc.seasons[n] \in Existing(v, "seasons") =>
       \E k \in DOMAIN ix.seasons : acc.seasons[n] = ix.seasons[k]
  /\ DOMAIN ix.byNumber \subseteq DOMAIN acc.byNumber
  /\ \A x \in DOMAIN acc.byId : acc.byId[x] \in Existing(v, "episodes") \/ x \in ids
  /\ \A p \in DOMAIN acc.byNumber :
       \/ acc.byNumber[p] \in Existing(v, "episodes")
       \/ p = <<acc.view["episodes"][acc.byNumber[p]]["season"],
                acc.view["episodes"][acc.byNumber[p]]["number"]>>

\* An episode is created only when both dictionaries miss it, and then it is missing.
LEMMA SeasonedMissing ==
  ASSUME NEW v, NEW s, NEW ix, NEW a, NEW m, NEW ep, NEW room, NEW ids,
         Extends("jellyfin", v, a.view), Indexed3(a), Seasoned(a, m, s, ep, room),
         SameEpisodes(a.view, m.view), Missing(v, ix, a, ids)
  PROVE  Missing(v, ix, m, ids)
<1>1. MissedIn(v, m.view)
  BY MissedStays DEF Missing
<1>2. m.byId = a.byId /\ m.byNumber = a.byNumber
  BY DEF Seasoned
<1>3. ASSUME NEW p \in DOMAIN m.byNumber
      PROVE  \/ m.byNumber[p] \in Existing(v, "episodes")
             \/ p = <<m.view["episodes"][m.byNumber[p]]["season"], m.view["episodes"][m.byNumber[p]]["number"]>>
  <2> DEFINE i == a.byNumber[p]
  <2>1. p \in DOMAIN a.byNumber /\ m.byNumber[p] = i
    BY <1>2
  <2>2. \/ i \in Existing(v, "episodes")
        \/ p = <<a.view["episodes"][i]["season"], a.view["episodes"][i]["number"]>>
    BY <2>1 DEF Missing
  <2>3. i \in Existing(a.view, "episodes")
    BY <2>1 DEF Indexed3
  <2> HIDE DEF i
  <2>4. m.view["episodes"][i]["season"] = a.view["episodes"][i]["season"] /\ m.view["episodes"][i]["number"] = a.view["episodes"][i]["number"]
    BY <2>3 DEF SameEpisodes
  <2> QED BY <2>1, <2>2, <2>4
<1>4. \A n \in DOMAIN m.seasons : m.seasons[n] \in Existing(v, "seasons") =>
        \E k \in DOMAIN ix.seasons : m.seasons[n] = ix.seasons[k]
  <2>1. CASE m.seasons = a.seasons
    BY <2>1 DEF Missing
  <2>2. CASE m.seasons # a.seasons
    <3> DEFINE f == a.seasons  x == ep.season  y == m.new
    <3>1. m.seasons = Also(f, x, y) /\ y \notin Existing(a.view, "seasons")
      BY <2>2 DEF Seasoned, Inserted
    <3>2. y \notin Existing(v, "seasons")
      BY <3>1, ExtendsExisting, TablesAre
    <3>3. \A n \in DOMAIN f : f[n] \in Existing(v, "seasons") => \E k \in DOMAIN ix.seasons : f[n] = ix.seasons[k]
      BY DEF Missing
    <3> HIDE DEF f, x, y
    <3>4. /\ DOMAIN Also(f, x, y) = DOMAIN f \cup {x}
          /\ \A z \in DOMAIN f \cup {x} : Also(f, x, y)[z] = IF z = x THEN y ELSE f[z]
      BY DEF Also
    <3> QED BY <3>1, <3>2, <3>3, <3>4
  <2> QED BY <2>1, <2>2
<1>5. /\ DOMAIN ix.byNumber \subseteq DOMAIN m.byNumber
      /\ \A x \in DOMAIN m.byId : m.byId[x] \in Existing(v, "episodes") \/ x \in ids
  BY <1>2 DEF Missing
<1> QED BY <1>1, <1>3, <1>4, <1>5 DEF Missing

LEMMA EpisodedMissing ==
  ASSUME NEW v, Sound(v), NEW s, NEW late, NEW ix, Indexing(v, ix, s, late), NEW m, NEW b, NEW ep, NEW room, NEW ids,
         Extends("jellyfin", v, m.view), Indexed3(m), ep.season \in DOMAIN m.seasons, ep.number # Null,
         Episoded(m, b, ep, room), Missing(v, ix, m, ids), ep.id \notin ids
  PROVE  Missing(v, ix, b, ids \cup {ep.id})
<1> DEFINE p == m.seasons[ep.season]
           place == <<p, ep.number>>
           V == Existing(v, "episodes")
<1>0. /\ "episodes" \in Tables /\ {"season", "number"} \subseteq Columns["episodes"]
      /\ b.seasons = m.seasons /\ p \in Existing(m.view, "seasons")
  BY TablesAre DEF Episoded, Indexed3, IsSeasons
<1>1. /\ MissedIn(v, m.view)
      /\ \A n \in DOMAIN b.seasons : b.seasons[n] \in Existing(v, "seasons") =>
           \E k \in DOMAIN ix.seasons : b.seasons[n] = ix.seasons[k]
      /\ DOMAIN ix.byNumber \subseteq DOMAIN m.byNumber
      /\ \A x \in DOMAIN m.byId : m.byId[x] \in V \/ x \in ids
      /\ \A q \in DOMAIN m.byNumber :
           \/ m.byNumber[q] \in V
           \/ q = <<m.view["episodes"][m.byNumber[q]]["season"], m.view["episodes"][m.byNumber[q]]["number"]>>
  BY <1>0 DEF Missing
<1>2. \A q \in DOMAIN m.byNumber : m.byNumber[q] \in Existing(m.view, "episodes")
  BY DEF Indexed3
<1>3. ASSUME NEW i \in Existing(m.view, "episodes"),
             IF ep.id \in DOMAIN m.byId THEN i = m.byId[ep.id] ELSE place \in DOMAIN m.byNumber /\ i = m.byNumber[place],
             \A t \in Tables : \A j \in Slots[t] : \A c \in Columns[t] :
               b.view[t][j][c] =
                 IF t = "episodes" /\ j = i /\ c = "number" THEN ep.number
                 ELSE IF t = "episodes" /\ j = i /\ c = "jellyfin" /\ m.view[t][j][c] = Null THEN ep.id
                 ELSE m.view[t][j][c],
             b.byNumber = m.byNumber,
             b.byId = IF m.view["episodes"][i]["jellyfin"] = Null THEN Also(m.byId, ep.id, i) ELSE m.byId,
             \A y \in Tables : Existing(b.view, y) = Existing(m.view, y)
      PROVE  Missing(v, ix, b, ids \cup {ep.id})
  <2>1. i \notin V => m.view["episodes"][i]["number"] = ep.number
    <3>1. CASE ep.id \in DOMAIN m.byId
      BY <1>1, <1>3, <3>1
    <3>2. CASE ep.id \notin DOMAIN m.byId
      <4>1. place \in DOMAIN m.byNumber /\ i = m.byNumber[place]
        BY <1>3, <3>2
      <4>2. i \in V \/ place = <<m.view["episodes"][i]["season"], m.view["episodes"][i]["number"]>>
        BY <1>1, <4>1
      <4> QED BY <4>2
    <3> QED BY <3>1, <3>2
  <2> HIDE DEF V, place, p
  <2>2. \A j \in Existing(m.view, "episodes") \ V :
          /\ b.view["episodes"][j]["season"] = m.view["episodes"][j]["season"]
          /\ b.view["episodes"][j]["number"] = m.view["episodes"][j]["number"]
    <3>1. ASSUME NEW j \in Existing(m.view, "episodes") \ V
          PROVE  /\ b.view["episodes"][j]["season"] = m.view["episodes"][j]["season"]
                 /\ b.view["episodes"][j]["number"] = m.view["episodes"][j]["number"]
      <4>1. j \in Slots["episodes"]
        BY DEF Existing
      <4>2. b.view["episodes"][j]["season"] = m.view["episodes"][j]["season"]
        BY <1>0, <1>3, <4>1
      <4>3. b.view["episodes"][j]["number"] = IF j = i THEN ep.number ELSE m.view["episodes"][j]["number"]
        BY <1>0, <1>3, <4>1
      <4> QED BY <2>1, <4>2, <4>3
    <3> QED BY <3>1
  <2>3. MissedIn(v, b.view)
    BY <1>0, <1>1, <1>3, <2>2 DEF MissedIn, V
  <2>4. \A q \in DOMAIN b.byNumber :
           \/ b.byNumber[q] \in V
           \/ q = <<b.view["episodes"][b.byNumber[q]]["season"], b.view["episodes"][b.byNumber[q]]["number"]>>
    BY <1>1, <1>2, <1>3, <2>2
  <2>5. \A x \in DOMAIN b.byId : b.byId[x] \in V \/ x \in ids \cup {ep.id}
    <3> DEFINE f == m.byId  x == ep.id
    <3>1. \A z \in DOMAIN f : f[z] \in V \/ z \in ids
      BY <1>1
    <3>2. b.byId = f \/ b.byId = Also(f, x, i)
      BY <1>3
    <3> HIDE DEF f, x
    <3>3. /\ DOMAIN Also(f, x, i) = DOMAIN f \cup {x}
          /\ \A z \in DOMAIN f \cup {x} : Also(f, x, i)[z] = IF z = x THEN i ELSE f[z]
      BY DEF Also
    <3>4. \A z \in DOMAIN b.byId : b.byId[z] \in V \/ z \in ids \/ z = x
      BY <3>1, <3>2, <3>3
    <3> QED BY <3>4 DEF x
  <2>6. DOMAIN ix.byNumber \subseteq DOMAIN b.byNumber
    BY <1>1, <1>3
  <2> QED BY <1>1, <2>3, <2>4, <2>5, <2>6 DEF Missing, V
<1>4. ASSUME ep.id \notin DOMAIN m.byId, place \notin DOMAIN m.byNumber,
             Inserted(m.view, b.view, "episodes", b.new, Row("episodes", [season |-> p, number |-> ep.number, jellyfin |-> ep.id])),
             b.byId = Also(m.byId, ep.id, b.new),
             b.byNumber = Also(m.byNumber, place, b.new)
      PROVE  Missing(v, ix, b, ids \cup {ep.id})
  <2> DEFINE row == Row("episodes", [season |-> p, number |-> ep.number, jellyfin |-> ep.id])
             i == b.new
  <2>1. row["season"] = p /\ row["number"] = ep.number
    BY RowsAre
  <2>2. Inserted(m.view, b.view, "episodes", i, row)
    BY <1>4
  <2>3. place = <<row["season"], row["number"]>>
    BY <2>1
  <2>4. NumberedEpisodes(v, p, ep.number) = {}
    <3>1. ASSUME NEW j \in NumberedEpisodes(v, p, ep.number)
          PROVE  FALSE
      <4>1. j \in Existing(v, "episodes") /\ v["episodes"][j]["season"] = p /\ v["episodes"][j]["number"] = ep.number
        BY NumberedAre
      <4>2. p \in Existing(v, "seasons")
        BY <4>1 DEF Sound
      <4>3. \E k \in DOMAIN ix.seasons : p = ix.seasons[k]
        BY <1>0, <1>1, <4>2
      <4>4. <<v["episodes"][j]["season"], v["episodes"][j]["number"]>> \in DOMAIN ix.byNumber
        BY <4>1, <4>3 DEF Indexing
      <4> QED BY <1>1, <1>4, <4>1, <4>4
    <3> QED BY <3>1
  <2> HIDE DEF row, p, V
  <2>5. Fits(m.view, "episodes", row)
    BY <1>0, <2>1, TablesAre DEF Fits
  <2>6. MissedIn(v, b.view)
    BY <1>1, <2>1, <2>2, <2>4, <2>5, MissedGrows
  <2>7. /\ b.view["episodes"][i] = row
        /\ \A j \in Existing(m.view, "episodes") : b.view["episodes"][j] = m.view["episodes"][j]
    BY <1>0, <2>2 DEF Inserted, Existing
  <2>8. /\ DOMAIN ix.byNumber \subseteq DOMAIN b.byNumber
        /\ \A q \in DOMAIN b.byNumber :
             \/ b.byNumber[q] \in V
             \/ q = <<b.view["episodes"][b.byNumber[q]]["season"], b.view["episodes"][b.byNumber[q]]["number"]>>
    <3> DEFINE f == m.byNumber  x == place
    <3>1. /\ b.byNumber = Also(f, x, i) /\ DOMAIN ix.byNumber \subseteq DOMAIN f
          /\ \A q \in DOMAIN f : f[q] \in Existing(m.view, "episodes")
          /\ \A q \in DOMAIN f : f[q] \in V \/ q = <<m.view["episodes"][f[q]]["season"], m.view["episodes"][f[q]]["number"]>>
          /\ x = <<row["season"], row["number"]>>
      BY <1>1, <1>2, <1>4, <2>3
    <3> HIDE DEF f, x, i
    <3>2. /\ DOMAIN Also(f, x, i) = DOMAIN f \cup {x}
          /\ \A z \in DOMAIN f \cup {x} : Also(f, x, i)[z] = IF z = x THEN i ELSE f[z]
      BY DEF Also
    <3>3. \A q \in DOMAIN f : f[q] \in V \/ q = <<b.view["episodes"][f[q]]["season"], b.view["episodes"][f[q]]["number"]>>
      BY <2>7, <3>1
    <3> QED BY <2>7, <3>1, <3>2, <3>3
  <2>9. \A x \in DOMAIN b.byId : b.byId[x] \in V \/ x \in ids \cup {ep.id}
    <3> DEFINE f == m.byId  x == ep.id
    <3>1. (\A z \in DOMAIN f : f[z] \in V \/ z \in ids) /\ b.byId = Also(f, x, i)
      BY <1>1, <1>4
    <3> HIDE DEF f, x, i
    <3>2. /\ DOMAIN Also(f, x, i) = DOMAIN f \cup {x}
          /\ \A z \in DOMAIN f \cup {x} : Also(f, x, i)[z] = IF z = x THEN i ELSE f[z]
      BY DEF Also
    <3>3. \A z \in DOMAIN b.byId : b.byId[z] \in V \/ z \in ids \/ z = x
      BY <3>1, <3>2
    <3> QED BY <3>3 DEF x
  <2> QED BY <1>1, <2>6, <2>8, <2>9 DEF Missing, V
<1> QED BY <1>3, <1>4 DEF Episoded

LEMMA EveryJellyfinMissed ==
  ASSUME NEW v, IsView(v), Sound(v), NEW s \in Existing(v, "series"), NEW episodes, NEW late, NEW room,
         IsRoom(room), Len(episodes) \in Nat,
         \A n \in 1..Len(episodes) : episodes[n].number # Null /\ episodes[n].season # Null /\ episodes[n].id # Null,
         \A m, n \in 1..Len(episodes) : episodes[m].id = episodes[n].id => m = n
  PROVE  \A n \in 0..Len(episodes) : LET acc == JellyfinTurns(v, s, episodes, late, room)[n] IN
           acc.full \/ MissedIn(v, acc.view)
<1> DEFINE N == Len(episodes)
           t == JellyfinTurns(v, s, episodes, late, room)
           ix == JellyfinIndexes(v, s, late)
           ids == [n \in 0..N |-> {episodes[k].id : k \in 1..n}]
           S == {n \in 0..N : t[n].full \/ Missing(v, ix, t[n], ids[n])}
<1>0. N \in Nat
  OBVIOUS
<1>1. t[0] = ix
  BY JellyfinTurnsAre
<1>2. \A n \in 1..N : ~t[n].full =>
        JellyfinTurn(v, s, t[n - 1], JellyfinSeason(t[n - 1], s, episodes[n], room), t[n], episodes[n], room)
  BY JellyfinTurnIs
<1>6. \A n \in 0..N : t[n].full \/ (AloneIn(v, t[n].view) /\ Keyed(t[n], s))
  BY EveryJellyfinAlone
<1>7. \A m, n \in 1..N : episodes[m].id = episodes[n].id => m = n
  OBVIOUS
<1>8. Indexing(v, ix, s, late) /\ ix.view = v
  BY JellyfinIndexing, JellyfinIndexesAre
<1> HIDE DEF t, N, ix
<1>3. 0 \in S
  <2>1. MissedIn(v, ix.view)
    BY <1>8, AloneItself
  <2>2. Missing(v, ix, ix, {})
    BY <1>8, <2>1 DEF Missing, Indexing
  <2>3. ids[0] = {}
    BY <1>0
  <2> HIDE DEF ids
  <2>4. Missing(v, ix, t[0], ids[0])
    BY <1>1, <2>2, <2>3
  <2> QED BY <1>0, <2>4
<1>4. ASSUME NEW n \in 1..N, n - 1 \in S
      PROVE  n \in S
  <2> DEFINE a == t[n - 1]  b == t[n]  ep == episodes[n]  m == JellyfinSeason(a, s, ep, room)
             I == ids[n - 1]
  <2>1. a.full \/ Missing(v, ix, a, I)
    BY <1>4
  <2>2. ~b.full => JellyfinTurn(v, s, a, m, b, ep, room)
    BY <1>2
  <2>0. n - 1 \in 0..N /\ \A k \in 1..(n - 1) : k \in 1..N /\ k # n
    BY <1>0
  <2>3. a.full \/ (AloneIn(v, a.view) /\ Keyed(a, s))
    BY <1>6, <2>0
  <2>4. ep.id \notin I
    BY <1>0, <1>7, <2>0
  <2>5. ids[n] = I \cup {ep.id}
    <3>1. \A k \in 1..n : k \in 1..(n - 1) \/ k = n
      BY <1>0
    <3>2. n \in 1..n /\ \A k \in 1..(n - 1) : k \in 1..n
      BY <1>0
    <3> QED BY <1>0, <2>0, <3>1, <3>2
  <2> HIDE DEF a, b, m, ep, I, ids
  <2>6. ASSUME ~b.full PROVE Missing(v, ix, b, I \cup {ep.id})
    <3>1. JellyfinTurn(v, s, a, m, b, ep, room)
      BY <2>2, <2>6
    <3>2. ~a.full
      BY <3>1 DEF JellyfinTurn
    <3>3. SameEpisodes(a.view, m.view)
      BY <2>3, <3>1, <3>2, SeasonedAlone
    <3>4. Extends("jellyfin", v, a.view) /\ Extends("jellyfin", v, m.view) /\ Indexed3(a) /\ Indexed3(m)
          /\ Seasoned(a, m, s, ep, room) /\ Episoded(m, b, ep, room)
          /\ ep.season \in DOMAIN m.seasons /\ ep.number # Null
      BY <3>1 DEF JellyfinTurn, Grown
    <3>5. Missing(v, ix, m, I)
      BY <2>1, <3>2, <3>3, <3>4, SeasonedMissing
    <3> QED BY <1>8, <2>4, <3>4, <3>5, EpisodedMissing
  <2>7. ~b.full => Missing(v, ix, b, ids[n])
    BY <2>5, <2>6
  <2>8. t[n].full \/ Missing(v, ix, t[n], ids[n])
    BY <2>7 DEF b
  <2> QED BY <1>0, <2>8
<1> HIDE DEF S
<1>5. \A n \in 0..N : n \in S
  BY <1>0, <1>3, <1>4, EveryTurn
<1> QED BY <1>5 DEF S, t, N, Missing

\* Jellyfin's loop creates only seasons and episodes that are missing.
LEMMA JellyfinCreates ==
  ASSUME NEW v, IsView(v), Sound(v), NEW s \in Existing(v, "series"), NEW episodes, NEW late, NEW room,
         IsRoom(room), Len(episodes) \in Nat,
         \A n \in 1..Len(episodes) : episodes[n].number # Null /\ episodes[n].season # Null /\ episodes[n].id # Null,
         ~AfterJellyfin(v, s, episodes, late, room).full
  PROVE  LET w == AfterJellyfin(v, s, episodes, late, room).view IN
         /\ AloneIn(v, w)
         /\ (\A m, n \in 1..Len(episodes) : episodes[m].id = episodes[n].id => m = n) => MissedIn(v, w)
<1> DEFINE N == Len(episodes)
           t == JellyfinTurns(v, s, episodes, late, room)
<1>1. N \in 0..N /\ AfterJellyfin(v, s, episodes, late, room) = t[N]
  BY DEF AfterJellyfin
<1>2. \A n \in 0..N : t[n].full \/ (AloneIn(v, t[n].view) /\ Keyed(t[n], s))
  BY EveryJellyfinAlone
<1>3. (\A m, n \in 1..N : episodes[m].id = episodes[n].id => m = n) => \A n \in 0..N : t[n].full \/ MissedIn(v, t[n].view)
  BY EveryJellyfinMissed
<1> HIDE DEF t
<1> QED BY <1>1, <1>2, <1>3

-----------------------------------------------------------------------------
(* The loops of the TMDB update, of a run that has read db.                 *)

\* TMDB has no say in any other column.
OtherColumns(v, w) ==
  /\ \A i \in Slots["series"] : \A c \in Columns["series"] : w["series"][i][c] = v["series"][i][c]
  /\ \A i \in Slots["seasons"] : w["seasons"][i]["jellyfin"] = v["seasons"][i]["jellyfin"]
  /\ \A i \in Slots["episodes"] : /\ w["episodes"][i]["jellyfin"] = v["episodes"][i]["jellyfin"]
                                  /\ w["episodes"][i]["sonarr"] = v["episodes"][i]["sonarr"]

\* No two seasons have the same TMDB id.
SeasonIdsDiffer(v) ==
  \A i, j \in Slots["seasons"] :
    v["seasons"][i]["tmdb"] # Null /\ v["seasons"][i]["tmdb"] = v["seasons"][j]["tmdb"] => i = j

\* What holds of the accumulator throughout.
TmdbAcc(acc) ==
  /\ Grown("tmdb", db, acc) /\ Tmdb5(acc)
  /\ AloneIn(db, acc.view) /\ MissedIn(db, acc.view)
  /\ OtherColumns(db, acc.view)
  /\ SeasonIdsDiffer(db) => SeasonIdsDiffer(acc.view)

\* b is a, some turns later.
TmdbLater(a, b) ==
  /\ Extends("tmdb", a.view, b.view)
  /\ a.hurt \subseteq b.hurt
  /\ a.full = TRUE => b.full = TRUE

\* The TMDB update only goes forward.
LEMMA TmdbLaterAgain ==
  ASSUME NEW a, NEW b, NEW c, TmdbLater(a, b), TmdbLater(b, c)
  PROVE  TmdbLater(a, c)
<1> DEFINE u == a.view  v == b.view  w == c.view
<1>1. Extends("tmdb", u, v) /\ Extends("tmdb", v, w)
  BY DEF TmdbLater
<1> HIDE DEF u, v, w
<1>2. Extends("tmdb", u, w)
  BY <1>1, ExtendsAgain
<1> QED BY <1>2 DEF TmdbLater, u, v, w

LEMMA TmdbLaterItself ==
  ASSUME NEW a, NEW b, TmdbAcc(a), b.view = a.view, a.hurt \subseteq b.hurt, a.full = TRUE => b.full = TRUE
  PROVE  TmdbLater(a, b)
<1>1. IsView(a.view) /\ Sound(a.view)
  BY DEF TmdbAcc, Grown, Extends
<1>2. Extends("tmdb", a.view, a.view)
  BY <1>1, ExtendsItself
<1> QED BY <1>2 DEF TmdbLater

\* An accumulator with the same tables.
LEMMA TmdbAccSame ==
  ASSUME NEW a, NEW b, TmdbAcc(a), Tmdb5(b), b.view = a.view
  PROVE  TmdbAcc(b)
BY DEF TmdbAcc, Grown, IsAcc, Tmdb5

\* An id that is filled moves nothing, and is taken by no other season.
LEMMA FilledIs ==
  ASSUME NEW acc, TmdbAcc(acc), NEW t \in {"seasons", "episodes"}, NEW i \in Existing(acc.view, t), NEW x,
         t = "seasons" =>
           \/ Filled(acc, t, i, x).view["seasons"][i]["tmdb"] = acc.view["seasons"][i]["tmdb"]
           \/ \A j \in Slots["seasons"] \ {i} : acc.view["seasons"][j]["tmdb"] # x
  PROVE  LET b == Filled(acc, t, i, x) IN
         /\ TmdbAcc(b) /\ TmdbLater(acc, b)
         /\ b.hurt = acc.hurt /\ b.full = acc.full /\ b.left = acc.left /\ b.new = acc.new
         /\ SameSeasons(acc.view, b.view) /\ SameEpisodes(acc.view, b.view)
<1> DEFINE b == Filled(acc, t, i, x)
           v == acc.view
           w == Put(v, t, i, "tmdb", x)
<1>0. /\ t \in Tables /\ "tmdb" \in Columns[t] /\ i \in Slots[t]
      /\ "series" \in Tables /\ "seasons" \in Tables /\ "episodes" \in Tables
      /\ {"series", "number", "jellyfin", "tmdb"} \subseteq Columns["seasons"]
      /\ {"sonarr", "jellyfin", "tmdb"} \subseteq Columns["episodes"]
  BY TablesAre DEF Existing
<1>1. /\ Grown("tmdb", db, acc) /\ Tmdb5(acc) /\ IsView(v) /\ Sound(v)
      /\ AloneIn(db, v) /\ MissedIn(db, v) /\ OtherColumns(db, v)
      /\ SeasonIdsDiffer(db) => SeasonIdsDiffer(v)
  BY DEF TmdbAcc, Grown, Extends
<1>2. /\ Grown("tmdb", db, b) /\ DOMAIN b = DOMAIN acc
      /\ \A f \in DOMAIN acc \ {"view"} : b[f] = acc[f]
      /\ \A u \in Tables : Existing(b.view, u) = Existing(v, u)
  BY <1>1, FilledGrows
<1>3. b.view = IF v[t][i]["tmdb"] = Null THEN w ELSE v
  BY <1>1 DEF Filled, Tmdb5
<1>12. t = "seasons" =>
           \/ b.view["seasons"][i]["tmdb"] = v["seasons"][i]["tmdb"]
           \/ \A j \in Slots["seasons"] \ {i} : v["seasons"][j]["tmdb"] # x
  OBVIOUS
<1>4. \A u \in Tables : \A j \in Slots[u] : \A d \in Columns[u] :
        w[u][j][d] = IF u = t /\ j = i /\ d = "tmdb" THEN x ELSE v[u][j][d]
  BY <1>0, <1>1, PutIs
<1>13. v[t][i]["tmdb"] = Null => Extends("tmdb", v, w)
  <2>1. IsView(v) /\ Sound(v) /\ i \in Existing(v, t)
    BY <1>1
  <2>2. v[t][i]["tmdb"] = Null => v[t][i]["tmdb"] = x \/ x # Null
    OBVIOUS
  <2> HIDE DEF v, w
  <2> QED BY <1>0, <2>1, <2>2, PutExtends DEF w
<1>5. Extends("tmdb", v, b.view)
  BY <1>1, <1>3, <1>13, ExtendsItself
<1> HIDE DEF b, w, v
<1>6. \A u \in Tables : \A j \in Slots[u] : \A d \in Columns[u] :
        b.view[u][j][d] = v[u][j][d] \/ (u = t /\ j = i /\ d = "tmdb" /\ b.view[u][j][d] = x)
  BY <1>3, <1>4
<1>7. SameSeasons(v, b.view) /\ SameEpisodes(v, b.view)
  <2>1. \A j \in Existing(v, "seasons") : /\ b.view["seasons"][j]["series"] = v["seasons"][j]["series"]
                                          /\ b.view["seasons"][j]["number"] = v["seasons"][j]["number"]
    BY <1>6, TablesAre DEF Existing
  <2>2. \A j \in Existing(v, "episodes") : /\ b.view["episodes"][j]["season"] = v["episodes"][j]["season"]
                                           /\ b.view["episodes"][j]["number"] = v["episodes"][j]["number"]
    BY <1>6, TablesAre DEF Existing
  <2> QED BY <1>0, <1>2, <2>1, <2>2 DEF SameSeasons, SameEpisodes
<1>8. AloneIn(db, b.view) /\ MissedIn(db, b.view)
  BY <1>1, <1>7, AloneStays, MissedStays
<1>9. OtherColumns(db, b.view)
  <2>1. \A j \in Slots["series"] : \A c \in Columns["series"] : b.view["series"][j][c] = v["series"][j][c]
    BY <1>0, <1>6
  <2>2. \A j \in Slots["seasons"] : b.view["seasons"][j]["jellyfin"] = v["seasons"][j]["jellyfin"]
    BY <1>0, <1>6
  <2>3. \A j \in Slots["episodes"] : /\ b.view["episodes"][j]["jellyfin"] = v["episodes"][j]["jellyfin"]
                                     /\ b.view["episodes"][j]["sonarr"] = v["episodes"][j]["sonarr"]
    BY <1>0, <1>6
  <2> QED BY <1>1, <2>1, <2>2, <2>3 DEF OtherColumns
<1>10. SeasonIdsDiffer(v) => SeasonIdsDiffer(b.view)
  <2>1. \A j \in Slots["seasons"] : b.view["seasons"][j]["tmdb"] = v["seasons"][j]["tmdb"]
                                    \/ (t = "seasons" /\ j = i /\ b.view["seasons"][j]["tmdb"] = x)
    BY <1>0, <1>6
  <2> QED BY <1>12, <2>1 DEF SeasonIdsDiffer
<1>11. Tmdb5(b) /\ b.hurt = acc.hurt /\ b.full = acc.full /\ b.left = acc.left /\ b.new = acc.new
  BY <1>1, <1>2 DEF Tmdb5
<1>14. TmdbAcc(b)
  BY <1>1, <1>2, <1>8, <1>9, <1>10, <1>11 DEF TmdbAcc
<1>15. TmdbLater(acc, b)
  BY <1>5, <1>11 DEF TmdbLater, v
<1> QED BY <1>7, <1>11, <1>14, <1>15 DEF b, v

\* A row that is added where none stood.
LEMMA TmdbInserted ==
  ASSUME NEW acc, TmdbAcc(acc), NEW b, DOMAIN b = DOMAIN acc, b.full = acc.full, b.hurt = acc.hurt,
         NEW t \in {"seasons", "episodes"}, NEW row, Inserted(acc.view, b.view, t, b.new, row), Fits(acc.view, t, row),
         t = "seasons" => row["jellyfin"] = Null /\ row["tmdb"] = Null
                          /\ NumberedSeasons(acc.view, row["series"], row["number"]) = {},
         t = "episodes" => row["jellyfin"] = Null /\ row["sonarr"] = Null
                           /\ NumberedEpisodes(db, row["season"], row["number"]) = {}
  PROVE  TmdbAcc(b) /\ TmdbLater(acc, b)
<1> DEFINE v == acc.view
           w == b.view
           i == b.new
<1>0. t \in Tables /\ Inserted(v, w, t, i, row) /\ Fits(v, t, row)
  BY TablesAre
<1>1. /\ Grown("tmdb", db, acc) /\ Tmdb5(acc) /\ IsView(v) /\ Sound(v) /\ Extends("tmdb", db, v)
      /\ AloneIn(db, v) /\ MissedIn(db, v) /\ OtherColumns(db, v)
      /\ SeasonIdsDiffer(db) => SeasonIdsDiffer(v)
  BY DEF TmdbAcc, Grown, Extends
<1> HIDE DEF v, w, i
<1>2. Extends("tmdb", v, w) /\ OneMore(v, w, t, i)
  BY <1>0, <1>1, InsertedExtends
<1>3. Extends("tmdb", db, w)
  BY <1>1, <1>2, ExtendsAgain
<1>4. /\ t # "seasons" => SameSeasons(v, w)
      /\ t # "episodes" => SameEpisodes(v, w)
  BY <1>0, InsertedIs
<1>5. AloneIn(db, w)
  <2>1. CASE t = "seasons"
    <3>1. NumberedSeasons(v, row["series"], row["number"]) = {}
      BY <2>1 DEF v
    <3> QED BY <1>0, <1>1, <2>1, <3>1, AloneGrows
  <2>2. CASE t # "seasons"
    BY <1>1, <1>4, <2>2, AloneStays
  <2> QED BY <2>1, <2>2
<1>6. MissedIn(db, w)
  <2>1. CASE t = "episodes"
    BY <1>0, <1>1, <2>1, MissedGrows
  <2>2. CASE t # "episodes"
    BY <1>1, <1>4, <2>2, MissedStays
  <2> QED BY <2>1, <2>2
<1>7. \A u \in Tables : \A j \in Slots[u] : w[u][j] = v[u][j] \/ (u = t /\ j = i /\ w[u][j] = row)
  BY <1>0 DEF Inserted
<1>8. \A c \in Columns[t] : v[t][i][c] = Null
  BY <1>0 DEF Inserted, Existing, Exists
<1>9. OtherColumns(db, w)
  <2>1. \A j \in Slots["series"] : \A c \in Columns["series"] : w["series"][j][c] = v["series"][j][c]
    BY <1>7, TablesAre
  <2>2. \A j \in Slots["seasons"] : w["seasons"][j]["jellyfin"] = v["seasons"][j]["jellyfin"]
    BY <1>7, <1>8, TablesAre
  <2>3. \A j \in Slots["episodes"] : /\ w["episodes"][j]["jellyfin"] = v["episodes"][j]["jellyfin"]
                                     /\ w["episodes"][j]["sonarr"] = v["episodes"][j]["sonarr"]
    BY <1>7, <1>8, TablesAre
  <2> QED BY <1>1, <2>1, <2>2, <2>3 DEF OtherColumns
<1>10. SeasonIdsDiffer(v) => SeasonIdsDiffer(w)
  <2>1. \A j \in Slots["seasons"] : w["seasons"][j]["tmdb"] = v["seasons"][j]["tmdb"]
    BY <1>7, <1>8, TablesAre
  <2> QED BY <2>1 DEF SeasonIdsDiffer
<1>11. Tmdb5(b) /\ Grown("tmdb", db, b)
  BY <1>1, <1>3 DEF Tmdb5, Grown, IsAcc, w
<1>12. TmdbAcc(b)
  BY <1>1, <1>5, <1>6, <1>9, <1>10, <1>11 DEF TmdbAcc, w
<1>13. TmdbLater(acc, b)
  BY <1>2 DEF TmdbLater, v, w
<1> QED BY <1>12, <1>13

\* A turn of the loop over the episodes of a season.
LEMMA TmdbEpisodeKeeps ==
  ASSUME NEW base, Sound(base), Extends("tmdb", db, base), Sound(db),
         NEW acc, TmdbAcc(acc), Extends("tmdb", base, acc.view), NEW p \in Existing(acc.view, "seasons"),
         NEW ep, ep.number # Null, NEW late, NEW room, IsRoom(room)
  PROVE  LET b == TmdbEpisode(base, acc, p, ep, late, room) IN
         /\ TmdbAcc(b) /\ TmdbLater(acc, b) /\ b.left = acc.left /\ b.hurt = acc.hurt
         /\ b.full = TRUE \/ NumberedEpisodes(b.view, p, ep.number) # {}
<1> DEFINE b == TmdbEpisode(base, acc, p, ep, late, room)
           known == NumberedEpisodes(base, p, ep.number)
           i == LastOf(known, late)
           values == [season |-> p, number |-> ep.number, tmdb |-> ep.tmdb]
           new == Added(acc, "episodes", values, room)
<1>0. "episodes" \in Tables /\ Grown("tmdb", db, acc) /\ Tmdb5(acc)
  BY TablesAre DEF TmdbAcc
<1>1. CASE known # {}
  <2>1. b = Filled(acc, "episodes", i, ep.tmdb)
    BY <1>1 DEF TmdbEpisode
  <2>2. i \in known
    <3>1. known \subseteq Slots["episodes"]
      BY NumberedAre DEF Existing
    <3> HIDE DEF known
    <3> QED BY <3>1, <1>0, <1>1, LastIs
  <2>3. known \subseteq NumberedEpisodes(acc.view, p, ep.number)
    BY ExtendsNumbered
  <2>4. i \in Existing(acc.view, "episodes") /\ NumberedEpisodes(acc.view, p, ep.number) # {}
    BY <2>2, <2>3, NumberedAre
  <2> HIDE DEF i
  <2>5. LET c == Filled(acc, "episodes", i, ep.tmdb) IN
         /\ TmdbAcc(c) /\ TmdbLater(acc, c)
         /\ c.hurt = acc.hurt /\ c.full = acc.full /\ c.left = acc.left /\ c.new = acc.new
         /\ SameSeasons(acc.view, c.view) /\ SameEpisodes(acc.view, c.view)
    BY <2>4, FilledIs
  <2> HIDE DEF b
  <2>6. NumberedEpisodes(b.view, p, ep.number) = NumberedEpisodes(acc.view, p, ep.number)
    BY <2>1, <2>5, SameNumbered
  <2> QED BY <2>1, <2>4, <2>5, <2>6 DEF b
<1>2. CASE known = {}
  <2>1. b = new
    BY <1>2 DEF TmdbEpisode
  <2> DEFINE row == Row("episodes", values)
  <2>2. row["season"] = p /\ row["number"] = ep.number /\ row["jellyfin"] = Null /\ row["sonarr"] = Null
    BY RowsAre
  <2>3. NumberedEpisodes(db, row["season"], row["number"]) = {}
    <3>1. NumberedEpisodes(db, p, ep.number) \subseteq known
      BY ExtendsNumbered
    <3> QED BY <1>2, <2>2, <3>1
  <2> HIDE DEF values, row
  <2>4. /\ Grown("tmdb", db, new)
        /\ DOMAIN new = DOMAIN acc
        /\ \A f \in DOMAIN acc \ {"view", "full", "new"} : new[f] = acc[f]
        /\ \/ new.full = TRUE /\ new.view = acc.view /\ new.new = acc.new
           \/ /\ new.full = acc.full
              /\ new.new \in room["episodes"] /\ new.new \in Existing(new.view, "episodes")
              /\ Inserted(acc.view, new.view, "episodes", new.new, Row("episodes", values))
    BY <1>0, <2>2, EpisodeAdded DEF row
  <2> HIDE DEF new, b
  <2>5. Tmdb5(new) /\ new.hurt = acc.hurt /\ new.left = acc.left
    BY <1>0, <2>4 DEF Tmdb5
  <2>6. CASE new.full = TRUE /\ new.view = acc.view
    <3>1. TmdbAcc(new)
      BY <2>5, <2>6, TmdbAccSame
    <3>2. TmdbLater(acc, new)
      BY <2>5, <2>6, TmdbLaterItself
    <3> QED BY <2>1, <2>5, <2>6, <3>1, <3>2 DEF b
  <2>7. CASE new.full = acc.full /\ Inserted(acc.view, new.view, "episodes", new.new, row)
    <3>1. Fits(acc.view, "episodes", row)
      BY <2>2, TablesAre DEF Fits
    <3>2. TmdbAcc(new) /\ TmdbLater(acc, new)
      BY <2>2, <2>3, <2>4, <2>5, <2>7, <3>1, TmdbInserted
    <3>3. NumberedEpisodes(new.view, p, ep.number) # {}
      <4> DEFINE u == acc.view  w == new.view  j == new.new
      <4>1. Inserted(u, w, "episodes", j, row) /\ Fits(u, "episodes", row)
        BY <2>7, <3>1
      <4> HIDE DEF u, w, j
      <4>2. \A q, n : NumberedEpisodes(w, q, n) = NumberedEpisodes(u, q, n) \cup
              (IF row["season"] = q /\ row["number"] = n THEN {j} ELSE {})
        BY <4>1, InsertedNumbered
      <4> QED BY <2>2, <4>2 DEF w
    <3> QED BY <2>1, <2>5, <3>2, <3>3 DEF b
  <2> QED BY <2>4, <2>6, <2>7 DEF row
<1> QED BY <1>1, <1>2

\* What b, the loop over the episodes of season p after n turns, has kept and added.
EpisodesKept(before, p, episodes, b, n) ==
  /\ TmdbAcc(b) /\ TmdbLater(before, b) /\ b.left = before.left /\ b.hurt = before.hurt
  /\ b.full = TRUE \/ \A k \in 1..n : NumberedEpisodes(b.view, p, episodes[k].number) # {}

\* After the loop over the episodes of a season, all of them are there.
LEMMA EveryTmdbEpisode ==
  ASSUME Sound(db), NEW before, TmdbAcc(before), NEW p \in Existing(before.view, "seasons"),
         NEW episodes, NEW late, NEW room, IsRoom(room), Len(episodes) \in Nat,
         \A n \in 1..Len(episodes) : episodes[n].number # Null
  PROVE  \A n \in 0..Len(episodes) :
           EpisodesKept(before, p, episodes, EpisodeTurns(before, p, episodes, late, room)[n], n)
<1> DEFINE N == Len(episodes)
           t == EpisodeTurns(before, p, episodes, late, room)
           base == before.view
           Turn(n) == /\ TmdbAcc(t[n]) /\ TmdbLater(before, t[n]) /\ t[n].left = before.left /\ t[n].hurt = before.hurt
                      /\ t[n].full = TRUE \/ \A k \in 1..n : NumberedEpisodes(t[n].view, p, episodes[k].number) # {}
           S == {n \in 0..N : Turn(n)}
<1>0. N \in Nat /\ \A n \in 1..N : episodes[n].number # Null
  OBVIOUS
<1>1. /\ t[0] = before
      /\ \A n \in 1..N : t[n] = TmdbEpisode(base, t[n - 1], p, episodes[n], late, room)
  BY EpisodeTurnsAre
<1>2. Sound(base) /\ Extends("tmdb", db, base)
  BY DEF TmdbAcc, Grown, Extends
<1> HIDE DEF t, N
<1>3. 0 \in S
  <2>1. TmdbLater(before, before)
    BY TmdbLaterItself
  <2>2. Turn(0)
    BY <1>1, <2>1
  <2> QED BY <1>0, <2>2
<1>4. ASSUME NEW n \in 1..N, n - 1 \in S
      PROVE  n \in S
  <2> DEFINE acc == t[n - 1]  ep == episodes[n]  b == t[n]
  <2>0. n - 1 \in 0..N /\ \A k \in 1..n : k = n \/ k \in 1..(n - 1)
    BY <1>0
  <2>1. /\ TmdbAcc(acc) /\ TmdbLater(before, acc) /\ acc.left = before.left /\ acc.hurt = before.hurt
        /\ acc.full = TRUE \/ \A k \in 1..(n - 1) : NumberedEpisodes(acc.view, p, episodes[k].number) # {}
    BY <1>4
  <2>2. b = TmdbEpisode(base, acc, p, ep, late, room) /\ ep.number # Null
    BY <1>0, <1>1
  <2> HIDE DEF acc, b
  <2>3. Extends("tmdb", base, acc.view)
    BY <2>1 DEF TmdbLater
  <2>4. p \in Existing(acc.view, "seasons")
    BY <2>3, ExtendsExisting, TablesAre
  <2> HIDE DEF ep, base
  <2> DEFINE c == TmdbEpisode(base, acc, p, ep, late, room)
  <2>5. /\ TmdbAcc(c) /\ TmdbLater(acc, c) /\ c.left = acc.left /\ c.hurt = acc.hurt
        /\ c.full = TRUE \/ NumberedEpisodes(c.view, p, ep.number) # {}
    BY <1>2, <2>1, <2>2, <2>3, <2>4, TmdbEpisodeKeeps
  <2> HIDE DEF c
  <2>6. b = c
    BY <2>2 DEF c
  <2>7. TmdbLater(before, b)
    BY <2>1, <2>5, <2>6, TmdbLaterAgain
  <2>8. b.full = TRUE \/ \A k \in 1..n : NumberedEpisodes(b.view, p, episodes[k].number) # {}
    <3>1. Extends("tmdb", acc.view, b.view) /\ (acc.full = TRUE => b.full = TRUE)
      BY <2>5, <2>6 DEF TmdbLater
    <3>2. Sound(acc.view)
      BY <2>1 DEF TmdbAcc, Grown, Extends
    <3>3. \A m : NumberedEpisodes(acc.view, p, m) \subseteq NumberedEpisodes(b.view, p, m)
      BY <3>1, <3>2, ExtendsNumbered
    <3>4. b.full = TRUE \/ NumberedEpisodes(b.view, p, episodes[n].number) # {}
      BY <2>5, <2>6 DEF ep
    <3> QED BY <2>0, <2>1, <3>1, <3>3, <3>4
  <2>9. Turn(n)
    BY <2>1, <2>5, <2>6, <2>7, <2>8 DEF b
  <2> QED BY <1>0, <2>9
<1> HIDE DEF S
<1>5. \A n \in 0..N : n \in S
  BY <1>0, <1>3, <1>4, EveryTurn
<1> QED BY <1>5 DEF S, t, N, EpisodesKept

\* The episodes of this season of a payload are there.
SeasonHeld(w, s, season) ==
  \A k \in 1..Len(season.episodes) : \E p \in NumberedSeasons(w, s, season.number) :
    NumberedEpisodes(w, p, season.episodes[k].number) # {}

LEMMA SeasonHeldStays ==
  ASSUME NEW v, NEW w, Extends("tmdb", v, w), Sound(v), NEW s, NEW season, SeasonHeld(v, s, season)
  PROVE  SeasonHeld(w, s, season)
<1>1. /\ \A p, n : NumberedSeasons(v, p, n) \subseteq NumberedSeasons(w, p, n)
      /\ \A p, n : NumberedEpisodes(v, p, n) \subseteq NumberedEpisodes(w, p, n)
  BY ExtendsNumbered
<1> QED BY <1>1 DEF SeasonHeld

\* The season that a turn is about: there already, or new.
LEMMA TmdbSeasonFound ==
  ASSUME NEW before, TmdbAcc(before), NEW s \in Existing(before.view, "series"), NEW number, number # Null,
         NEW late, NEW room, IsRoom(room)
  PROVE  LET known == NumberedSeasons(before.view, s, number)
             acc == IF known # {} THEN [before EXCEPT !.new = LastOf(known, late)]
                    ELSE Added(before, "seasons", [series |-> s, number |-> number], room)
         IN  /\ TmdbAcc(acc) /\ TmdbLater(before, acc) /\ acc.left = before.left /\ acc.hurt = before.hurt
             /\ acc.full = TRUE \/ acc.new \in NumberedSeasons(acc.view, s, number)
<1> DEFINE known == NumberedSeasons(before.view, s, number)
           i == LastOf(known, late)
           values == [series |-> s, number |-> number]
           new == Added(before, "seasons", values, room)
           acc == IF known # {} THEN [before EXCEPT !.new = i] ELSE new
<1>0. "seasons" \in Tables /\ Tmdb5(before) /\ Grown("tmdb", db, before)
  BY TablesAre DEF TmdbAcc
<1>1. CASE known # {}
  <2>1. i \in known
    <3>1. known \subseteq Slots["seasons"]
      BY NumberedAre DEF Existing
    <3> HIDE DEF known
    <3> QED BY <3>1, <1>0, <1>1, LastIs
  <2>2. acc = [before EXCEPT !.new = i]
    BY <1>1
  <2> HIDE DEF acc, i
  <2>3. /\ Tmdb5(acc) /\ acc.view = before.view /\ acc.new = i
        /\ acc.left = before.left /\ acc.hurt = before.hurt /\ acc.full = before.full
    BY <1>0, <2>2 DEF Tmdb5
  <2>4. TmdbAcc(acc)
    BY <2>3, TmdbAccSame
  <2>5. TmdbLater(before, acc)
    BY <2>3, TmdbLaterItself
  <2> QED BY <2>1, <2>3, <2>4, <2>5 DEF acc, i
<1>2. CASE known = {}
  <2>1. acc = new
    BY <1>2
  <2> DEFINE row == Row("seasons", values)
  <2>2. row["series"] = s /\ row["number"] = number /\ row["jellyfin"] = Null /\ row["tmdb"] = Null
    BY RowsAre
  <2>3. NumberedSeasons(before.view, row["series"], row["number"]) = {}
    BY <1>2, <2>2
  <2> HIDE DEF values, known, acc, row
  <2>4. /\ Grown("tmdb", db, new)
        /\ DOMAIN new = DOMAIN before
        /\ \A f \in DOMAIN before \ {"view", "full", "new"} : new[f] = before[f]
        /\ \/ new.full = TRUE /\ new.view = before.view /\ new.new = before.new
           \/ /\ new.full = before.full
              /\ new.new \in room["seasons"] /\ new.new \in Existing(new.view, "seasons")
              /\ Inserted(before.view, new.view, "seasons", new.new, Row("seasons", values))
    BY <1>0, <2>2, SeasonAdded DEF row
  <2> HIDE DEF new
  <2>5. Tmdb5(new) /\ new.hurt = before.hurt /\ new.left = before.left
    BY <1>0, <2>4 DEF Tmdb5
  <2>6. CASE new.full = TRUE /\ new.view = before.view
    <3>1. TmdbAcc(new)
      BY <2>5, <2>6, TmdbAccSame
    <3>2. TmdbLater(before, new)
      BY <2>5, <2>6, TmdbLaterItself
    <3> QED BY <2>1, <2>5, <2>6, <3>1, <3>2 DEF acc, new, values, known
  <2>7. CASE new.full = before.full /\ Inserted(before.view, new.view, "seasons", new.new, row)
    <3>1. Fits(before.view, "seasons", row)
      BY <2>2, TablesAre DEF Fits
    <3>2. TmdbAcc(new) /\ TmdbLater(before, new)
      BY <2>2, <2>3, <2>4, <2>5, <2>7, <3>1, TmdbInserted
    <3>3. new.new \in NumberedSeasons(new.view, s, number)
      <4> DEFINE u == before.view  w == new.view  j == new.new
      <4>1. Inserted(u, w, "seasons", j, row) /\ Fits(u, "seasons", row)
        BY <2>7, <3>1
      <4> HIDE DEF u, w, j
      <4>2. \A q, n : NumberedSeasons(w, q, n) = NumberedSeasons(u, q, n) \cup
              (IF row["series"] = q /\ row["number"] = n THEN {j} ELSE {})
        BY <4>1, InsertedNumbered
      <4> QED BY <2>2, <4>2 DEF w, j
    <3> QED BY <2>1, <2>5, <3>2, <3>3 DEF acc, new, values, known
  <2> QED BY <2>4, <2>6, <2>7 DEF row
<1> QED BY <1>1, <1>2

\* A season of a payload, with its episodes, is there after its turn, unless its
\* series was left; so with every season, every series.
LEMMA TmdbSeasonKeeps ==
  ASSUME IsView(db), Sound(db), NEW before, TmdbAcc(before), NEW s \in Existing(before.view, "series"),
         NEW season, season.number # Null, Len(season.episodes) \in Nat,
         \A n \in 1..Len(season.episodes) : season.episodes[n].number # Null,
         NEW late, NEW room, IsRoom(room), before.left = TRUE => s \in before.hurt
  PROVE  LET b == TmdbSeason(before, s, season, db, late, room) IN
         /\ TmdbAcc(b) /\ TmdbLater(before, b)
         /\ b.left = TRUE => s \in b.hurt
         /\ b.full = TRUE \/ s \in b.hurt \/ SeasonHeld(b.view, s, season)
<1> DEFINE b == TmdbSeason(before, s, season, db, late, room)
           known == NumberedSeasons(before.view, s, season.number)
           values == [series |-> s, number |-> season.number]
           acc == IF known # {} THEN [before EXCEPT !.new = LastOf(known, late)]
                  ELSE Added(before, "seasons", values, room)
           tagged == Filled(acc, "seasons", acc.new, season.tmdb)
           duplicate ==
             \E i \in Slots.seasons \ {acc.new} :
               /\ tagged.view.seasons[acc.new].tmdb # acc.view.seasons[acc.new].tmdb
               /\ Flushed(acc, db).seasons[i].tmdb = season.tmdb
<1>0. "seasons" \in Tables
  BY TablesAre
<1>1. b = IF before.left \/ before.full THEN before
          ELSE IF acc.full THEN acc
          ELSE IF duplicate THEN [acc EXCEPT !.left = TRUE, !.hurt = @ \cup {s}]
          ELSE TmdbEpisodes(tagged, acc.new, season.episodes, late, room)
  BY DEF TmdbSeason
<1>2. /\ TmdbAcc(acc) /\ TmdbLater(before, acc) /\ acc.left = before.left /\ acc.hurt = before.hurt
      /\ acc.full = TRUE \/ acc.new \in NumberedSeasons(acc.view, s, season.number)
  BY TmdbSeasonFound
<1>3. CASE before.left \/ before.full
  <2>1. b = before
    <3> HIDE DEF acc, b, tagged, duplicate
    <3> QED BY <1>1, <1>3
  <2> HIDE DEF b
  <2>2. TmdbLater(before, b)
    BY <2>1, TmdbLaterItself
  <2> QED BY <1>3, <2>1, <2>2 DEF b
<1>4. CASE ~(before.left \/ before.full) /\ acc.full
  <2>1. b = acc
    <3> HIDE DEF acc, b, tagged, duplicate
    <3> QED BY <1>1, <1>4
  <2> HIDE DEF acc, b
  <2>2. b.full = TRUE /\ ~(b.left = TRUE)
    BY <1>2, <1>4, <2>1
  <2> QED BY <1>2, <2>1, <2>2 DEF b
<1>5. CASE ~(before.left \/ before.full) /\ ~acc.full /\ duplicate
  <2>1. b = [acc EXCEPT !.left = TRUE, !.hurt = @ \cup {s}]
    <3> HIDE DEF acc, b, tagged, duplicate
    <3> QED BY <1>1, <1>5
  <2> HIDE DEF acc, b
  <2>2. Tmdb5(b) /\ b.view = acc.view /\ b.hurt = acc.hurt \cup {s} /\ b.full = acc.full
    BY <1>2, <2>1 DEF TmdbAcc, Tmdb5
  <2>3. TmdbAcc(b)
    BY <1>2, <2>2, TmdbAccSame
  <2>4. TmdbLater(acc, b)
    BY <1>2, <2>2, TmdbLaterItself
  <2>5. TmdbLater(before, b)
    BY <1>2, <2>4, TmdbLaterAgain
  <2> QED BY <2>2, <2>3, <2>5 DEF b
<1>6. CASE ~(before.left \/ before.full) /\ ~acc.full /\ ~duplicate
  <2> DEFINE p == acc.new  N == Len(season.episodes)
  <2>1. b = EpisodeTurns(tagged, p, season.episodes, late, room)[N]
    <3> HIDE DEF acc, b, tagged, duplicate
    <3> QED BY <1>1, <1>6 DEF TmdbEpisodes
  <2>2. p \in NumberedSeasons(acc.view, s, season.number)
    <3> HIDE DEF acc, b, tagged, duplicate
    <3> QED BY <1>2, <1>6
  <2>3. \A i \in Slots.seasons \ {p} :
               \/ tagged.view.seasons[p].tmdb = acc.view.seasons[p].tmdb
               \/ Flushed(acc, db).seasons[i].tmdb # season.tmdb
    <3>1. ~duplicate
      BY <1>6
    <3> HIDE DEF acc, tagged
    <3> QED BY ONLY <3>1 DEF duplicate
  <2>9. ~(acc.left = TRUE)
    <3> HIDE DEF acc, b, tagged, duplicate
    <3> QED BY <1>2, <1>6
  <2> HIDE DEF acc, b, p
  <2>4. p \in Existing(acc.view, "seasons")
    BY <2>2, NumberedAre
  <2>5. Flushed(acc, db) = acc.view
    <3>1. IsView(acc.view) /\ Covers(db, acc.view)
      BY <1>2 DEF TmdbAcc, Grown, Extends
    <3> QED BY <3>1, OverlayChanges DEF Flushed
  <2>6. \/ tagged.view["seasons"][p]["tmdb"] = acc.view["seasons"][p]["tmdb"]
        \/ \A j \in Slots["seasons"] \ {p} : acc.view["seasons"][j]["tmdb"] # season.tmdb
    BY <2>3, <2>5
  <2> DEFINE x == season.tmdb
  <2>7. /\ TmdbAcc(tagged) /\ TmdbLater(acc, tagged)
        /\ tagged.hurt = acc.hurt /\ tagged.full = acc.full /\ tagged.left = acc.left
        /\ SameSeasons(acc.view, tagged.view)
    <3> DEFINE c == Filled(acc, "seasons", p, x)
    <3>1. tagged = c
      BY DEF p
    <3>2. "seasons" = "seasons" =>
           \/ Filled(acc, "seasons", p, x).view["seasons"][p]["tmdb"] = acc.view["seasons"][p]["tmdb"]
           \/ \A j \in Slots["seasons"] \ {p} : acc.view["seasons"][j]["tmdb"] # x
      BY <2>6, <3>1
    <3> HIDE DEF x
    <3>3. /\ TmdbAcc(c) /\ TmdbLater(acc, c)
          /\ c.hurt = acc.hurt /\ c.full = acc.full /\ c.left = acc.left /\ c.new = acc.new
          /\ SameSeasons(acc.view, c.view) /\ SameEpisodes(acc.view, c.view)
      BY <1>2, <2>4, <3>2, FilledIs
    <3> HIDE DEF c, tagged
    <3> QED BY <3>1, <3>3
  <2> HIDE DEF tagged
  <2> DEFINE eps == season.episodes
  <2>8. Len(eps) \in Nat /\ N = Len(eps) /\ (\A n \in 1..Len(eps) : eps[n].number # Null)
        /\ p \in Existing(tagged.view, "seasons")
    BY <2>4, <2>7 DEF SameSeasons
  <2>14. b = EpisodeTurns(tagged, p, eps, late, room)[Len(eps)] /\ Len(eps) \in 0..Len(eps)
    BY <2>1, <2>8
  <2> HIDE DEF N
  <2>10. SeasonHeld(b.view, s, season) <=> \A k \in 1..Len(eps) : \E q \in NumberedSeasons(b.view, s, season.number) :
           NumberedEpisodes(b.view, q, eps[k].number) # {}
    BY DEF SeasonHeld
  <2> HIDE DEF eps
  <2>11. \A n \in 0..Len(eps) :
           EpisodesKept(tagged, p, eps, EpisodeTurns(tagged, p, eps, late, room)[n], n)
    <3>1. /\ TmdbAcc(tagged) /\ p \in Existing(tagged.view, "seasons")
          /\ Len(eps) \in Nat /\ \A n \in 1..Len(eps) : eps[n].number # Null
          /\ Sound(db) /\ IsRoom(room)
      BY <2>7, <2>8
    <3> QED BY ONLY <3>1, EveryTmdbEpisode
  <2>12. /\ TmdbAcc(b) /\ TmdbLater(tagged, b) /\ b.left = tagged.left /\ b.hurt = tagged.hurt
         /\ b.full = TRUE \/ \A k \in 1..Len(eps) : NumberedEpisodes(b.view, p, eps[k].number) # {}
    BY <2>11, <2>14 DEF EpisodesKept
  <2>13. TmdbLater(before, b)
    <3>1. TmdbLater(acc, b)
      BY <2>7, <2>12, TmdbLaterAgain
    <3> QED BY <1>2, <3>1, TmdbLaterAgain
  <2>15. p \in NumberedSeasons(b.view, s, season.number)
    <3>1. NumberedSeasons(tagged.view, s, season.number) = NumberedSeasons(acc.view, s, season.number)
      BY <2>7, SameNumbered
    <3>2. Sound(tagged.view) /\ Extends("tmdb", tagged.view, b.view)
      BY <2>7, <2>12 DEF TmdbAcc, Grown, Extends, TmdbLater
    <3>3. NumberedSeasons(tagged.view, s, season.number) \subseteq NumberedSeasons(b.view, s, season.number)
      BY <3>2, ExtendsNumbered
    <3> QED BY <2>2, <3>1, <3>3
  <2>16. b.full = TRUE \/ SeasonHeld(b.view, s, season)
    BY <2>10, <2>12, <2>15
  <2>17. ~(b.left = TRUE)
    BY <2>7, <2>9, <2>12
  <2> QED BY <2>12, <2>13, <2>16, <2>17 DEF b
<1> QED BY <1>3, <1>4, <1>5, <1>6

LEMMA EveryPayloadSeason ==
  ASSUME IsView(db), Sound(db), NEW before, TmdbAcc(before), NEW s \in Existing(before.view, "series"),
         NEW payload, IsPayload(payload), NEW late, NEW room, IsRoom(room)
  PROVE  \A n \in 0..Len(payload) : LET b == PayloadTurns(before, s, payload, db, late, room)[n] IN
           /\ TmdbAcc(b) /\ TmdbLater(before, b)
           /\ b.left = TRUE => s \in b.hurt
           /\ b.full = TRUE \/ s \in b.hurt \/ \A k \in 1..n : SeasonHeld(b.view, s, payload[k])
<1> DEFINE N == Len(payload)
           t == PayloadTurns(before, s, payload, db, late, room)
           OK(n, b) == /\ TmdbAcc(b) /\ TmdbLater(before, b)
                       /\ b.left = TRUE => s \in b.hurt
                       /\ b.full = TRUE \/ s \in b.hurt \/ \A k \in 1..n : SeasonHeld(b.view, s, payload[k])
           S == {n \in 0..N : OK(n, t[n])}
<1>0. N \in Nat /\ \A k \in 1..N : /\ payload[k].number # Null /\ Len(payload[k].episodes) \in Nat
                                   /\ \A n \in 1..Len(payload[k].episodes) : payload[k].episodes[n].number # Null
  BY DEF IsPayload
<1>1. /\ t[0] = [before EXCEPT !.left = FALSE]
      /\ \A n \in 1..N : t[n] = TmdbSeason(t[n - 1], s, payload[n], db, late, room)
  BY <1>0, PayloadTurnsAre
<1> HIDE DEF t, N
<1>2. 0 \in S
  <2> DEFINE b == t[0]
  <2>1. Tmdb5(b) /\ b.view = before.view /\ b.left = FALSE /\ b.hurt = before.hurt /\ b.full = before.full
    BY <1>1 DEF TmdbAcc, Tmdb5
  <2> HIDE DEF b
  <2>2. TmdbAcc(b)
    BY <2>1, TmdbAccSame
  <2>3. TmdbLater(before, b)
    BY <2>1, TmdbLaterItself
  <2>4. \A k \in 1..0 : SeasonHeld(b.view, s, payload[k])
    OBVIOUS
  <2>5. OK(0, b)
    BY <2>1, <2>2, <2>3, <2>4
  <2> QED BY <1>0, <2>5 DEF b
<1>3. ASSUME NEW n \in 1..N, n - 1 \in S
      PROVE  n \in S
  <2> DEFINE acc == t[n - 1]  season == payload[n]  b == TmdbSeason(acc, s, season, db, late, room)
  <2>0. n - 1 \in 0..N /\ n \in 0..N /\ \A k \in 1..n : k = n \/ k \in 1..(n - 1)
    BY <1>0
  <2>1. OK(n - 1, acc)
    BY <1>3
  <2>2. season.number # Null /\ Len(season.episodes) \in Nat /\ \A k \in 1..Len(season.episodes) : season.episodes[k].number # Null
    BY <1>0
  <2>3. t[n] = b
    BY <1>1
  <2> HIDE DEF acc
  <2>4. s \in Existing(acc.view, "series") /\ Sound(acc.view)
    <3>1. Extends("tmdb", before.view, acc.view)
      BY <2>1 DEF TmdbLater
    <3> QED BY <3>1, ExtendsExisting, TablesAre DEF Extends
  <2>5. /\ TmdbAcc(b) /\ TmdbLater(acc, b)
        /\ b.left = TRUE => s \in b.hurt
        /\ b.full = TRUE \/ s \in b.hurt \/ SeasonHeld(b.view, s, season)
    <3>1. TmdbAcc(acc) /\ (acc.left = TRUE => s \in acc.hurt)
      BY <2>1
    <3> HIDE DEF season
    <3> QED BY <2>2, <2>4, <3>1, TmdbSeasonKeeps
  <2> HIDE DEF b
  <2>6. TmdbLater(before, b)
    BY <2>1, <2>5, TmdbLaterAgain
  <2>7. Extends("tmdb", acc.view, b.view) /\ acc.hurt \subseteq b.hurt /\ (acc.full = TRUE => b.full = TRUE)
    BY <2>5 DEF TmdbLater
  <2>8. \A k \in 1..(n - 1) : SeasonHeld(acc.view, s, payload[k]) => SeasonHeld(b.view, s, payload[k])
    BY <2>4, <2>7, SeasonHeldStays
  <2>9. acc.full = TRUE \/ s \in acc.hurt \/ \A k \in 1..(n - 1) : SeasonHeld(acc.view, s, payload[k])
    BY <2>1
  <2>11. b.full = TRUE \/ s \in b.hurt \/ \A k \in 1..n : SeasonHeld(b.view, s, payload[k])
    BY <2>0, <2>5, <2>7, <2>8, <2>9
  <2>10. OK(n, b)
    BY <2>5, <2>6, <2>11
  <2> QED BY <2>0, <2>3, <2>10
<1> HIDE DEF S
<1>4. \A n \in 0..N : n \in S
  BY <1>0, <1>2, <1>3, EveryTurn
<1> QED BY <1>4 DEF S, t, N

\* The payload is there as far as the numbers go.
PayloadHeld(w, s, payload) == \A k \in 1..Len(payload) : SeasonHeld(w, s, payload[k])

LEMMA TmdbSeriesKeeps ==
  ASSUME IsView(db), Sound(db), NEW before, TmdbAcc(before), NEW s \in Existing(before.view, "series"),
         NEW payload, payload # NoPayload => IsPayload(payload), NEW late, NEW room, IsRoom(room)
  PROVE  LET b == TmdbSeries(before, s, payload, db, late, room) IN
         /\ TmdbAcc(b) /\ TmdbLater(before, b)
         /\ b.full = TRUE \/ s \in b.hurt \/ payload = NoPayload \/ PayloadHeld(b.view, s, payload)
<1>1. CASE payload = NoPayload
  <2>1. TmdbLater(before, before)
    BY TmdbLaterItself
  <2> QED BY <1>1, <2>1 DEF TmdbSeries
<1>2. CASE payload # NoPayload
  <2> DEFINE N == Len(payload)
             t == PayloadTurns(before, s, payload, db, late, room)
  <2>1. N \in 0..N
    BY <1>2 DEF IsPayload
  <2>2. \A n \in 0..N : 
           /\ TmdbAcc(t[n]) /\ TmdbLater(before, t[n])
           /\ t[n].left = TRUE => s \in t[n].hurt
           /\ t[n].full = TRUE \/ s \in t[n].hurt \/ \A k \in 1..n : SeasonHeld(t[n].view, s, payload[k])
    BY <1>2, EveryPayloadSeason
  <2>3. TmdbSeries(before, s, payload, db, late, room) = t[N]
    BY <1>2 DEF TmdbSeries
  <2> HIDE DEF t
  <2>4. /\ TmdbAcc(t[N]) /\ TmdbLater(before, t[N])
        /\ t[N].full = TRUE \/ s \in t[N].hurt \/ PayloadHeld(t[N].view, s, payload)
    BY <2>1, <2>2 DEF PayloadHeld
  <2> QED BY <2>3, <2>4
<1> QED BY <1>1, <1>2

LEMMA EveryTmdbSeries ==
  ASSUME IsView(db), Sound(db), NEW payload, NEW order, NEW late, NEW room, IsRoom(room),
         Len(order) \in Nat,
         \A n \in 1..Len(order) : /\ order[n] \in Existing(db, "series")
                                  /\ payload[order[n]] # NoPayload => IsPayload(payload[order[n]])
  PROVE  \A n \in 0..Len(order) : LET b == TmdbTurns(db, payload, order, late, room)[n] IN
           /\ TmdbAcc(b)
           /\ b.full = TRUE \/ \A k \in 1..n : LET s == order[k] IN
                s \in b.hurt \/ payload[s] = NoPayload \/ PayloadHeld(b.view, s, payload[s])
<1> DEFINE N == Len(order)
           t == TmdbTurns(db, payload, order, late, room)
           Done(b, s) == s \in b.hurt \/ payload[s] = NoPayload \/ PayloadHeld(b.view, s, payload[s])
           OK(n, b) == TmdbAcc(b) /\ (b.full = TRUE \/ \A k \in 1..n : Done(b, order[k]))
           S == {n \in 0..N : OK(n, t[n])}
<1>0. N \in Nat /\ \A n \in 1..N : order[n] \in Existing(db, "series")
  OBVIOUS
<1>5. \A n \in 1..N : payload[order[n]] # NoPayload => IsPayload(payload[order[n]])
  OBVIOUS
<1>1. /\ t[0] = [view |-> db, full |-> FALSE, new |-> 0, left |-> FALSE, hurt |-> {}]
      /\ \A n \in 1..N : t[n] = TmdbSeries(t[n - 1], order[n], payload[order[n]], db, late, room)
  BY <1>0, TmdbTurnsAre
<1> HIDE DEF t, N
<1>2. 0 \in S
  <2> DEFINE b == t[0]
  <2>1. DOMAIN b = {"view", "full", "new", "left", "hurt"} /\ b.view = db
    BY <1>1
  <2> HIDE DEF b
  <2>2. Grown("tmdb", db, b) /\ Tmdb5(b)
    BY <2>1, ExtendsItself DEF Grown, IsAcc, Tmdb5
  <2>3. TmdbAcc(b)
    BY <2>1, <2>2, AloneItself DEF TmdbAcc, OtherColumns
  <2>4. OK(0, b)
    BY <2>3
  <2> QED BY <1>0, <2>4 DEF b
<1>3. ASSUME NEW n \in 1..N, n - 1 \in S
      PROVE  n \in S
  <2> DEFINE acc == t[n - 1]  s == order[n]  x == payload[s]  b == TmdbSeries(acc, s, x, db, late, room)
  <2>0. n - 1 \in 0..N /\ n \in 0..N /\ \A k \in 1..n : k = n \/ k \in 1..(n - 1)
    BY <1>0
  <2>1. OK(n - 1, acc)
    BY <1>3
  <2>2. s \in Existing(db, "series") /\ (x # NoPayload => IsPayload(x))
    <3>1. s \in Existing(db, "series")
      BY <1>0
    <3>2. x # NoPayload => IsPayload(x)
      BY <1>5
    <3> QED BY <3>1, <3>2
  <2>3. t[n] = b
    BY <1>1
  <2>4. s \in Existing(acc.view, "series") /\ Sound(acc.view)
    <3> HIDE DEF acc, s
    <3>1. Extends("tmdb", db, acc.view)
      BY <2>1 DEF TmdbAcc, Grown
    <3> QED BY <2>2, <3>1, ExtendsExisting, TablesAre DEF Extends
  <2> HIDE DEF acc
  <2>5. /\ TmdbAcc(b) /\ TmdbLater(acc, b)
        /\ b.full = TRUE \/ Done(b, s)
    <3>1. TmdbAcc(acc)
      BY <2>1
    <3> HIDE DEF s, x
    <3>2. /\ TmdbAcc(b) /\ TmdbLater(acc, b)
          /\ b.full = TRUE \/ s \in b.hurt \/ x = NoPayload \/ PayloadHeld(b.view, s, x)
      BY <2>2, <2>4, <3>1, TmdbSeriesKeeps
    <3> QED BY <3>2 DEF x
  <2> HIDE DEF b
  <2>7. Extends("tmdb", acc.view, b.view) /\ acc.hurt \subseteq b.hurt /\ (acc.full = TRUE => b.full = TRUE)
    BY <2>5 DEF TmdbLater
  <2>8. \A q : Done(acc, q) => Done(b, q)
    <3>1. ASSUME NEW q, PayloadHeld(acc.view, q, payload[q]) PROVE PayloadHeld(b.view, q, payload[q])
      <4> DEFINE P == payload[q]
      <4>1. PayloadHeld(acc.view, q, P)
        BY <3>1
      <4> HIDE DEF P
      <4>2. PayloadHeld(b.view, q, P)
        BY <2>4, <2>7, <4>1, SeasonHeldStays DEF PayloadHeld
      <4> QED BY <4>2 DEF P
    <3> QED BY <2>7, <3>1
  <2>9. OK(n, b)
    <3>1. acc.full = TRUE \/ \A k \in 1..(n - 1) : Done(acc, order[k])
      BY <2>1
    <3> HIDE DEF Done
    <3>2. b.full = TRUE \/ \A k \in 1..n : Done(b, order[k])
      BY <2>0, <2>5, <2>7, <2>8, <3>1
    <3> QED BY <2>5, <3>2
  <2> QED BY <2>0, <2>3, <2>9
<1> HIDE DEF S
<1>4. \A n \in 0..N : n \in S
  BY <1>0, <1>2, <1>3, EveryTurn
<1> QED BY <1>4 DEF S, t, N

\* What the job comes to.
LEMMA TmdbOutcomeIs ==
  ASSUME IsView(db), Sound(db), NEW payload \in TmdbAnswers(db),
         NEW order \in SetToSeqs(Named(db)), NEW late, NEW room, IsRoom(room)
  PROVE  LET acc == TmdbOutcome(db, payload, order, late, room) IN
         /\ TmdbAcc(acc)
         /\ acc.full = TRUE \/ \A s \in Named(db) :
              s \in acc.hurt \/ payload[s] = NoPayload \/ (IsPayload(payload[s]) /\ PayloadHeld(acc.view, s, payload[s]))
<1> DEFINE N == Len(order)
           t == TmdbTurns(db, payload, order, late, room)
<1>1. /\ N \in Nat
      /\ \A n \in 1..N : order[n] \in Named(db)
      /\ Named(db) \subseteq Existing(db, "series")
      /\ \A s \in Named(db) : \E n \in 1..N : order[n] = s
  BY NamedAre DEF Enumerates
<1>5. \A s \in Named(db) : payload[s] # NoPayload => IsPayload(payload[s])
  BY PayloadsAre
<1>2. \A n \in 1..N : /\ order[n] \in Existing(db, "series")
                      /\ payload[order[n]] # NoPayload => IsPayload(payload[order[n]])
  BY <1>1, <1>5
<1> DEFINE Good(n, b) ==
             /\ TmdbAcc(b)
             /\ b.full = TRUE \/ \A k \in 1..n : LET s == order[k] IN
                  s \in b.hurt \/ payload[s] = NoPayload \/ PayloadHeld(b.view, s, payload[s])
           S == {n \in 0..N : Good(n, t[n])}
<1>3. \A n \in 0..N : n \in S
  <2>1. \A n \in 0..N : Good(n, t[n])
    BY <1>1, <1>2, EveryTmdbSeries
  <2> QED BY <2>1
<1>4. N \in 0..N /\ TmdbOutcome(db, payload, order, late, room) = t[N]
  BY <1>1 DEF TmdbOutcome
<1> HIDE DEF t, N
<1> DEFINE acc == t[N]
<1>6. TmdbAcc(acc) /\ (acc.full = TRUE \/ \A k \in 1..N :
                order[k] \in acc.hurt \/ payload[order[k]] = NoPayload \/ PayloadHeld(acc.view, order[k], payload[order[k]]))
  <2>1. N \in S
    BY <1>3, <1>4
  <2> QED BY <2>1
<1> HIDE DEF acc
<1>7. acc.full = TRUE \/ \A s \in Named(db) :
        s \in acc.hurt \/ payload[s] = NoPayload \/ (IsPayload(payload[s]) /\ PayloadHeld(acc.view, s, payload[s]))
  BY <1>1, <1>5, <1>6
<1> QED BY <1>4, <1>6, <1>7 DEF acc

-----------------------------------------------------------------------------
(* What a step may create.                                                  *)

\* What r has before it once it has stepped.
After(r) == Overlay(db', IF run'[r] = NoRun THEN Nothing ELSE run'[r].mine)

\* Is r at an answer that has an id twice?
AtTwice(r) == run[r].at = "episodes" /\ ListsTwice(run[r].item.episodes)

CreatesMissing(r, after) ==
  /\ AloneIn(View(r), after)
  /\ run[r].kind # "sonarr" /\ ~AtTwice(r) => MissedIn(View(r), after)

\* Tables without a row that the view lacks.
LEMMA CreatesNothing ==
  ASSUME NEW r, NEW w, \A t \in Tables : Existing(w, t) \subseteq Existing(View(r), t)
  PROVE  CreatesMissing(r, w)
<1>1. Existing(w, "seasons") \subseteq Existing(View(r), "seasons")
      /\ Existing(w, "episodes") \subseteq Existing(View(r), "episodes")
  BY DEF Tables
<1> QED BY <1>1 DEF CreatesMissing, AloneIn, MissedIn

\* CreatesMissing, spelled out as the property has it.
LEMMA CreatesAre ==
  ASSUME NEW r, CreatesMissing(r, After(r))
  PROVE  LET before == View(r)
             after == Overlay(db', IF run'[r] = NoRun THEN Nothing ELSE run'[r].mine)
             new(t) == Existing(after, t) \ Existing(before, t)
             twice == run[r].at = "episodes" /\ ListsTwice(run[r].item.episodes)
         IN  /\ new("seasons") \cap TwinSeasons(after) = {}
             /\ run[r].kind # "sonarr" /\ ~twice => \A i \in new("episodes") :
                  NumberedEpisodes(before, after.episodes[i].season, after.episodes[i].number) = {}
<1> DEFINE w == After(r)
<1>1. AloneIn(View(r), w) /\ (run[r].kind # "sonarr" /\ ~AtTwice(r) => MissedIn(View(r), w))
  BY DEF CreatesMissing
<1>2. (Existing(w, "seasons") \ Existing(View(r), "seasons")) \cap TwinSeasons(w) = {}
  BY <1>1 DEF AloneIn, TwinSeasons
<1>3. run[r].kind # "sonarr" /\ ~AtTwice(r) => \A i \in Existing(w, "episodes") \ Existing(View(r), "episodes") :
        NumberedEpisodes(View(r), w.episodes[i].season, w.episodes[i].number) = {}
  BY <1>1 DEF MissedIn
<1> QED BY <1>2, <1>3 DEF After, AtTwice

\* A step of q that leaves the tables alone.
LEMMA LocalCreates ==
  ASSUME SeriesInv, NEW q \in Runs, NEW y, run' = [run EXCEPT ![q] = y], db' = db,
         y = NoRun \/ (Live(q) => CreatesMissing(q, Overlay(db, y.mine)))
  PROVE  \A r \in Runs : Steps(r) => CreatesMissing(r, After(r))
<1> SUFFICES ASSUME NEW r \in Runs, Steps(r)
             PROVE  CreatesMissing(r, After(r))
  OBVIOUS
<1>1. r = q
  BY DEF Steps
<1>2. run'[r] = y
  BY <1>1 DEF SeriesInv
<1>3. CASE y = NoRun
  <2>1. After(r) = db
    BY <1>2, <1>3, OverlayNothing DEF After, SeriesInv
  <2>2. \A t \in Tables : Existing(db, t) \subseteq Existing(View(r), t)
    BY CoversOverlay, CoversExisting DEF View
  <2> QED BY <2>1, <2>2, CreatesNothing
<1>4. CASE y # NoRun
  BY <1>1, <1>2, <1>4 DEF After, Steps
<1> QED BY <1>3, <1>4

\* A commit of q, after which it goes on with a run that has changed nothing.
LEMMA CommitCreates ==
  ASSUME SeriesInv, NEW q \in Runs, NEW y, run' = Committed(q, y), IsView(db'),
         y = NoRun \/ y.mine = Nothing,
         ~run[q].raced => CreatesMissing(q, db')
  PROVE  \A r \in Runs : Steps(r) => CreatesMissing(r, After(r))
<1> SUFFICES ASSUME NEW r \in Runs, Steps(r)
             PROVE  CreatesMissing(r, After(r))
  OBVIOUS
<1>1. r = q
  BY OthersDoNotStep
<1>2. run'[r] = y
  BY <1>1 DEF Committed
<1>3. After(r) = db'
  BY <1>2, OverlayNothing DEF After
<1> QED BY <1>1, <1>3 DEF Steps

\* What each step of a job creates was missing.
LEMMA ImportSkipsCreates ==
  ASSUME SeriesInv, NEW r \in Runs, NEW item, ImportSkips(r, item)
  PROVE  CreatesMissing(r, Overlay(db, ItemDone(r, item, View(r)).mine))
<1>1. ImportRun(run[r], db) /\ IsView(View(r)) /\ Sound(View(r))
  BY ImportIs DEF ImportSkips, NextItem
<1>2. Overlay(db, ItemDone(r, item, View(r)).mine) = View(r)
  BY <1>1, ExtendsItself, ItemDoneIs DEF ImportSkips, NextItem
<1> QED BY <1>2, CreatesNothing

LEMMA SeriesCreates ==
  ASSUME SeriesInv, NEW r \in Runs, At(r, "listed") \/ At(r, "series"), NEW item, NEW late, NEW s, NEW filled, NEW after, NEW seasons,
         SeriesImported(r, item, late, s, filled, after, seasons)
  PROVE  CreatesMissing(r, Overlay(db, Changes(db, after.view)))
<1> DEFINE v == View(r)
           kind == run[r].kind
           numbers == IF kind = "sonarr" /\ item.ids.sonarr # Null THEN item.seasons ELSE {}
           room == [t \in Tables |-> Room(r, t)]
           w == after.view
<1>1. ImportRun(run[r], db) /\ IsView(v) /\ Sound(v) /\ IsView(db)
  BY ImportIs DEF SeriesInv
<1>2. Overlay(db, Changes(db, w)) = w
  <2>1. Extends(kind, Overlay(db, run[r].mine), w)
    BY DEF SeriesImported, View
  <2> HIDE DEF w
  <2> QED BY <1>1, <2>1, ImportNow
<1>3. /\ filled = FilledSeries(v, kind, s, item.ids) /\ s \in Slots["series"] /\ kind \in ImportKinds
      /\ s \in Existing(v, "series") \/ ~Nameless(kind, item.ids)
      /\ after = AddedSeasons(filled, s, numbers, late, room)
      /\ IsItem(item)
  BY DEF SeriesImported
<1>4. IsFiniteSet(numbers) /\ Null \notin numbers
  BY <1>3, FS_EmptySet DEF IsItem
<1>5. IsRoom(room)
  BY RoomIs
<1> HIDE DEF v, room, numbers, w
<1>6. /\ Extends(kind, v, filled) /\ s \in Existing(filled, "series")
      /\ \A t \in Tables : \A j \in Slots[t] : t # "series" \/ j # s => filled[t][j] = v[t][j]
  BY <1>1, <1>3, FilledSeriesGrows
<1>7. IsView(filled) /\ Sound(filled)
  BY <1>6 DEF Extends
<1>8. SameSeasons(v, filled) /\ SameEpisodes(v, filled)
  BY <1>6 DEF SameSeasons, SameEpisodes, Existing, Exists, Tables
<1>9. AloneIn(filled, w) /\ SameEpisodes(filled, w)
  BY <1>3, <1>4, <1>5, <1>6, <1>7, AddedSeasonsAlone DEF w
<1>10. AloneIn(v, w)
  BY <1>8, <1>9 DEF AloneIn, SameSeasons
<1>11. MissedIn(v, w)
  BY <1>8, <1>9 DEF MissedIn, SameEpisodes
<1> QED BY <1>2, <1>10, <1>11 DEF CreatesMissing, v, w

LEMMA EpisodesCreate ==
  ASSUME SeriesInv, NEW r \in Runs, At(r, "episodes"), NEW late, ~EpisodesImported(r, late).full
  PROVE  CreatesMissing(r, EpisodesImported(r, late).view)
<1> DEFINE v == View(r)
           x == run[r]
           room == [t \in Tables |-> Room(r, t)]
           eps == x.item.episodes
           w == EpisodesImported(r, late).view
<1>1. ImportRun(x, db) /\ IsView(v) /\ Sound(v) /\ x.at = "episodes"
  BY ImportIs DEF At
<1>2. /\ x.kind \in ImportKinds /\ x.item \in Items[x.kind]
      /\ x.series \in Existing(v, "series") /\ IsSeasons(v, x.seasons)
  BY <1>1 DEF ImportRun, View
<1>3. IsItem(x.item)
  BY <1>2, ItemsAre
<1>4. IsRoom(room)
  BY RoomIs
<1>5. /\ Len(eps) \in Nat /\ DOMAIN eps = 1..Len(eps)
      /\ \A n \in 1..Len(eps) : eps[n].number # Null /\ eps[n].season # Null /\ eps[n].id # Null
  BY <1>3 DEF IsItem
<1>6. CASE x.kind = "sonarr"
  <2> DEFINE acc == AfterSonarr(v, x.seasons, eps, room)
  <2>1. EpisodesImported(r, late) = acc
    BY <1>6 DEF EpisodesImported
  <2> HIDE DEF v, room, eps, x
  <2>2. SameSeasons(v, acc.view)
    BY <1>1, <1>2, <1>4, <1>5, SonarrSameSeasons
  <2>3. AloneIn(v, acc.view)
    BY <2>2, AloneItself, AloneStays
  <2> QED BY <1>6, <2>1, <2>3 DEF CreatesMissing, v, x
<1>7. CASE x.kind = "jellyfin"
  <2> DEFINE acc == AfterJellyfin(v, x.series, eps, late, room)
  <2>1. EpisodesImported(r, late) = acc
    BY <1>7 DEF EpisodesImported
  <2>2. ~AtTwice(r) => \A m, n \in 1..Len(eps) : eps[m].id = eps[n].id => m = n
    BY <1>1, <1>5 DEF AtTwice, ListsTwice
  <2> HIDE DEF v, room, eps, x
  <2>3. /\ AloneIn(v, acc.view)
        /\ (\A m, n \in 1..Len(eps) : eps[m].id = eps[n].id => m = n) => MissedIn(v, acc.view)
    BY <1>1, <1>2, <1>4, <1>5, <2>1, JellyfinCreates
  <2> QED BY <2>1, <2>2, <2>3 DEF CreatesMissing, v
<1> QED BY <1>2, <1>6, <1>7 DEF ImportKinds

LEMMA EpisodesDoneIs ==
  ASSUME SeriesInv, NEW r \in Runs, At(r, "episodes"), NEW late, ~EpisodesImported(r, late).full
  PROVE  CreatesMissing(r, Overlay(db, ItemDone(r, run[r].item, EpisodesImported(r, late).view).mine))
<1> DEFINE w == EpisodesImported(r, late).view
<1>1. Extends(run[r].kind, View(r), w)
  BY EpisodesImportedGrow DEF Grown
<1>2. CreatesMissing(r, w)
  BY EpisodesCreate
<1> HIDE DEF w
<1>3. Overlay(db, ItemDone(r, run[r].item, w).mine) = w
  BY <1>1, ItemDoneIs
<1> QED BY <1>2, <1>3 DEF w

LEMMA TmdbCommitCreates ==
  ASSUME SeriesInv, NEW r \in Runs, TmdbCommits(r)
  PROVE  IsView(db') /\ (~run[r].raced => CreatesMissing(r, db'))
<1> DEFINE seen == run[r].seen
           room == [t \in Tables |-> Room(r, t)]
<1>1. PICK payload \in TmdbAnswers(seen), order \in SetToSeqs(Named(seen)), late \in Lates(seen) :
        db' = Flushed(TmdbOutcome(seen, payload, order, late, room), seen)
  BY DEF TmdbCommits, TmdbOutcomes
<1>2. TmdbRun(run[r], db) /\ IsView(seen) /\ Sound(seen)
  BY TmdbIs DEF TmdbCommits
<1>3. IsRoom(room)
  BY RoomIs
<1> DEFINE acc == TmdbOutcome(seen, payload, order, late, room)
<1> HIDE DEF room
<1>4. Extends("tmdb", seen, acc.view)
  BY <1>1, <1>2, <1>3, TmdbGrows DEF Grown
<1>5. db' = Overlay(db, Changes(seen, acc.view))
  BY <1>1 DEF Flushed
<1>6. ~run[r].raced => TmdbAcc(acc)
  <2>1. ~run[r].raced => seen = db
    BY <1>2 DEF TmdbRun, Past
  <2> QED BY <1>1, <1>2, <1>3, <2>1, TmdbOutcomeIs
<1> HIDE DEF acc
<1>7. Past(run[r], db) /\ run[r].mine = Nothing
  BY <1>2 DEF TmdbRun
<1>8. IsView(db') /\ (~run[r].raced => db' = acc.view)
  BY <1>4, <1>5, <1>7, WrittenIs DEF SeriesInv
<1>9. View(r) = db
  BY <1>7, OverlayNothing DEF View, SeriesInv
<1> QED BY <1>6, <1>8, <1>9 DEF CreatesMissing, TmdbAcc

LEMMA WatchCommitCreates ==
  ASSUME SeriesInv, NEW r \in Runs, WatchCommits(r)
  PROVE  IsView(db') /\ (~run[r].raced => CreatesMissing(r, db'))
<1>1. PICK p \in Passes(r) : db' = HealsWritten(r, PassOutcome(r, p))
  BY DEF WatchCommits
<1> DEFINE acc == PassOutcome(r, p)
           seen == run[r].seen
<1>2. RowsRun(run[r], db, watch) /\ Item5(seen, acc)
  BY PassIs DEF WatchCommits
<1> HIDE DEF acc
<1>3. Past(run[r], db) /\ run[r].mine = Nothing
  BY <1>2 DEF RowsRun, PassRun
<1>4. Extends("watch", seen, acc.view) /\ \A t \in Tables : Existing(acc.view, t) = Existing(seen, t)
  BY <1>2 DEF Item5
<1>5. db' = Overlay(db, Changes(seen, acc.view))
  BY <1>1 DEF HealsWritten, acc
<1>6. IsView(db') /\ (~run[r].raced => db' = acc.view /\ seen = db)
  BY <1>3, <1>4, <1>5, WrittenIs DEF SeriesInv, Past
<1>7. View(r) = db
  BY <1>3, OverlayNothing DEF View, SeriesInv
<1> QED BY <1>4, <1>6, <1>7, CreatesNothing

\* Every step creates only what is missing.
LEMMA StepsCreateMissing ==
  ASSUME SeriesInv, [Next]_vars
  PROVE  \A r \in Runs : Steps(r) => CreatesMissing(r, After(r))
<1> DEFINE Goal == \A r \in Runs : Steps(r) => CreatesMissing(r, After(r))
<1>1. ASSUME NEW q \in Runs, NEW y, run' = [run EXCEPT ![q] = y], db' = db,
             y = NoRun \/ (Live(q) => CreatesMissing(q, Overlay(db, y.mine)))
      PROVE  Goal
  BY <1>1, LocalCreates
<1>2. ASSUME NEW q \in Runs, NEW y, run' = [run EXCEPT ![q] = y], db' = db, y = NoRun \/ y.mine = Nothing
      PROVE  Goal
  <2>1. y = NoRun \/ Overlay(db, y.mine) = db
    BY <1>2, OverlayNothing DEF SeriesInv
  <2>2. \A t \in Tables : Existing(db, t) \subseteq Existing(View(q), t)
    BY CoversOverlay, CoversExisting DEF View
  <2>3. y = NoRun \/ CreatesMissing(q, Overlay(db, y.mine))
    BY <2>1, <2>2, CreatesNothing
  <2> QED BY <1>1, <1>2, <2>3
<1>3. ASSUME NEW q \in Runs, NEW left, NEW open, run' = [run EXCEPT ![q] = WithUsers(left, open)], db' = db
      PROVE  Goal
  <2>1. WithUsers(left, open) = NoRun \/ WithUsers(left, open).mine = Nothing
    BY DEF WithUsers
  <2> QED BY <1>2, <1>3, <2>1
<1>4. ASSUME NEW q \in Runs, NEW y, run' = Committed(q, y), y = NoRun \/ y.mine = Nothing,
             IsView(db') /\ (~run[q].raced => CreatesMissing(q, db'))
      PROVE  Goal
  BY <1>4, CommitCreates
<1> HIDE DEF Goal
<1>5. ASSUME NEW q \in Runs, NEW kind, StartImport(q, kind)
      PROVE  Goal
  <2> DEFINE y == [kind |-> kind, at |-> "listed", done |-> <<>>, mine |-> Nothing, raced |-> FALSE]
  <2>1. run' = [run EXCEPT ![q] = y] /\ db' = db /\ y.mine = Nothing
    BY <1>5 DEF StartImport
  <2> QED BY <1>2, <2>1
<1>6. ASSUME NEW q \in Runs, NEW item, ImportSkips(q, item)
      PROVE  Goal
  <2>1. CreatesMissing(q, Overlay(db, ItemDone(q, item, View(q)).mine))
    BY <1>6, ImportSkipsCreates
  <2>2. run' = [run EXCEPT ![q] = ItemDone(q, item, View(q))] /\ db' = db
    BY <1>6 DEF ImportSkips
  <2> QED BY <1>1, <2>1, <2>2
<1>7. ASSUME NEW q \in Runs, NEW item, ImportSeries(q, item)
      PROVE  Goal
  <2>1. PICK late, s, filled, after, seasons :
          /\ SeriesImported(q, item, late, s, filled, after, seasons)
          /\ run' = [run EXCEPT ![q] =
               [kind |-> run[q].kind, at |-> "episodes", done |-> run[q].done, item |-> item, series |-> s,
                seasons |-> seasons, mine |-> Changes(db, after.view), raced |-> run[q].raced]]
    BY <1>7, ImportSeriesIs
  <2> DEFINE y == [kind |-> run[q].kind, at |-> "episodes", done |-> run[q].done, item |-> item, series |-> s,
                   seasons |-> seasons, mine |-> Changes(db, after.view), raced |-> run[q].raced]
  <2>2. At(q, "listed") \/ At(q, "series")
    BY <1>7 DEF ImportSeries, NextItem
  <2>3. CreatesMissing(q, Overlay(db, Changes(db, after.view)))
    BY <2>1, <2>2, SeriesCreates
  <2>4. run' = [run EXCEPT ![q] = y] /\ db' = db /\ y.mine = Changes(db, after.view)
    BY <1>7, <2>1 DEF ImportSeries
  <2> QED BY <1>1, <2>3, <2>4
<1>8. ASSUME NEW q \in Runs, ImportEpisodes(q)
      PROVE  Goal
  <2>1. PICK late : /\ ~EpisodesImported(q, late).full
                    /\ run' = [run EXCEPT ![q] = ItemDone(q, run[q].item, EpisodesImported(q, late).view)]
    BY <1>8 DEF ImportEpisodes
  <2>2. CreatesMissing(q, Overlay(db, ItemDone(q, run[q].item, EpisodesImported(q, late).view).mine))
    BY <1>8, <2>1, EpisodesDoneIs DEF ImportEpisodes
  <2>3. db' = db
    BY <1>8 DEF ImportEpisodes
  <2> QED BY <1>1, <2>1, <2>2, <2>3
<1>9. ASSUME NEW q \in Runs, ImportCommits(q)
      PROVE  Goal
  <2>1. run' = Committed(q, NoRun) /\ db' = View(q)
    BY <1>9 DEF ImportCommits
  <2>2. IsView(db') /\ CreatesMissing(q, db')
    BY <2>1, CreatesNothing, OverlayIs DEF View
  <2> QED BY <1>4, <2>1, <2>2
<1>10. ASSUME NEW q \in Runs, ImportFails(q) \/ TmdbFails(q) \/ WatchFails(q)
       PROVE  Goal
  <2>1. run' = [run EXCEPT ![q] = NoRun] /\ db' = db
    BY <1>10 DEF ImportFails, TmdbFails, WatchFails
  <2> QED BY <1>2, <2>1
<1>11. ASSUME NEW q \in Runs, StartTmdb(q)
       PROVE  Goal
  <2> DEFINE y == [kind |-> "tmdb", at |-> "fetch", seen |-> db, mine |-> Nothing, raced |-> FALSE]
  <2>1. run' = [run EXCEPT ![q] = y] /\ db' = db /\ y.mine = Nothing
    BY <1>11 DEF StartTmdb
  <2> QED BY <1>2, <2>1
<1>12. ASSUME NEW q \in Runs, TmdbCommits(q)
       PROVE  Goal
  <2>1. run' = Committed(q, NoRun)
    BY <1>12 DEF TmdbCommits
  <2> QED BY <1>4, <1>12, <2>1, TmdbCommitCreates
<1>13. ASSUME NEW q \in Runs, StartWatch(q)
       PROVE  Goal
  BY <1>3, <1>13 DEF StartWatch
<1>14. ASSUME NEW q \in Runs, NEW u, ListsNothing(q, u)
       PROVE  Goal
  <2>1. run' = [run EXCEPT ![q] = WithUsers(run[q].left \ {u}, run[q].open)] /\ db' = db
    BY <1>14 DEF ListsNothing
  <2> QED BY <1>3, <2>1
<1>15. ASSUME NEW q \in Runs, NEW u, ReadsLibrary(q, u)
       PROVE  Goal
  <2> DEFINE y == [kind |-> "watch", at |-> "library", left |-> run[q].left \ {u}, user |-> u, seen |-> db,
                   mine |-> Nothing, raced |-> FALSE]
  <2>1. run' = [run EXCEPT ![q] = y] /\ db' = db /\ y.mine = Nothing
    BY <1>15 DEF ReadsLibrary
  <2> QED BY <1>2, <2>1
<1>16. ASSUME NEW q \in Runs, NEW u, ListingFails(q, u)
       PROVE  Goal
  <2>1. /\ run' = [run EXCEPT ![q] = IF run[q].open THEN NoRun ELSE WithUsers(run[q].left \ {u}, FALSE)]
        /\ db' = db
    BY <1>16 DEF ListingFails
  <2>2. CASE run[q].open
    BY <1>2, <2>1, <2>2
  <2>3. CASE ~run[q].open
    BY <1>3, <2>1, <2>3
  <2> QED BY <2>2, <2>3
<1>17. ASSUME NEW q \in Runs, ReadsRows(q)
       PROVE  Goal
  <2> DEFINE y == [kind |-> "watch", at |-> "rows", left |-> run[q].left, user |-> run[q].user, seen |-> run[q].seen,
                   loaded |-> watch[run[q].user], mine |-> Nothing, raced |-> run[q].raced]
  <2>1. run' = [run EXCEPT ![q] = y] /\ db' = db /\ y.mine = Nothing
    BY <1>17 DEF ReadsRows
  <2> QED BY <1>2, <2>1
<1>18. ASSUME NEW q \in Runs, WatchCommits(q)
       PROVE  Goal
  <2>1. run' = Committed(q, WithUsers(run[q].left, FALSE))
    BY <1>18 DEF WatchCommits
  <2>2. WithUsers(run[q].left, FALSE) = NoRun \/ WithUsers(run[q].left, FALSE).mine = Nothing
    BY DEF WithUsers
  <2> QED BY <1>4, <1>18, <2>1, <2>2, WatchCommitCreates
<1>19. CASE UNCHANGED vars
  BY <1>19 DEF vars, Goal, Steps
<1> QED
  BY <1>5, <1>6, <1>7, <1>8, <1>9, <1>10, <1>11, <1>12, <1>13, <1>14, <1>15, <1>16, <1>17, <1>18, <1>19 DEF Next, Goal

\* No job creates a season that the series has, and neither Jellyfin nor TMDB an
\* episode that it has, though they look for it each in its own way
\* (import_jellyfin_series_service.py:113, update_tmdb_series_metadata_service.py:288).
THEOREM MissingOnly == Spec => CreatesOnlyMissing
<1>1. SeriesInv /\ [Next]_vars =>
        [\A r \in Runs : Steps(r) =>
       LET before == View(r)
           after == Overlay(db', IF run'[r] = NoRun THEN Nothing ELSE run'[r].mine)
           new(t) == Existing(after, t) \ Existing(before, t)
           twice == run[r].at = "episodes" /\ ListsTwice(run[r].item.episodes)
       IN  /\ new("seasons") \cap TwinSeasons(after) = {}
           /\ run[r].kind # "sonarr" /\ ~twice => \A i \in new("episodes") :
                NumberedEpisodes(before, after.episodes[i].season, after.episodes[i].number) = {}]_vars
  BY StepsCreateMissing, CreatesAre
<1> QED BY <1>1, SeriesInvariance, PTL DEF Spec, CreatesOnlyMissing
=============================================================================
