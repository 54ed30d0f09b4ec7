-------------------------- MODULE MovieWatchesProofs --------------------------
(***************************************************************************)
(* Proofs about MovieWatches: the type invariant, that healing ids never   *)
(* trips the unique index, that a user keeps one row per movie, that a     *)
(* sync settles, that WATCHED rows stay, and that the rows mirror Jellyfin.*)
(*                                                                         *)
(* Most of it is about one pass over any number of items.  The argument:   *)
(* the loop is a recursive function; LeastNumber and LoopExists, from the  *)
(* well-foundedness of <, make it unfold and let facts about it be proved  *)
(* by induction on the turn; TurnInv is the loop's invariant, OutcomeIs    *)
(* what follows of a pass.  WatchInv is the inductive invariant of the     *)
(* state: what a run has read, and no commit has raced, still holds.       *)
(***************************************************************************)
EXTENDS MovieWatches, NaturalsInduction, WellFoundedInduction, TLAPS

-----------------------------------------------------------------------------
(* Loops.  The library's induction theorems are about operators; these are  *)
(* about sets of numbers and functions, which the provers can instantiate.  *)

LEMMA LeastNumber ==
  ASSUME NEW T, T \subseteq Nat, T # {}
  PROVE  \E n \in T : \A m \in T : n <= m
<1>1. IsWellFoundedOn(OpToRel(<, Nat), Nat)
  BY NatLessThanWellFounded
<1>2. PICK n \in T : \A m \in T : ~(<<m, n>> \in OpToRel(<, Nat))
  BY <1>1, WFMin
<1>3. ASSUME NEW m \in T
      PROVE  n <= m
  <2>1. m \in Nat /\ n \in Nat
    OBVIOUS
  <2>2. ~(m < n)
    BY <1>2, <2>1 DEF OpToRel
  <2> QED BY <2>1, <2>2
<1> QED BY <1>3

\* What holds before the first turn, and after a turn if before it, holds throughout.
LEMMA EveryTurn ==
  ASSUME NEW N \in Nat, NEW S, 0 \in S, \A n \in 1..N : n - 1 \in S => n \in S
  PROVE  \A n \in 0..N : n \in S
<1> DEFINE T == {n \in 0..N : n \notin S}
<1> SUFFICES ASSUME T # {} PROVE FALSE
  OBVIOUS
<1>1. PICK n \in T : \A m \in T : n <= m
  <2>1. T \subseteq Nat
    OBVIOUS
  <2> HIDE DEF T
  <2> QED BY <2>1, LeastNumber
<1>2. n \in 1..N /\ n - 1 \in 0..N
  BY <1>1
<1>3. n - 1 \in S
  BY <1>1, <1>2
<1> QED BY <1>1, <1>2, <1>3

\* f[n]: what there is after n turns, each of which is a step of the function F.
IsLoop(f, A, base, N, F) ==
  /\ f \in [0..N -> A]
  /\ f[0] = base
  /\ \A n \in 1..N : f[n] = F[<<f[n - 1], n>>]

LEMMA LoopExists ==
  ASSUME NEW A, NEW base \in A, NEW N \in Nat, NEW F \in [A \X (1..N) -> A]
  PROVE  \E f : IsLoop(f, A, base, N, F)
<1> DEFINE Loops(m) == {f \in [0..m -> A] : f[0] = base /\ \A n \in 1..m : f[n] = F[<<f[n - 1], n>>]}
           S == {m \in Nat : Loops(m) # {}}
<1>1. 0 \in S
  <2>1. [n \in 0..0 |-> base] \in Loops(0)
    OBVIOUS
  <2> QED BY <2>1
<1>2. ASSUME NEW n \in 1..N, n - 1 \in S
      PROVE  n \in S
  <2>1. PICK f \in [0..(n - 1) -> A] : f[0] = base /\ \A k \in 1..(n - 1) : f[k] = F[<<f[k - 1], k>>]
    BY <1>2
  <2> DEFINE g == [k \in 0..n |-> IF k < n THEN f[k] ELSE F[<<f[n - 1], n>>]]
  <2>2. F[<<f[n - 1], n>>] \in A
    OBVIOUS
  <2>3. g \in [0..n -> A]
    BY <2>2
  <2>4. g[0] = base
    BY <2>1
  <2>5. ASSUME NEW k \in 1..n
        PROVE  g[k] = F[<<g[k - 1], k>>]
    <3>1. CASE k < n
      BY <2>1, <3>1
    <3>2. CASE k = n
      <4>1. g[n] = F[<<f[n - 1], n>>] /\ g[n - 1] = f[n - 1]
        OBVIOUS
      <4> HIDE DEF g
      <4> QED BY <3>2, <4>1
    <3> QED BY <3>1, <3>2
  <2> HIDE DEF g
  <2>6. g \in Loops(n)
    BY <2>3, <2>4, <2>5
  <2> QED BY <2>6
<1>3. N \in S
  <2> HIDE DEF S
  <2>1. \A n \in 0..N : n \in S
    BY <1>1, <1>2, EveryTurn
  <2> QED BY <2>1
<1> QED BY <1>3 DEF IsLoop

-----------------------------------------------------------------------------
(* One turn of the loop over the items.                                     *)

StatusNames == Statuses \cup {Dropped}

Found == Movies \cup {NoMovie}

Acc == [ids : [Movies -> Ids \cup {NoId}], byId : [Ids -> Found], added : Seq(WatchRow),
        status : [Movies -> StatusNames]]

LEMMA TheMovieIs ==
  ASSUME NEW found \in SUBSET Movies
  PROVE  /\ found = {} => TheMovie(found) = NoMovie
         /\ found # {} => TheMovie(found) \in found
         /\ TheMovie(found) \in Found
BY DEF TheMovie, Found

LEMMA IndexIs ==
  ASSUME NEW ids
  PROVE  /\ IndexById(ids) \in [Ids -> Found]
         /\ \A x \in Ids : IndexById(ids)[x] # NoMovie => ids[IndexById(ids)[x]] = x
         /\ \A x \in Ids : IndexById(ids)[x] = NoMovie => \A m \in Movies : ids[m] # x
<1>1. \A x \in Ids : IndexById(ids)[x] = TheMovie({m \in Movies : ids[m] = x})
  BY DEF IndexById
<1>2. ASSUME NEW x \in Ids
      PROVE  /\ IndexById(ids)[x] \in Found
             /\ IndexById(ids)[x] # NoMovie => ids[IndexById(ids)[x]] = x
             /\ IndexById(ids)[x] = NoMovie => \A m \in Movies : ids[m] # x
  <2> DEFINE found == {m \in Movies : ids[m] = x}
  <2>1. /\ found = {} => TheMovie(found) = NoMovie
        /\ found # {} => TheMovie(found) \in found
        /\ TheMovie(found) \in Found
    <3>1. found \in SUBSET Movies
      OBVIOUS
    <3> HIDE DEF found
    <3> QED BY <3>1, TheMovieIs
  <2>2. IndexById(ids)[x] = TheMovie(found)
    BY <1>1
  <2>3. \A m \in found : m \in Movies /\ m # NoMovie /\ ids[m] = x
    BY MovieWatchesAssumption
  <2>4. found = {} => \A m \in Movies : ids[m] # x
    OBVIOUS
  <2> HIDE DEF found
  <2> QED BY <2>1, <2>2, <2>3, <2>4
<1> QED BY <1>2 DEF IndexById

LEMMA ResolveTyped ==
  ASSUME NEW item \in Item, NEW byId \in [Ids -> Found]
  PROVE  Resolve(item, byId) \in Found /\ ByTmdb(item) \in Found /\ ByImdb(item) \in Found
<1>1. ByTmdb(item) \in Found
  BY TheMovieIs DEF ByTmdb
<1>2. ByImdb(item) \in Found
  BY TheMovieIs DEF ByImdb
<1>3. byId[item.id] \in Found
  BY DEF Item
<1> QED BY <1>1, <1>2, <1>3 DEF Resolve

\* A turn for an item of movie m.
TurnOf(pick, acc, new, item, m) ==
  /\ new.ids = [acc.ids EXCEPT ![m] = item.id]
  /\ new.byId = [acc.byId EXCEPT ![item.id] = m]
  /\ new.status = [acc.status EXCEPT ![m] = IF pick[m] # 0 THEN item.status ELSE @]
  /\ new.added = IF pick[m] # 0 THEN acc.added
                 ELSE Append(acc.added, [media |-> m, status |-> item.status])

LEMMA ProcessedIs ==
  ASSUME NEW pick \in [Movies -> Nat], NEW acc \in Acc, NEW item \in Item,
         NEW m, m = Resolve(item, acc.byId)
  PROVE  /\ m \in Found
         /\ Processed(pick, acc, item) \in Acc
         /\ m = NoMovie => Processed(pick, acc, item) = acc
         /\ m # NoMovie => TurnOf(pick, acc, Processed(pick, acc, item), item, m)
<1>1. m \in Found
  BY ResolveTyped DEF Acc
<1>2. CASE m = NoMovie
  BY <1>1, <1>2 DEF Processed
<1>3. CASE m # NoMovie
  <2>1. m \in Movies
    BY <1>1, <1>3 DEF Found
  <2> DEFINE new == [ids |-> [acc.ids EXCEPT ![m] = item.id],
                     byId |-> [acc.byId EXCEPT ![item.id] = m],
                     status |-> [acc.status EXCEPT ![m] = IF pick[m] # 0 THEN item.status ELSE @],
                     added |-> IF pick[m] # 0 THEN acc.added
                               ELSE Append(acc.added, [media |-> m, status |-> item.status])]
  <2>2. Processed(pick, acc, item) = new
    BY <1>3 DEF Processed, Acc
  <2>3. item.id \in Ids /\ item.status \in Statuses
    BY DEF Item
  <2>4. new.ids \in [Movies -> Ids \cup {NoId}] /\ new.byId \in [Ids -> Found]
    BY <1>1, <2>1, <2>3 DEF Acc
  <2>5. new.status \in [Movies -> StatusNames]
    BY <2>1, <2>3 DEF Acc, StatusNames
  <2>6. new.added \in Seq(WatchRow)
    <3>1. [media |-> m, status |-> item.status] \in WatchRow
      BY <2>1, <2>3 DEF WatchRow
    <3> QED BY <3>1 DEF Acc
  <2>7. new \in Acc
    BY <2>4, <2>5, <2>6 DEF Acc
  <2> QED BY <1>1, <1>3, <2>2, <2>7 DEF TurnOf
<1> QED BY <1>2, <1>3

-----------------------------------------------------------------------------
(* The loop.                                                                *)

\* What a pass computes from, and a loop over it.
Pending(pick, loaded, ids, items) ==
  /\ pick \in Picks(loaded) /\ loaded \in Seq(WatchRow)
  /\ ids \in [Movies -> Ids \cup {NoId}]
  /\ items \in Seq(Item)

IsPass(t, pick, loaded, ids, items) ==
  /\ t \in [0..Len(items) -> Acc]
  /\ t[0] = BeforeItems(pick, loaded, ids)
  /\ \A n \in 1..Len(items) : t[n] = Processed(pick, t[n - 1], items[n])

LEMMA PicksAre ==
  ASSUME NEW loaded \in Seq(WatchRow), NEW pick \in Picks(loaded)
  PROVE  /\ pick \in [Movies -> Nat]
         /\ \A m \in Movies : pick[m] # 0 => pick[m] \in 1..Len(loaded) /\ loaded[pick[m]].media = m
         /\ \A m \in Movies : pick[m] = 0 => \A n \in 1..Len(loaded) : loaded[n].media # m
<1>1. pick \in [Movies -> 0..Len(loaded)] /\ Len(loaded) \in Nat /\ DOMAIN loaded = 1..Len(loaded)
  BY DEF Picks
<1>2. \A m \in Movies : IF pick[m] = 0 THEN \A n \in DOMAIN loaded : loaded[n].media # m
                                       ELSE loaded[pick[m]].media = m
  BY DEF Picks
<1> QED BY <1>1, <1>2

LEMMA ItemsAre ==
  ASSUME NEW items \in Seq(Item)
  PROVE  /\ Len(items) \in Nat
         /\ \A k \in 1..Len(items) :
              items[k] \in Item /\ items[k].id \in Ids /\ items[k].status \in Statuses
<1>1. \A k \in 1..Len(items) : items[k] \in Item
  OBVIOUS
<1> QED BY <1>1 DEF Item

LEMMA BeforeItemsIs ==
  ASSUME NEW loaded \in Seq(WatchRow), NEW pick \in Picks(loaded),
         NEW ids \in [Movies -> Ids \cup {NoId}]
  PROVE  /\ BeforeItems(pick, loaded, ids) \in Acc
         /\ BeforeItems(pick, loaded, ids).ids = ids
         /\ BeforeItems(pick, loaded, ids).byId = IndexById(ids)
         /\ BeforeItems(pick, loaded, ids).added = <<>>
         /\ \A m \in Movies : BeforeItems(pick, loaded, ids).status[m] =
              IF pick[m] = 0 THEN Dropped ELSE loaded[pick[m]].status
<1>1. [m \in Movies |-> IF pick[m] = 0 THEN Dropped ELSE loaded[pick[m]].status] \in [Movies -> StatusNames]
  <2>1. \A n \in 1..Len(loaded) : loaded[n].status \in StatusNames
    <3>1. \A n \in 1..Len(loaded) : loaded[n] \in WatchRow
      OBVIOUS
    <3> QED BY <3>1 DEF WatchRow, StatusNames
  <2>2. \A m \in Movies : pick[m] # 0 => pick[m] \in 1..Len(loaded)
    BY PicksAre
  <2> QED BY <2>1, <2>2 DEF StatusNames
<1>2. IndexById(ids) \in [Ids -> Found]
  BY IndexIs
<1>3. <<>> \in Seq(WatchRow)
  OBVIOUS
<1> QED BY <1>1, <1>2, <1>3 DEF BeforeItems, Acc

LEMMA TurnsAreAPass ==
  ASSUME NEW pick, NEW loaded, NEW ids, NEW items, Pending(pick, loaded, ids, items)
  PROVE  IsPass(Turns(pick, loaded, ids, items), pick, loaded, ids, items)
<1> DEFINE N == Len(items)
           base == BeforeItems(pick, loaded, ids)
           Body(f) == [n \in 0..N |-> IF n = 0 THEN base ELSE Processed(pick, f[n - 1], items[n])]
           F == [p \in Acc \X (1..N) |-> Processed(pick, p[1], items[p[2]])]
           t == Turns(pick, loaded, ids, items)
<1>1. pick \in [Movies -> Nat] /\ N \in Nat /\ \A n \in 1..N : items[n] \in Item
  BY PicksAre DEF Pending
<1>2. base \in Acc
  BY BeforeItemsIs DEF Pending
<1>3. t = CHOOSE f : f = Body(f)
  BY DEF Turns
<1> HIDE DEF N, base
<1>4. \A a \in Acc, n \in 1..N : Processed(pick, a, items[n]) \in Acc
  BY <1>1, ProcessedIs
<1>5. F \in [Acc \X (1..N) -> Acc]
  BY <1>4
<1> HIDE DEF F
<1>6. PICK f : IsLoop(f, Acc, base, N, F)
  BY <1>1, <1>2, <1>5, LoopExists
<1>7. ASSUME NEW n \in 1..N
      PROVE  f[n] = Processed(pick, f[n - 1], items[n])
  <2>1. f[n] = F[<<f[n - 1], n>>] /\ f[n - 1] \in Acc
    BY <1>1, <1>6 DEF IsLoop
  <2> QED BY <2>1 DEF F
<1>8. f = Body(f)
  BY <1>1, <1>6, <1>7 DEF IsLoop
<1>9. t = Body(t)
  <2> HIDE DEF Body, t
  <2> QED BY <1>3, <1>8
<1> HIDE DEF t
<1>10. DOMAIN t = 0..N /\ t[0] = base /\ \A n \in 1..N : t[n] = Processed(pick, t[n - 1], items[n])
  BY <1>1, <1>9
<1> DEFINE S == {n \in 0..N : t[n] \in Acc}
<1>11. 0 \in S /\ \A n \in 1..N : n - 1 \in S => n \in S
  BY <1>1, <1>2, <1>4, <1>10
<1> HIDE DEF S
<1>12. \A n \in 0..N : n \in S
  BY <1>1, <1>11, EveryTurn
<1>13. t \in [0..N -> Acc]
  <2>1. \A n \in 0..N : t[n] \in Acc
    BY <1>12 DEF S
  <2>2. t = [n \in 0..N |-> t[n]]
    BY <1>9, <1>10
  <2> QED BY <2>1, <2>2
<1> QED BY <1>10, <1>13 DEF IsPass, t, N, base

\* The movie of item k after n turns.
MovieOf(t, items, n, k) == t[n].byId[items[k].id]

\* Every healed id leads to its movie: no id has two.
Healed(t, n) == \A m \in Movies : t[n].ids[m] # NoId => t[n].byId[t[n].ids[m]] = m

\* What is resolved stays so, and what is not is not found by the other ids either.
Indexed(t, items, n) ==
  \A k \in 1..n : Resolve(items[k], t[n].byId) = MovieOf(t, items, n, k)

\* A status is what was read, or that of an item.
StatusFollows(t, pick, items, n) ==
  \A m \in Movies :
    /\ pick[m] = 0 => t[n].status[m] = Dropped
    /\ (\A k \in 1..n : MovieOf(t, items, n, k) # m) => t[n].status[m] = t[0].status[m]
    /\ pick[m] # 0 /\ (\E k \in 1..n : MovieOf(t, items, n, k) = m) =>
         \E k \in 1..n : MovieOf(t, items, n, k) = m /\ t[n].status[m] = items[k].status

\* An added row is that of an item whose movie had none.
AddedFollows(t, pick, items, n) ==
  \A a \in 1..Len(t[n].added) :
    /\ pick[t[n].added[a].media] = 0
    /\ \E k \in 1..n : MovieOf(t, items, n, k) = t[n].added[a].media

TurnInv(t, pick, items, n) ==
  Healed(t, n) /\ Indexed(t, items, n) /\ StatusFollows(t, pick, items, n)
    /\ AddedFollows(t, pick, items, n)

\* One turn, seen from the movies of the items.
LEMMA OneTurn ==
  ASSUME NEW t, NEW pick, NEW loaded, NEW ids, NEW items,
         Pending(pick, loaded, ids, items), IsPass(t, pick, loaded, ids, items),
         NEW n \in 1..Len(items), NEW m, m = Resolve(items[n], t[n - 1].byId)
  PROVE  /\ t[n - 1] \in Acc /\ t[n] \in Acc /\ items[n] \in Item /\ m \in Found
         /\ m = NoMovie => t[n] = t[n - 1]
         /\ m # NoMovie => m \in Movies /\ TurnOf(pick, t[n - 1], t[n], items[n], m)
         /\ \A x \in Ids : t[n - 1].byId[x] # NoMovie => t[n].byId[x] = t[n - 1].byId[x]
<1>1. t[n - 1] \in Acc /\ items[n] \in Item /\ t[n] = Processed(pick, t[n - 1], items[n])
  BY DEF IsPass, Pending
<1>2. pick \in [Movies -> Nat]
  BY PicksAre DEF Pending
<1>3. /\ m \in Found /\ t[n] \in Acc
      /\ m = NoMovie => t[n] = t[n - 1]
      /\ m # NoMovie => TurnOf(pick, t[n - 1], t[n], items[n], m)
  BY <1>1, <1>2, ProcessedIs
<1>4. m # NoMovie => m \in Movies
  BY <1>3 DEF Found
<1>5. ASSUME NEW x \in Ids, t[n - 1].byId[x] # NoMovie
      PROVE  t[n].byId[x] = t[n - 1].byId[x]
  <2>1. CASE m = NoMovie
    BY <1>3, <2>1
  <2>2. CASE m # NoMovie
    <3>1. x = items[n].id => m = t[n - 1].byId[x]
      BY <1>5 DEF Resolve
    <3>2. t[n].byId[x] = IF x = items[n].id THEN m ELSE t[n - 1].byId[x]
      BY <1>1, <1>3, <2>2 DEF Acc, TurnOf
    <3> QED BY <3>1, <3>2
  <2> QED BY <2>1, <2>2
<1> QED BY <1>1, <1>3, <1>4, <1>5

\* A turn finds the movie of its item; the earlier items keep theirs.
LEMMA OneTurnMovies ==
  ASSUME NEW t, NEW pick, NEW loaded, NEW ids, NEW items,
         Pending(pick, loaded, ids, items), IsPass(t, pick, loaded, ids, items),
         NEW n \in 1..Len(items), NEW m, m = Resolve(items[n], t[n - 1].byId),
         Indexed(t, items, n - 1)
  PROVE  /\ Indexed(t, items, n)
         /\ MovieOf(t, items, n, n) = m
         /\ \A k \in 1..(n - 1) :
              \/ MovieOf(t, items, n, k) = MovieOf(t, items, n - 1, k)
              \/ MovieOf(t, items, n - 1, k) = NoMovie /\ MovieOf(t, items, n, k) = m
<1>1. /\ t[n - 1] \in Acc /\ t[n] \in Acc /\ items[n] \in Item /\ m \in Found
      /\ m = NoMovie => t[n] = t[n - 1]
      /\ m # NoMovie => m \in Movies /\ TurnOf(pick, t[n - 1], t[n], items[n], m)
      /\ \A x \in Ids : t[n - 1].byId[x] # NoMovie => t[n].byId[x] = t[n - 1].byId[x]
  BY OneTurn
<1>2. Len(items) \in Nat /\ n \in Nat /\ \A k \in 1..n : items[k] \in Item /\ items[k].id \in Ids
  BY ItemsAre DEF Pending
<1>3. m = NoMovie => t[n - 1].byId[items[n].id] = NoMovie
  BY DEF Resolve
<1>4. \A x \in Ids : t[n].byId[x] = IF m # NoMovie /\ x = items[n].id THEN m ELSE t[n - 1].byId[x]
  BY <1>1 DEF TurnOf, Acc
<1>5. MovieOf(t, items, n, n) = m
  BY <1>2, <1>3, <1>4 DEF MovieOf
<1>6. ASSUME NEW k \in 1..(n - 1)
      PROVE  \/ MovieOf(t, items, n, k) = MovieOf(t, items, n - 1, k)
             \/ MovieOf(t, items, n - 1, k) = NoMovie /\ MovieOf(t, items, n, k) = m
  <2>1. items[k].id \in Ids
    BY <1>2
  <2> QED BY <1>1, <1>4, <2>1 DEF MovieOf
<1>7. ASSUME NEW k \in 1..n
      PROVE  Resolve(items[k], t[n].byId) = MovieOf(t, items, n, k)
  <2>1. CASE MovieOf(t, items, n, k) # NoMovie
    BY <2>1 DEF MovieOf, Resolve
  <2>2. CASE MovieOf(t, items, n, k) = NoMovie
    <3>1. Resolve(items[k], t[n - 1].byId) = NoMovie
      <4>1. CASE k = n
        BY <1>5, <2>2, <4>1
      <4>2. CASE k # n
        <5>1. k \in 1..(n - 1)
          BY <1>2, <4>2
        <5>2. MovieOf(t, items, n - 1, k) = NoMovie
          BY <1>6, <2>2, <5>1
        <5> QED BY <5>1, <5>2 DEF Indexed
      <4> QED BY <4>1, <4>2
    <3>2. t[n].byId[items[k].id] = NoMovie /\ t[n - 1].byId[items[k].id] = NoMovie
      BY <2>2, <3>1 DEF MovieOf, Resolve
    <3> QED BY <2>2, <3>1, <3>2 DEF Resolve
  <2> QED BY <2>1, <2>2
<1> QED BY <1>5, <1>6, <1>7 DEF Indexed

LEMMA TurnKeepsHealed ==
  ASSUME NEW t, NEW pick, NEW loaded, NEW ids, NEW items,
         Pending(pick, loaded, ids, items), IsPass(t, pick, loaded, ids, items),
         NEW n \in 1..Len(items), Healed(t, n - 1)
  PROVE  Healed(t, n)
<1> DEFINE m == Resolve(items[n], t[n - 1].byId)
<1>1. /\ t[n - 1] \in Acc /\ t[n] \in Acc /\ items[n] \in Item /\ m \in Found
      /\ m = NoMovie => t[n] = t[n - 1]
      /\ m # NoMovie => m \in Movies /\ TurnOf(pick, t[n - 1], t[n], items[n], m)
      /\ \A x \in Ids : t[n - 1].byId[x] # NoMovie => t[n].byId[x] = t[n - 1].byId[x]
  BY OneTurn
<1>2. CASE m = NoMovie
  BY <1>1, <1>2 DEF Healed
<1>3. ASSUME m # NoMovie, NEW k \in Movies, t[n].ids[k] # NoId
      PROVE  t[n].byId[t[n].ids[k]] = k
  <2>1. items[n].id \in Ids
    BY <1>1 DEF Item
  <2>2. CASE k = m
    BY <1>1, <1>3, <2>1, <2>2 DEF TurnOf, Acc
  <2>3. CASE k # m
    <3>1. t[n].ids[k] = t[n - 1].ids[k]
      BY <1>1, <1>3, <2>3 DEF TurnOf, Acc
    <3>2. t[n - 1].ids[k] \in Ids /\ t[n - 1].byId[t[n - 1].ids[k]] = k
      BY <1>1, <1>3, <3>1 DEF Healed, Acc
    <3> QED BY <1>1, <3>1, <3>2, MovieWatchesAssumption
  <2> QED BY <2>2, <2>3
<1> HIDE DEF m
<1> QED BY <1>2, <1>3 DEF Healed

LEMMA TurnKeepsStatus ==
  ASSUME NEW t, NEW pick, NEW loaded, NEW ids, NEW items,
         Pending(pick, loaded, ids, items), IsPass(t, pick, loaded, ids, items),
         NEW n \in 1..Len(items), Indexed(t, items, n - 1), StatusFollows(t, pick, items, n - 1)
  PROVE  StatusFollows(t, pick, items, n)
<1> DEFINE m == Resolve(items[n], t[n - 1].byId)
<1>1. /\ t[n - 1] \in Acc /\ t[n] \in Acc /\ items[n] \in Item /\ m \in Found
      /\ m = NoMovie => t[n] = t[n - 1]
      /\ m # NoMovie => m \in Movies /\ TurnOf(pick, t[n - 1], t[n], items[n], m)
  BY OneTurn
<1>2. /\ MovieOf(t, items, n, n) = m
      /\ \A k \in 1..(n - 1) :
           \/ MovieOf(t, items, n, k) = MovieOf(t, items, n - 1, k)
           \/ MovieOf(t, items, n - 1, k) = NoMovie /\ MovieOf(t, items, n, k) = m
  BY OneTurnMovies
<1>3. n \in Nat /\ n # 0
  BY DEF Pending
<1> HIDE DEF m
<1>4. ASSUME NEW k \in Movies
      PROVE  t[n].status[k] = IF k = m /\ pick[k] # 0 THEN items[n].status ELSE t[n - 1].status[k]
  <2>1. CASE m = NoMovie
    BY <1>1, <2>1, MovieWatchesAssumption
  <2>2. CASE m # NoMovie
    BY <1>1, <2>2 DEF TurnOf, Acc
  <2> QED BY <2>1, <2>2
<1>5. ASSUME NEW k \in Movies
      PROVE  /\ pick[k] = 0 => t[n].status[k] = Dropped
             /\ (\A i \in 1..n : MovieOf(t, items, n, i) # k) => t[n].status[k] = t[0].status[k]
             /\ pick[k] # 0 /\ (\E i \in 1..n : MovieOf(t, items, n, i) = k) =>
                  \E i \in 1..n : MovieOf(t, items, n, i) = k /\ t[n].status[k] = items[i].status
  <2>1. k # NoMovie
    BY MovieWatchesAssumption
  <2>2. pick[k] = 0 => t[n].status[k] = Dropped
    BY <1>4 DEF StatusFollows
  <2>3. ASSUME \A i \in 1..n : MovieOf(t, items, n, i) # k
        PROVE  t[n].status[k] = t[0].status[k]
    <3>1. k # m
      BY <1>2, <1>3, <2>3
    <3>2. \A i \in 1..(n - 1) : MovieOf(t, items, n - 1, i) # k
      BY <1>2, <1>3, <2>1, <2>3
    <3> QED BY <1>4, <3>1, <3>2 DEF StatusFollows
  <2>4. ASSUME pick[k] # 0, NEW i \in 1..n, MovieOf(t, items, n, i) = k
        PROVE  \E j \in 1..n : MovieOf(t, items, n, j) = k /\ t[n].status[k] = items[j].status
    <3>1. CASE k = m
      <4>1. n \in 1..n
        BY <1>3
      <4> QED BY <1>2, <1>4, <2>4, <3>1, <4>1
    <3>2. CASE k # m
      <4>1. i \in 1..(n - 1) /\ MovieOf(t, items, n - 1, i) = k
        BY <1>2, <1>3, <2>4, <3>2
      <4>2. PICK j \in 1..(n - 1) : MovieOf(t, items, n - 1, j) = k /\ t[n - 1].status[k] = items[j].status
        BY <2>4, <4>1 DEF StatusFollows
      <4>3. j \in 1..n /\ MovieOf(t, items, n, j) = k
        BY <1>2, <1>3, <2>1, <4>2
      <4> QED BY <1>4, <3>2, <4>2, <4>3
    <3> QED BY <3>1, <3>2
  <2> QED BY <2>2, <2>3, <2>4
<1> QED BY <1>5 DEF StatusFollows

LEMMA TurnKeepsAdded ==
  ASSUME NEW t, NEW pick, NEW loaded, NEW ids, NEW items,
         Pending(pick, loaded, ids, items), IsPass(t, pick, loaded, ids, items),
         NEW n \in 1..Len(items), Indexed(t, items, n - 1), AddedFollows(t, pick, items, n - 1)
  PROVE  AddedFollows(t, pick, items, n)
<1> DEFINE m == Resolve(items[n], t[n - 1].byId)
<1>1. /\ t[n - 1] \in Acc /\ t[n] \in Acc /\ items[n] \in Item /\ m \in Found
      /\ m = NoMovie => t[n] = t[n - 1]
      /\ m # NoMovie => m \in Movies /\ TurnOf(pick, t[n - 1], t[n], items[n], m)
  BY OneTurn
<1>2. /\ MovieOf(t, items, n, n) = m
      /\ \A k \in 1..(n - 1) :
           \/ MovieOf(t, items, n, k) = MovieOf(t, items, n - 1, k)
           \/ MovieOf(t, items, n - 1, k) = NoMovie /\ MovieOf(t, items, n, k) = m
  BY OneTurnMovies
<1>3. n \in Nat /\ n # 0
  BY DEF Pending
<1>4. \A a \in 1..Len(t[n - 1].added) : t[n - 1].added[a].media \in Movies
  <2>1. \A a \in 1..Len(t[n - 1].added) : t[n - 1].added[a] \in WatchRow
    BY <1>1 DEF Acc
  <2> QED BY <2>1 DEF WatchRow
<1> HIDE DEF m
<1>5. ASSUME NEW a \in 1..Len(t[n - 1].added)
      PROVE  /\ pick[t[n - 1].added[a].media] = 0
             /\ \E k \in 1..n : MovieOf(t, items, n, k) = t[n - 1].added[a].media
  <2>1. PICK k \in 1..(n - 1) : MovieOf(t, items, n - 1, k) = t[n - 1].added[a].media
    BY DEF AddedFollows
  <2>2. MovieOf(t, items, n - 1, k) # NoMovie
    BY <1>4, <2>1, MovieWatchesAssumption
  <2>3. k \in 1..n /\ MovieOf(t, items, n, k) = t[n - 1].added[a].media
    BY <1>2, <1>3, <2>1, <2>2
  <2> QED BY <2>3 DEF AddedFollows
<1>6. CASE t[n].added = t[n - 1].added
  BY <1>5, <1>6 DEF AddedFollows
<1>7. CASE m # NoMovie /\ pick[m] = 0
  <2>1. t[n].added = Append(t[n - 1].added, [media |-> m, status |-> items[n].status])
    BY <1>1, <1>7 DEF TurnOf
  <2>2. /\ Len(t[n].added) = Len(t[n - 1].added) + 1 /\ Len(t[n - 1].added) \in Nat
        /\ \A a \in 1..Len(t[n - 1].added) : t[n].added[a] = t[n - 1].added[a]
        /\ t[n].added[Len(t[n - 1].added) + 1].media = m
    BY <1>1, <2>1 DEF Acc
  <2>3. n \in 1..n
    BY <1>3
  <2>4. ASSUME NEW a \in 1..Len(t[n].added)
        PROVE  /\ pick[t[n].added[a].media] = 0
               /\ \E k \in 1..n : MovieOf(t, items, n, k) = t[n].added[a].media
    <3>1. CASE a \in 1..Len(t[n - 1].added)
      BY <1>5, <2>2, <3>1
    <3>2. CASE a = Len(t[n - 1].added) + 1
      BY <1>2, <1>7, <2>2, <2>3, <3>2
    <3>3. a \in 1..Len(t[n - 1].added) \/ a = Len(t[n - 1].added) + 1
      BY <2>2
    <3> QED BY <3>1, <3>2, <3>3
  <2> QED BY <2>4 DEF AddedFollows
<1> QED BY <1>1, <1>6, <1>7 DEF TurnOf

\* The invariant of the loop.
LEMMA EveryTurnInv ==
  ASSUME NEW t, NEW pick, NEW loaded, NEW ids, NEW items,
         Pending(pick, loaded, ids, items), IsPass(t, pick, loaded, ids, items),
         UniqueColumn(ids)
  PROVE  \A n \in 0..Len(items) : TurnInv(t, pick, items, n)
<1> DEFINE S == {n \in 0..Len(items) : TurnInv(t, pick, items, n)}
<1>1. Len(items) \in Nat
  BY ItemsAre DEF Pending
<1>2. t[0] \in Acc /\ t[0].ids = ids /\ t[0].byId = IndexById(ids) /\ t[0].added = <<>>
      /\ \A m \in Movies : pick[m] = 0 => t[0].status[m] = Dropped
  <2>1. t[0] = BeforeItems(pick, loaded, ids)
    BY DEF IsPass
  <2> QED BY <2>1, BeforeItemsIs DEF Pending
<1>3. TurnInv(t, pick, items, 0)
  <2>1. ASSUME NEW m \in Movies, ids[m] # NoId
        PROVE  IndexById(ids)[ids[m]] = m
    <3>1. ids[m] \in Ids
      BY <2>1 DEF Pending
    <3>2. IndexById(ids)[ids[m]] # NoMovie
      BY <3>1, IndexIs
    <3>3. IndexById(ids)[ids[m]] \in Movies /\ ids[IndexById(ids)[ids[m]]] = ids[m]
      BY <3>1, <3>2, IndexIs DEF Found
    <3> QED BY <2>1, <3>3 DEF UniqueColumn
  <2>2. Healed(t, 0)
    BY <1>2, <2>1 DEF Healed
  <2>3. Indexed(t, items, 0) /\ StatusFollows(t, pick, items, 0) /\ AddedFollows(t, pick, items, 0)
    BY <1>2 DEF Indexed, StatusFollows, AddedFollows
  <2> QED BY <2>2, <2>3 DEF TurnInv
<1>4. ASSUME NEW n \in 1..Len(items), TurnInv(t, pick, items, n - 1)
      PROVE  TurnInv(t, pick, items, n)
  <2>1. /\ Healed(t, n - 1) /\ Indexed(t, items, n - 1)
        /\ StatusFollows(t, pick, items, n - 1) /\ AddedFollows(t, pick, items, n - 1)
    BY <1>4 DEF TurnInv
  <2>2. Indexed(t, items, n)
    BY <2>1, OneTurnMovies
  <2>3. Healed(t, n)
    BY <2>1, TurnKeepsHealed
  <2>4. StatusFollows(t, pick, items, n)
    BY <2>1, TurnKeepsStatus
  <2>5. AddedFollows(t, pick, items, n)
    BY <2>1, TurnKeepsAdded
  <2> QED BY <2>2, <2>3, <2>4, <2>5 DEF TurnInv
<1>5. 0 \in S /\ \A n \in 1..Len(items) : n - 1 \in S => n \in S
  BY <1>1, <1>3, <1>4
<1> HIDE DEF S
<1>6. \A n \in 0..Len(items) : n \in S
  BY <1>1, <1>5, EveryTurn
<1> QED BY <1>6 DEF S

\* No movie has two items among the first n.
NoTwins(t, items, n) ==
  \A i, j \in 1..n :
    i < j /\ MovieOf(t, items, n, i) = MovieOf(t, items, n, j) => MovieOf(t, items, n, i) = NoMovie

\* Movie m is healed with the item's id, and its row, old or added, has its status.
Synced(t, pick, item, n, m) ==
  /\ t[n].ids[m] = item.id
  /\ pick[m] # 0 => t[n].status[m] = item.status
  /\ pick[m] = 0 => \E a \in 1..Len(t[n].added) :
                     t[n].added[a].media = m /\ t[n].added[a].status = item.status

SyncedOnce(t, pick, items, n) ==
  /\ \A k \in 1..n : MovieOf(t, items, n, k) # NoMovie =>
       Synced(t, pick, items[k], n, MovieOf(t, items, n, k))
  /\ \A a, b \in 1..Len(t[n].added) : t[n].added[a].media = t[n].added[b].media => a = b

\* Without twins a turn is about one movie, and no other turn is about it.
LEMMA OneTurnOneMovie ==
  ASSUME NEW t, NEW pick, NEW loaded, NEW ids, NEW items,
         Pending(pick, loaded, ids, items), IsPass(t, pick, loaded, ids, items),
         NEW n \in 1..Len(items), Indexed(t, items, n - 1), NoTwins(t, items, n)
  PROVE  /\ \A k \in 1..(n - 1) : MovieOf(t, items, n, k) = MovieOf(t, items, n - 1, k)
         /\ \A k \in 1..(n - 1) :
              MovieOf(t, items, n, k) = MovieOf(t, items, n, n) => MovieOf(t, items, n, k) = NoMovie
         /\ NoTwins(t, items, n - 1)
<1>1. n \in Nat /\ n # 0
  BY ItemsAre DEF Pending
<1>2. \A k \in 1..(n - 1) :
        \/ MovieOf(t, items, n, k) = MovieOf(t, items, n - 1, k)
        \/ MovieOf(t, items, n - 1, k) = NoMovie /\ MovieOf(t, items, n, k) = MovieOf(t, items, n, n)
  BY OneTurnMovies
<1>3. ASSUME NEW k \in 1..(n - 1), MovieOf(t, items, n, k) = MovieOf(t, items, n, n)
      PROVE  MovieOf(t, items, n, k) = NoMovie
  <2>1. k \in 1..n /\ n \in 1..n /\ k < n
    BY <1>1
  <2> QED BY <1>3, <2>1 DEF NoTwins
<1>4. \A k \in 1..(n - 1) : MovieOf(t, items, n, k) = MovieOf(t, items, n - 1, k)
  BY <1>2, <1>3
<1>5. NoTwins(t, items, n - 1)
  <2>1. \A k \in 1..(n - 1) : k \in 1..n
    BY <1>1
  <2> QED BY <1>4, <2>1 DEF NoTwins
<1> QED BY <1>3, <1>4, <1>5

LEMMA TurnKeepsSynced ==
  ASSUME NEW t, NEW pick, NEW loaded, NEW ids, NEW items,
         Pending(pick, loaded, ids, items), IsPass(t, pick, loaded, ids, items),
         NEW n \in 1..Len(items), Indexed(t, items, n - 1), AddedFollows(t, pick, items, n - 1),
         NoTwins(t, items, n), SyncedOnce(t, pick, items, n - 1)
  PROVE  SyncedOnce(t, pick, items, n)
<1> DEFINE m == Resolve(items[n], t[n - 1].byId)
<1>1. /\ t[n - 1] \in Acc /\ t[n] \in Acc /\ items[n] \in Item /\ m \in Found
      /\ m = NoMovie => t[n] = t[n - 1]
      /\ m # NoMovie => m \in Movies /\ TurnOf(pick, t[n - 1], t[n], items[n], m)
  BY OneTurn
<1>2. MovieOf(t, items, n, n) = m
  BY OneTurnMovies
<1>3. /\ \A k \in 1..(n - 1) : MovieOf(t, items, n, k) = MovieOf(t, items, n - 1, k)
      /\ \A k \in 1..(n - 1) :
           MovieOf(t, items, n, k) = MovieOf(t, items, n, n) => MovieOf(t, items, n, k) = NoMovie
  BY OneTurnOneMovie
<1>4. n \in Nat /\ n # 0
  BY ItemsAre DEF Pending
<1> HIDE DEF m
<1>5. CASE m = NoMovie
  <2>1. \A k \in 1..n : k \in 1..(n - 1) \/ k = n
    BY <1>4
  <2>2. \A k \in 1..n : MovieOf(t, items, n, k) # NoMovie =>
          Synced(t, pick, items[k], n, MovieOf(t, items, n, k))
    BY <1>1, <1>2, <1>3, <1>5, <2>1 DEF SyncedOnce, Synced
  <2> QED BY <1>1, <1>5, <2>2 DEF SyncedOnce
<1>6. CASE m # NoMovie
  <2>1. m \in Movies /\ TurnOf(pick, t[n - 1], t[n], items[n], m)
    BY <1>1, <1>6
  <2> DEFINE old == t[n - 1].added
             new == t[n].added
  <2>2. /\ Len(old) \in Nat /\ \A a \in 1..Len(old) : a \in 1..Len(new) /\ new[a] = old[a]
        /\ pick[m] # 0 => new = old
        /\ pick[m] = 0 => Len(new) = Len(old) + 1 /\ new[Len(old) + 1].media = m
                          /\ new[Len(old) + 1].status = items[n].status
    BY <1>1, <2>1 DEF TurnOf, Acc
  <2>3. /\ t[n].ids[m] = items[n].id
        /\ pick[m] # 0 => t[n].status[m] = items[n].status
        /\ \A k \in Movies : k # m => t[n].ids[k] = t[n - 1].ids[k] /\ t[n].status[k] = t[n - 1].status[k]
    BY <1>1, <2>1 DEF TurnOf, Acc
  <2> HIDE DEF old, new
  <2>4. Synced(t, pick, items[n], n, m)
    BY <2>2, <2>3 DEF Synced, new
  <2>5. ASSUME NEW k \in 1..(n - 1), MovieOf(t, items, n, k) # NoMovie
        PROVE  Synced(t, pick, items[k], n, MovieOf(t, items, n, k))
    <3> DEFINE x == MovieOf(t, items, n, k)
    <3>1. x # m /\ x = MovieOf(t, items, n - 1, k)
      BY <1>2, <1>3, <2>5
    <3>2. x \in Movies
      <4>1. k \in 1..Len(items)
        BY <1>4, ItemsAre DEF Pending
      <4>2. x \in Found
        BY <1>1, <4>1, ItemsAre DEF MovieOf, Acc, Pending
      <4> QED BY <2>5, <4>2 DEF Found
    <3>3. Synced(t, pick, items[k], n - 1, x)
      BY <2>5, <3>1 DEF SyncedOnce
    <3> HIDE DEF x
    <3>4. pick[x] = 0 => \E a \in 1..Len(new) : new[a].media = x /\ new[a].status = items[k].status
      BY <2>2, <3>3 DEF Synced, old
    <3>5. Synced(t, pick, items[k], n, x)
      BY <2>3, <3>1, <3>2, <3>3, <3>4 DEF Synced, new
    <3> QED BY <3>5 DEF x
  <2>6. \A a \in 1..Len(old) : old[a].media # m
    <3>1. ASSUME NEW a \in 1..Len(old), old[a].media = m
          PROVE  FALSE
      <4>1. PICK k \in 1..(n - 1) : MovieOf(t, items, n - 1, k) = m
        BY <3>1 DEF AddedFollows, old
      <4> QED BY <1>2, <1>3, <1>6, <4>1
    <3> QED BY <3>1
  <2>7. \A a, b \in 1..Len(old) : old[a].media = old[b].media => a = b
    BY DEF SyncedOnce, old
  <2>8. \A a, b \in 1..Len(new) : new[a].media = new[b].media => a = b
    <3>1. CASE pick[m] # 0
      BY <2>2, <2>7, <3>1
    <3>2. CASE pick[m] = 0
      <4>1. \A a \in 1..Len(new) :
              \/ a \in 1..Len(old) /\ new[a].media = old[a].media
              \/ a = Len(old) + 1 /\ new[a].media = m
        BY <2>2, <3>2
      <4> QED BY <2>6, <2>7, <4>1
    <3>3. pick[m] = 0 \/ pick[m] # 0
      OBVIOUS
    <3> QED BY <3>1, <3>2, <3>3
  <2>9. \A k \in 1..n : k \in 1..(n - 1) \/ k = n
    BY <1>4
  <2> QED BY <1>2, <2>4, <2>5, <2>8, <2>9 DEF SyncedOnce, new
<1> QED BY <1>5, <1>6

LEMMA EveryTurnSynced ==
  ASSUME NEW t, NEW pick, NEW loaded, NEW ids, NEW items,
         Pending(pick, loaded, ids, items), IsPass(t, pick, loaded, ids, items),
         UniqueColumn(ids)
  PROVE  \A n \in 0..Len(items) : NoTwins(t, items, n) => SyncedOnce(t, pick, items, n)
<1> DEFINE S == {n \in 0..Len(items) : NoTwins(t, items, n) => SyncedOnce(t, pick, items, n)}
<1>1. Len(items) \in Nat
  BY ItemsAre DEF Pending
<1>2. SyncedOnce(t, pick, items, 0)
  <2>1. t[0].added = <<>>
    BY BeforeItemsIs DEF IsPass, Pending
  <2> QED BY <2>1 DEF SyncedOnce
<1>3. ASSUME NEW n \in 1..Len(items), NoTwins(t, items, n - 1) => SyncedOnce(t, pick, items, n - 1),
             NoTwins(t, items, n)
      PROVE  SyncedOnce(t, pick, items, n)
  <2>1. TurnInv(t, pick, items, n - 1)
    <3>1. n - 1 \in 0..Len(items)
      BY <1>1
    <3> QED BY <3>1, EveryTurnInv
  <2>2. Indexed(t, items, n - 1) /\ AddedFollows(t, pick, items, n - 1)
    BY <2>1 DEF TurnInv
  <2>3. NoTwins(t, items, n - 1)
    BY <1>3, <2>2, OneTurnOneMovie
  <2> QED BY <1>3, <2>2, <2>3, TurnKeepsSynced
<1>4. 0 \in S /\ \A n \in 1..Len(items) : n - 1 \in S => n \in S
  BY <1>1, <1>2, <1>3
<1> HIDE DEF S
<1>5. \A n \in 0..Len(items) : n \in S
  BY <1>1, <1>4, EveryTurn
<1> QED BY <1>5 DEF S

-----------------------------------------------------------------------------
(* What a pass computes.                                                    *)

\* The movie of item k, as the indexes have it in the end.
MovieOfItem(items, acc, k) == Resolve(items[k], acc.byId)

Listed(items, acc) == {MovieOfItem(items, acc, k) : k \in 1..Len(items)}

\* No two items are the same movie.
NoTwinItems(items, acc) ==
  \A i, j \in 1..Len(items) :
    i < j /\ MovieOfItem(items, acc, i) = MovieOfItem(items, acc, j) =>
      MovieOfItem(items, acc, i) = NoMovie

IdsLeadBack(acc) == \A m \in Movies : acc.ids[m] # NoId => acc.byId[acc.ids[m]] = m

FoundById(items, acc) ==
  \A k \in 1..Len(items) : MovieOfItem(items, acc, k) = acc.byId[items[k].id]

StatusIsRight(pick, loaded, items, acc) ==
  \A m \in Movies : pick[m] # 0 =>
    /\ m \notin Listed(items, acc) =>
         acc.status[m] = IF loaded[pick[m]].status = Watched THEN Watched ELSE Dropped
    /\ m \in Listed(items, acc) =>
         \E k \in 1..Len(items) :
           MovieOfItem(items, acc, k) = m /\ acc.status[m] = items[k].status

AddedIsRight(pick, items, acc) ==
  \A a \in 1..Len(acc.added) :
    pick[acc.added[a].media] = 0 /\ acc.added[a].media \in Listed(items, acc)

\* The movie m of an item has its id, and a row with its status.
IsSynced(pick, acc, item, m) ==
  /\ acc.ids[m] = item.id
  /\ pick[m] # 0 => acc.status[m] = item.status
  /\ pick[m] = 0 => \E a \in 1..Len(acc.added) :
                     acc.added[a].media = m /\ acc.added[a].status = item.status

AllSynced(pick, items, acc) ==
  /\ \A k \in 1..Len(items) : MovieOfItem(items, acc, k) # NoMovie =>
       IsSynced(pick, acc, items[k], MovieOfItem(items, acc, k))
  /\ \A a, b \in 1..Len(acc.added) : acc.added[a].media = acc.added[b].media => a = b

LEMMA DropsAre ==
  ASSUME NEW acc \in Acc, NEW items \in Seq(Item)
  PROVE  LET new == AfterDrops(acc, items)
         IN  /\ new \in Acc /\ new.ids = acc.ids /\ new.byId = acc.byId /\ new.added = acc.added
             /\ Listed(items, new) = Listed(items, acc)
             /\ \A m \in Movies : new.status[m] =
                  IF m \notin Listed(items, acc) /\ acc.status[m] # Watched THEN Dropped ELSE acc.status[m]
<1> DEFINE listed == {Resolve(items[n], acc.byId) : n \in DOMAIN items}
           status == [m \in Movies |->
             IF m \notin listed /\ acc.status[m] # Watched THEN Dropped ELSE acc.status[m]]
           new == AfterDrops(acc, items)
<1>1. listed = Listed(items, acc)
  BY DEF Listed, MovieOfItem
<1>2. new = [acc EXCEPT !.status = status]
  BY DEF AfterDrops
<1> HIDE DEF listed
<1>3. status \in [Movies -> StatusNames]
  BY DEF Acc, StatusNames
<1>4. /\ new \in Acc /\ new.ids = acc.ids /\ new.byId = acc.byId /\ new.added = acc.added
      /\ new.status = status
  <2> HIDE DEF status, new
  <2> QED BY <1>2, <1>3 DEF Acc
<1>5. Listed(items, new) = Listed(items, acc)
  BY <1>4 DEF Listed, MovieOfItem
<1> QED BY <1>1, <1>4, <1>5

LEMMA OutcomeIs ==
  ASSUME NEW pick, NEW loaded, NEW ids, NEW items, Pending(pick, loaded, ids, items), UniqueColumn(ids),
         NEW acc, acc = Outcome(pick, loaded, ids, items)
  PROVE  /\ acc \in Acc
         /\ IdsLeadBack(acc)
         /\ FoundById(items, acc)
         /\ StatusIsRight(pick, loaded, items, acc)
         /\ AddedIsRight(pick, items, acc)
         /\ NoTwinItems(items, acc) => AllSynced(pick, items, acc)
<1> DEFINE N == Len(items)
           t == Turns(pick, loaded, ids, items)
<1>1. N \in Nat /\ items \in Seq(Item)
      /\ \A k \in 1..N : items[k].id \in Ids /\ items[k].status \in Statuses
  BY ItemsAre DEF Pending
<1>2. IsPass(t, pick, loaded, ids, items)
  BY TurnsAreAPass
<1>3. acc = AfterDrops(t[N], items)
  BY DEF Outcome, AfterItems
<1> HIDE DEF t
<1>4. N \in 0..N /\ t[N] \in Acc
  BY <1>1, <1>2 DEF IsPass
<1>5. TurnInv(t, pick, items, N)
  BY <1>2, <1>4, EveryTurnInv
<1>6. /\ acc \in Acc /\ acc.ids = t[N].ids /\ acc.byId = t[N].byId /\ acc.added = t[N].added
      /\ Listed(items, acc) = Listed(items, t[N])
      /\ \A m \in Movies : acc.status[m] =
           IF m \notin Listed(items, t[N]) /\ t[N].status[m] # Watched THEN Dropped ELSE t[N].status[m]
  BY <1>1, <1>3, <1>4, DropsAre
<1>7. \A k \in 1..N : MovieOfItem(items, acc, k) = MovieOf(t, items, N, k)
  BY <1>5, <1>6 DEF MovieOfItem, TurnInv, Indexed
<1>8. \A m : m \in Listed(items, acc) <=> \E k \in 1..N : MovieOf(t, items, N, k) = m
  BY <1>7 DEF Listed
<1>9. IdsLeadBack(acc)
  BY <1>5, <1>6 DEF IdsLeadBack, TurnInv, Healed
<1>10. FoundById(items, acc)
  BY <1>6, <1>7 DEF FoundById, MovieOf
<1>11. ASSUME NEW m \in Movies, pick[m] # 0
       PROVE  /\ m \notin Listed(items, acc) =>
                   acc.status[m] = IF loaded[pick[m]].status = Watched THEN Watched ELSE Dropped
              /\ m \in Listed(items, acc) =>
                   \E k \in 1..N : MovieOfItem(items, acc, k) = m /\ acc.status[m] = items[k].status
  <2>1. t[0].status[m] = loaded[pick[m]].status
    BY <1>2, <1>11, BeforeItemsIs DEF IsPass, Pending
  <2>2. /\ (\A k \in 1..N : MovieOf(t, items, N, k) # m) => t[N].status[m] = t[0].status[m]
        /\ (\E k \in 1..N : MovieOf(t, items, N, k) = m) =>
             \E k \in 1..N : MovieOf(t, items, N, k) = m /\ t[N].status[m] = items[k].status
    BY <1>5, <1>11 DEF TurnInv, StatusFollows
  <2>3. CASE m \notin Listed(items, acc)
    BY <1>6, <1>8, <2>1, <2>2, <2>3
  <2>4. CASE m \in Listed(items, acc)
    BY <1>6, <1>7, <1>8, <2>2, <2>4
  <2> QED BY <2>3, <2>4
<1>12. StatusIsRight(pick, loaded, items, acc)
  BY <1>11 DEF StatusIsRight
<1>13. AddedIsRight(pick, items, acc)
  BY <1>5, <1>6, <1>8 DEF AddedIsRight, TurnInv, AddedFollows
<1>14. ASSUME NoTwinItems(items, acc)
       PROVE  AllSynced(pick, items, acc)
  <2>1. NoTwins(t, items, N)
    BY <1>7, <1>14 DEF NoTwins, NoTwinItems
  <2>2. SyncedOnce(t, pick, items, N)
    BY <1>2, <1>4, <2>1, EveryTurnSynced
  <2>3. ASSUME NEW k \in 1..N, MovieOfItem(items, acc, k) # NoMovie
        PROVE  IsSynced(pick, acc, items[k], MovieOfItem(items, acc, k))
    <3> DEFINE m == MovieOf(t, items, N, k)
    <3>1. m # NoMovie /\ m = MovieOfItem(items, acc, k)
      BY <1>7, <2>3
    <3>2. Synced(t, pick, items[k], N, m)
      BY <2>2, <3>1 DEF SyncedOnce
    <3>3. m \in Movies /\ m \in Listed(items, acc)
      <4>1. m \in Found
        BY <1>1, <1>4 DEF MovieOf, Acc
      <4> QED BY <1>8, <3>1, <4>1 DEF Found
    <3> HIDE DEF m
    <3>4. acc.status[m] = t[N].status[m]
      BY <1>6, <3>3
    <3>5. IsSynced(pick, acc, items[k], m)
      BY <1>6, <3>2, <3>4 DEF IsSynced, Synced
    <3> QED BY <3>1, <3>5
  <2> QED BY <1>6, <2>2, <2>3 DEF AllSynced, SyncedOnce
<1> QED BY <1>6, <1>9, <1>10, <1>12, <1>13, <1>14

-----------------------------------------------------------------------------
(* What a commit writes.                                                    *)

OneEach(seq) == \A a, b \in 1..Len(seq) : seq[a].media = seq[b].media => a = b

\* Every item's movie has the item's id, and a row with its status.
RowsShow(items, acc, after) ==
  \A k \in 1..Len(items) : MovieOfItem(items, acc, k) # NoMovie =>
    /\ acc.ids[MovieOfItem(items, acc, k)] = items[k].id
    /\ \E n \in 1..Len(after) :
         after[n].media = MovieOfItem(items, acc, k) /\ after[n].status = items[k].status

\* Every other row is WATCHED, as before, or DROPPED.
RowsDrop(items, acc, before, after) ==
  \A n \in 1..Len(after) : after[n].media \notin Listed(items, acc) =>
    \/ after[n].status = Dropped
    \/ after[n].status = Watched /\ n \in 1..Len(before) /\ before[n].status = Watched

LEMMA RowsAre ==
  ASSUME NEW loaded \in Seq(WatchRow), NEW n \in 1..Len(loaded)
  PROVE  /\ Len(loaded) \in Nat
         /\ loaded[n] \in WatchRow /\ loaded[n].media \in Movies /\ loaded[n].status \in StatusNames
<1>1. loaded[n] \in WatchRow
  OBVIOUS
<1> QED BY <1>1 DEF WatchRow, StatusNames

\* A flush keeps the rows in place, writes some of the statuses, and appends rows.
Flush(now, pick, loaded, acc, new) ==
  /\ new \in Seq(WatchRow)
  /\ Len(new) = Len(now) + Len(acc.added)
  /\ \A n \in 1..Len(now) :
       /\ new[n].media = now[n].media
       /\ new[n].status = IF pick[now[n].media] = n /\ acc.status[now[n].media] # loaded[n].status
                          THEN acc.status[now[n].media] ELSE now[n].status
  /\ \A a \in 1..Len(acc.added) : new[Len(now) + a] = acc.added[a]

LEMMA WrittenRowsAre ==
  ASSUME NEW now \in Seq(WatchRow), NEW pick, NEW loaded, NEW acc \in Acc
  PROVE  Flush(now, pick, loaded, acc, WrittenRows(now, pick, loaded, acc))
<1> DEFINE row(n) == LET m == now[n].media IN
                     IF pick[m] = n /\ acc.status[m] # loaded[n].status
                     THEN [now[n] EXCEPT !.status = acc.status[m]] ELSE now[n]
           kept == [n \in DOMAIN now |-> row(n)]
<1>1. Len(now) \in Nat /\ DOMAIN now = 1..Len(now) /\ acc.added \in Seq(WatchRow)
  BY DEF Acc
<1>2. ASSUME NEW n \in 1..Len(now)
      PROVE  /\ row(n) \in WatchRow
             /\ row(n).media = now[n].media
             /\ row(n).status = IF pick[now[n].media] = n /\ acc.status[now[n].media] # loaded[n].status
                                THEN acc.status[now[n].media] ELSE now[n].status
  <2>1. now[n] \in WatchRow /\ now[n].media \in Movies
    BY RowsAre
  <2>2. acc.status[now[n].media] \in Statuses \cup {Dropped}
    BY <2>1 DEF Acc, StatusNames
  <2> QED BY <2>1, <2>2 DEF WatchRow
<1> HIDE DEF row
<1>3. kept \in Seq(WatchRow) /\ Len(kept) = Len(now) /\ \A n \in 1..Len(now) : kept[n] = row(n)
  BY <1>1, <1>2
<1> HIDE DEF kept
<1> DEFINE new == kept \o acc.added
<1>4. /\ new \in Seq(WatchRow) /\ Len(new) = Len(now) + Len(acc.added)
      /\ \A n \in 1..Len(now) : new[n] = kept[n]
      /\ \A a \in 1..Len(acc.added) : new[Len(now) + a] = acc.added[a]
  BY <1>1, <1>3
<1>5. WrittenRows(now, pick, loaded, acc) = new
  BY DEF WrittenRows, kept, row
<1> HIDE DEF new
<1> QED BY <1>2, <1>3, <1>4, <1>5 DEF Flush

LEMMA IndexedAsBefore ==
  ASSUME NEW acc \in Acc, NEW items \in Seq(Item), NEW pick,
         IdsLeadBack(acc), FoundById(items, acc), AllSynced(pick, items, acc),
         NEW k \in 1..Len(items)
  PROVE  Resolve(items[k], IndexById(acc.ids)) = MovieOfItem(items, acc, k)
<1> DEFINE x == items[k].id
           m == MovieOfItem(items, acc, k)
           B == IndexById(acc.ids)
<1>1. x \in Ids /\ x # NoId
  BY ItemsAre, MovieWatchesAssumption
<1>2. /\ B \in [Ids -> Found]
      /\ B[x] # NoMovie => acc.ids[B[x]] = x
      /\ B[x] = NoMovie => \A n \in Movies : acc.ids[n] # x
  BY <1>1, IndexIs
<1>3. m = acc.byId[x] /\ m = Resolve(items[k], acc.byId)
  BY DEF FoundById, MovieOfItem
<1>4. m # NoMovie => acc.ids[m] = x
  BY DEF AllSynced, IsSynced
<1>5. B[x] # NoMovie => B[x] = acc.byId[x]
  BY <1>1, <1>2 DEF IdsLeadBack, Found
<1>6. m \in Found
  BY <1>1, <1>3 DEF Acc
<1> HIDE DEF m, B
<1>7. B[x] = m
  BY <1>2, <1>3, <1>4, <1>5, <1>6 DEF Found
<1>8. m = NoMovie => ByTmdb(items[k]) = NoMovie /\ ByImdb(items[k]) = NoMovie
  BY <1>3 DEF Resolve
<1>9. Resolve(items[k], B) = m
  BY <1>7, <1>8 DEF Resolve
<1> QED BY <1>9 DEF m, B

LEMMA UndisturbedRows ==
  ASSUME NEW pick, NEW loaded, NEW ids, NEW items, Pending(pick, loaded, ids, items), UniqueColumn(ids),
         NEW acc, acc = Outcome(pick, loaded, ids, items), NoTwinItems(items, acc), OneEach(loaded),
         NEW after, after = WrittenRows(loaded, pick, loaded, acc)
  PROVE  OneEach(after) /\ RowsShow(items, acc, after) /\ RowsDrop(items, acc, loaded, after)
<1> DEFINE L == Len(loaded)
<1>1. /\ acc \in Acc /\ StatusIsRight(pick, loaded, items, acc) /\ AddedIsRight(pick, items, acc)
      /\ AllSynced(pick, items, acc) /\ FoundById(items, acc)
  BY OutcomeIs
<1>2. loaded \in Seq(WatchRow) /\ L \in Nat /\ Len(acc.added) \in Nat
  BY <1>1 DEF Pending, Acc
<1>3. Flush(loaded, pick, loaded, acc, after)
  BY <1>1, <1>2, WrittenRowsAre
<1>4. /\ \A m \in Movies : pick[m] # 0 => pick[m] \in 1..L /\ loaded[pick[m]].media = m
      /\ \A m \in Movies : pick[m] = 0 => \A n \in 1..L : loaded[n].media # m
  BY PicksAre DEF Pending
<1>5. \A n \in 1..L : loaded[n].media \in Movies
  BY <1>2, RowsAre
<1>6. \A n \in 1..L : pick[loaded[n].media] = n
  BY <1>4, <1>5 DEF OneEach
<1>7. \A n \in 1..L : after[n].media = loaded[n].media /\ after[n].status = acc.status[loaded[n].media]
  BY <1>3, <1>6 DEF Flush
<1>8. /\ Len(after) = L + Len(acc.added)
      /\ \A a \in 1..Len(acc.added) : after[L + a] = acc.added[a]
  BY <1>3 DEF Flush
<1>9. \A n \in 1..Len(after) : n \in 1..L \/ \E a \in 1..Len(acc.added) : n = L + a
  <2>1. \A n \in 1..Len(after) : n \in 1..L \/ (n - L \in 1..Len(acc.added) /\ n = L + (n - L))
    BY <1>2, <1>8
  <2> QED BY <2>1
<1>10. \A a \in 1..Len(acc.added) :
         pick[acc.added[a].media] = 0 /\ acc.added[a].media \in Listed(items, acc)
         /\ acc.added[a].media \in Movies
  <2>1. \A a \in 1..Len(acc.added) : acc.added[a].media \in Movies
    BY <1>1, RowsAre DEF Acc
  <2> QED BY <1>1, <2>1 DEF AddedIsRight
<1>11. \A n \in 1..L : pick[after[n].media] # 0
  BY <1>2, <1>6, <1>7
<1>12. OneEach(after)
  <2>1. \A a, b \in 1..Len(acc.added) : acc.added[a].media = acc.added[b].media => a = b
    BY <1>1 DEF AllSynced
  <2>2. ASSUME NEW a \in 1..Len(after), NEW b \in 1..Len(after), after[a].media = after[b].media
        PROVE  a = b
    <3>1. CASE a \in 1..L /\ b \in 1..L
      BY <1>7, <2>2, <3>1 DEF OneEach
    <3>2. CASE a \in 1..L /\ \E c \in 1..Len(acc.added) : b = L + c
      BY <1>8, <1>10, <1>11, <2>2, <3>2
    <3>3. CASE b \in 1..L /\ \E c \in 1..Len(acc.added) : a = L + c
      <4>1. PICK c \in 1..Len(acc.added) : a = L + c
        BY <3>3
      <4>2. pick[after[a].media] = 0
        BY <1>8, <1>10, <4>1
      <4>3. pick[after[b].media] # 0
        BY <1>11, <3>3
      <4> QED BY <2>2, <4>2, <4>3
    <3>4. CASE (\E c \in 1..Len(acc.added) : a = L + c) /\ (\E c \in 1..Len(acc.added) : b = L + c)
      <4>1. PICK c \in 1..Len(acc.added) : a = L + c
        BY <3>4
      <4>2. PICK d \in 1..Len(acc.added) : b = L + d
        BY <3>4
      <4>3. acc.added[c].media = acc.added[d].media
        BY <1>8, <2>2, <4>1, <4>2
      <4> QED BY <2>1, <4>1, <4>2, <4>3
    <3> QED BY <1>9, <3>1, <3>2, <3>3, <3>4
  <2> QED BY <2>2 DEF OneEach
<1>13. ASSUME NEW k \in 1..Len(items), NEW m, m = MovieOfItem(items, acc, k), m # NoMovie
       PROVE  /\ acc.ids[m] = items[k].id
              /\ \E n \in 1..Len(after) : after[n].media = m /\ after[n].status = items[k].status
  <2>1. /\ acc.ids[m] = items[k].id
        /\ pick[m] # 0 => acc.status[m] = items[k].status
        /\ pick[m] = 0 => \E a \in 1..Len(acc.added) :
                           acc.added[a].media = m /\ acc.added[a].status = items[k].status
    BY <1>1, <1>13 DEF AllSynced, IsSynced
  <2>2. m \in Movies
    <3>1. items[k].id \in Ids
      BY ItemsAre DEF Pending
    <3>2. m \in Found
      BY <1>1, <1>13, <3>1 DEF FoundById, Acc
    <3> QED BY <1>13, <3>2 DEF Found
  <2>3. CASE pick[m] # 0
    <3>1. pick[m] \in 1..L /\ loaded[pick[m]].media = m
      BY <1>4, <2>2, <2>3
    <3>2. pick[m] \in 1..Len(after)
      BY <1>2, <1>8, <3>1
    <3> QED BY <1>7, <2>1, <2>3, <3>1, <3>2
  <2>4. CASE pick[m] = 0
    <3>1. PICK a \in 1..Len(acc.added) : acc.added[a].media = m /\ acc.added[a].status = items[k].status
      BY <2>1, <2>4
    <3>2. L + a \in 1..Len(after)
      BY <1>2, <1>8
    <3> QED BY <1>8, <2>1, <3>1, <3>2
  <2> QED BY <2>3, <2>4
<1>14. RowsShow(items, acc, after)
  BY <1>13 DEF RowsShow
<1>15. ASSUME NEW n \in 1..Len(after), after[n].media \notin Listed(items, acc)
       PROVE  \/ after[n].status = Dropped
              \/ after[n].status = Watched /\ n \in 1..L /\ loaded[n].status = Watched
  <2>1. n \in 1..L
    BY <1>8, <1>9, <1>10, <1>15
  <2> DEFINE m == loaded[n].media
  <2>2. m \in Movies /\ pick[m] = n /\ n # 0 /\ m \notin Listed(items, acc)
    BY <1>5, <1>6, <1>7, <1>15, <2>1
  <2>3. acc.status[m] = IF loaded[n].status = Watched THEN Watched ELSE Dropped
    BY <1>1, <2>2 DEF StatusIsRight
  <2> QED BY <1>7, <2>1, <2>3
<1>16. RowsDrop(items, acc, loaded, after)
  BY <1>15 DEF RowsDrop
<1> QED BY <1>12, <1>14, <1>16

\* A turn for an item whose id and status the movie has already changes nothing.
LEMMA IdleTurn ==
  ASSUME NEW pick \in [Movies -> Nat], NEW acc \in Acc, NEW item \in Item,
         NEW m, m = Resolve(item, acc.byId),
         m # NoMovie => /\ acc.ids[m] = item.id /\ acc.byId[item.id] = m
                        /\ pick[m] # 0 /\ acc.status[m] = item.status
  PROVE  Processed(pick, acc, item) = acc
<1>1. /\ m \in Found
      /\ Processed(pick, acc, item) \in Acc
      /\ m = NoMovie => Processed(pick, acc, item) = acc
      /\ m # NoMovie => TurnOf(pick, acc, Processed(pick, acc, item), item, m)
  BY ProcessedIs
<1> DEFINE new == Processed(pick, acc, item)
<1> HIDE DEF new
<1>2. ASSUME m # NoMovie
      PROVE  new = acc
  <2>1. TurnOf(pick, acc, new, item, m) /\ m \in Movies /\ item.id \in Ids
    BY <1>1, <1>2 DEF new, Found, Item
  <2>2. new.ids = acc.ids
    BY <1>2, <2>1 DEF TurnOf, Acc
  <2>3. new.byId = acc.byId
    BY <1>2, <2>1 DEF TurnOf, Acc
  <2>4. new.status = acc.status
    BY <1>2, <2>1 DEF TurnOf, Acc
  <2>5. new.added = acc.added
    BY <1>2, <2>1 DEF TurnOf
  <2>6. new \in Acc
    BY <1>1 DEF new
  <2> DEFINE Record(a) == [ids |-> a.ids, byId |-> a.byId, added |-> a.added, status |-> a.status]
  <2>7. \A a \in Acc : a = Record(a)
    BY DEF Acc
  <2>8. Record(new) = Record(acc)
    BY <2>2, <2>3, <2>4, <2>5
  <2> HIDE DEF Record
  <2> QED BY <2>6, <2>7, <2>8
<1> QED BY <1>1, <1>2 DEF new

LEMMA IdlePass ==
  ASSUME NEW pick, NEW loaded, NEW ids, NEW items, Pending(pick, loaded, ids, items),
         NEW movie, \A k \in 1..Len(items) : movie[k] = Resolve(items[k], IndexById(ids)),
         \A k \in 1..Len(items) : movie[k] # NoMovie =>
           /\ ids[movie[k]] = items[k].id
           /\ IndexById(ids)[items[k].id] = movie[k]
           /\ pick[movie[k]] # 0 /\ loaded[pick[movie[k]]].status = items[k].status
  PROVE  AfterItems(pick, loaded, ids, items) = BeforeItems(pick, loaded, ids)
<1> DEFINE N == Len(items)
           base == BeforeItems(pick, loaded, ids)
           t == Turns(pick, loaded, ids, items)
<1>1. N \in Nat /\ pick \in [Movies -> Nat] /\ IsPass(t, pick, loaded, ids, items)
  BY TurnsAreAPass, ItemsAre, PicksAre DEF Pending
<1>2. /\ base \in Acc /\ base.ids = ids /\ base.byId = IndexById(ids)
      /\ \A m \in Movies : base.status[m] = IF pick[m] = 0 THEN Dropped ELSE loaded[pick[m]].status
  BY BeforeItemsIs DEF Pending
<1>3. AfterItems(pick, loaded, ids, items) = t[N]
  BY DEF AfterItems
<1>4. t[0] = base /\ \A n \in 1..N : t[n] = Processed(pick, t[n - 1], items[n])
  BY <1>1 DEF IsPass
<1> HIDE DEF base, t
<1>5. ASSUME NEW n \in 1..N
      PROVE  Processed(pick, base, items[n]) = base
  <2> DEFINE m == movie[n]
  <2>1. items[n] \in Item /\ items[n].id \in Ids
    BY ItemsAre DEF Pending
  <2>2. m = Resolve(items[n], base.byId)
    BY <1>2
  <2>3. m \in Found
    BY <1>2, <2>1, <2>2, ResolveTyped DEF Acc
  <2>4. m # NoMovie => base.status[m] = items[n].status
    BY <1>2, <2>3 DEF Found
  <2>5. m # NoMovie => /\ base.ids[m] = items[n].id /\ base.byId[items[n].id] = m
                       /\ pick[m] # 0 /\ base.status[m] = items[n].status
    BY <1>2, <2>4
  <2> HIDE DEF m
  <2> QED BY <1>1, <1>2, <2>1, <2>2, <2>5, IdleTurn
<1> DEFINE S == {n \in 0..N : t[n] = base}
<1>6. 0 \in S /\ \A n \in 1..N : n - 1 \in S => n \in S
  BY <1>1, <1>4, <1>5
<1> HIDE DEF S
<1>7. \A n \in 0..N : n \in S
  BY <1>1, <1>6, EveryTurn
<1>8. t[N] = base
  BY <1>1, <1>7 DEF S
<1> QED BY <1>3, <1>8 DEF base

LEMMA SecondPass ==
  ASSUME NEW pick, NEW loaded, NEW ids, NEW items, Pending(pick, loaded, ids, items), UniqueColumn(ids),
         NEW acc, acc = Outcome(pick, loaded, ids, items), NoTwinItems(items, acc), OneEach(loaded),
         NEW first, first = WrittenRows(loaded, pick, loaded, acc),
         NEW p \in Picks(first), NEW again, again = Outcome(p, first, acc.ids, items)
  PROVE  again.ids = acc.ids /\ WrittenRows(first, p, first, again) = first
<1>1. /\ acc \in Acc /\ IdsLeadBack(acc) /\ FoundById(items, acc) /\ AllSynced(pick, items, acc)
  BY OutcomeIs
<1>2. OneEach(first) /\ RowsShow(items, acc, first) /\ RowsDrop(items, acc, loaded, first)
  BY UndisturbedRows
<1>3. first \in Seq(WatchRow) /\ items \in Seq(Item) /\ acc.ids \in [Movies -> Ids \cup {NoId}]
  BY <1>1, WrittenRowsAre DEF Pending, Flush, Acc
<1>4. Pending(p, first, acc.ids, items)
  BY <1>3 DEF Pending
<1>5. \A k \in 1..Len(items) : Resolve(items[k], IndexById(acc.ids)) = MovieOfItem(items, acc, k)
  BY <1>1, <1>3, IndexedAsBefore
<1>6. /\ \A m \in Movies : p[m] # 0 => p[m] \in 1..Len(first) /\ first[p[m]].media = m
      /\ \A m \in Movies : p[m] = 0 => \A n \in 1..Len(first) : first[n].media # m
  BY <1>3, PicksAre
<1> DEFINE movie == [k \in 1..Len(items) |-> MovieOfItem(items, acc, k)]
<1>7. ASSUME NEW k \in 1..Len(items), movie[k] # NoMovie
      PROVE  /\ acc.ids[movie[k]] = items[k].id
             /\ IndexById(acc.ids)[items[k].id] = movie[k]
             /\ p[movie[k]] # 0 /\ first[p[movie[k]]].status = items[k].status
  <2> DEFINE m == movie[k]
  <2>1. m = MovieOfItem(items, acc, k) /\ m # NoMovie
    BY <1>7
  <2> HIDE DEF m, movie
  <2>2. items[k].id \in Ids /\ items[k].id # NoId
    BY <1>3, ItemsAre, MovieWatchesAssumption
  <2>3. m \in Movies
    <3>1. m \in Found
      BY <1>1, <2>1, <2>2 DEF FoundById, Acc
    <3> QED BY <2>1, <3>1 DEF Found
  <2>4. PICK n \in 1..Len(first) : first[n].media = m /\ first[n].status = items[k].status
    BY <1>2, <2>1 DEF RowsShow
  <2>5. acc.ids[m] = items[k].id
    BY <1>2, <2>1 DEF RowsShow
  <2>6. p[m] # 0 /\ p[m] = n
    BY <1>2, <1>6, <2>3, <2>4 DEF OneEach
  <2> DEFINE B == IndexById(acc.ids)
  <2>7. /\ B \in [Ids -> Found]
        /\ B[items[k].id] # NoMovie => acc.ids[B[items[k].id]] = items[k].id
        /\ B[items[k].id] = NoMovie => \A x \in Movies : acc.ids[x] # items[k].id
    BY <2>2, IndexIs
  <2> HIDE DEF B
  <2>8. B[items[k].id] \in Movies /\ acc.ids[B[items[k].id]] = items[k].id
    BY <2>2, <2>3, <2>5, <2>7 DEF Found
  <2>9. B[items[k].id] = acc.byId[items[k].id] /\ m = acc.byId[items[k].id]
    BY <1>1, <2>1, <2>2, <2>8 DEF IdsLeadBack, FoundById
  <2> QED BY <2>4, <2>5, <2>6, <2>9 DEF m, B
<1>8. \A k \in 1..Len(items) : movie[k] = Resolve(items[k], IndexById(acc.ids))
  BY <1>5
<1>9. AfterItems(p, first, acc.ids, items) = BeforeItems(p, first, acc.ids)
  <2> HIDE DEF movie
  <2> QED BY <1>4, <1>7, <1>8, IdlePass
<1> DEFINE base == BeforeItems(p, first, acc.ids)
<1>10. again = AfterDrops(base, items)
  BY <1>9 DEF Outcome
<1>11. /\ base \in Acc /\ base.ids = acc.ids /\ base.byId = IndexById(acc.ids) /\ base.added = <<>>
       /\ \A m \in Movies : base.status[m] = IF p[m] = 0 THEN Dropped ELSE first[p[m]].status
  BY <1>3, BeforeItemsIs
<1> HIDE DEF base
<1>12. /\ again \in Acc /\ again.ids = acc.ids /\ again.added = <<>>
       /\ \A m \in Movies : again.status[m] =
            IF m \notin Listed(items, base) /\ base.status[m] # Watched THEN Dropped ELSE base.status[m]
  BY <1>3, <1>10, <1>11, DropsAre
<1>13. Listed(items, base) = Listed(items, acc)
  <2>1. \A k \in 1..Len(items) : MovieOfItem(items, base, k) = MovieOfItem(items, acc, k)
    BY <1>5, <1>11 DEF MovieOfItem
  <2> QED BY <2>1 DEF Listed
<1>14. ASSUME NEW n \in 1..Len(first), p[first[n].media] = n
       PROVE  again.status[first[n].media] = first[n].status
  <2> DEFINE m == first[n].media
  <2>1. m \in Movies /\ n # 0
    BY <1>3, RowsAre
  <2>2. base.status[m] = first[n].status
    BY <1>11, <1>14, <2>1
  <2>3. m \notin Listed(items, acc) => first[n].status = Dropped \/ first[n].status = Watched
    BY <1>2 DEF RowsDrop
  <2> QED BY <1>12, <1>13, <2>1, <2>2, <2>3
<1> DEFINE last == WrittenRows(first, p, first, again)
<1>15. Flush(first, p, first, again, last)
  BY <1>3, <1>12, WrittenRowsAre
<1> HIDE DEF last
<1>16. last \in Seq(WatchRow) /\ Len(last) = Len(first)
  BY <1>3, <1>12, <1>15 DEF Flush
<1>17. ASSUME NEW n \in 1..Len(first)
       PROVE  last[n] = first[n]
  <2>1. last[n].media = first[n].media /\ last[n].status = first[n].status
    BY <1>14, <1>15 DEF Flush
  <2>2. last[n] \in WatchRow /\ first[n] \in WatchRow
    BY <1>3, <1>16, RowsAre
  <2> QED BY <2>1, <2>2 DEF WatchRow
<1>18. last = first
  BY <1>3, <1>16, <1>17
<1> QED BY <1>12, <1>18 DEF last

-----------------------------------------------------------------------------
(* The runs.  The inductive invariant: what a run has read and nobody has   *)
(* raced is still what the tables hold.                                     *)

PassOK(p, column, tables) ==
  p # NoRun =>
    /\ p.at = "between" \/ p.user \in Users
    /\ p.pick \in Picks(p.loaded) \cup {NoPick}
    /\ p.at \in {"watches", "ready"} =>
         /\ p.pick \in Picks(p.loaded)
         /\ ~p.raced => p.loaded = tables[p.user]
    /\ p.at = "ready" => UniqueColumn(p.ids) /\ (~p.raced => p.ids = column)

WatchInv ==
  /\ TypeOK
  /\ UniqueColumn(jid)
  /\ \A r \in Runs : PassOK(run[r], jid, rows)
  /\ OneRowPerMovie

\* What a run that is about to commit computes from, and what it computes.
LEMMA ReadyPass ==
  ASSUME WatchInv, NEW r \in Runs, At(r, "ready")
  PROVE  /\ Pending(run[r].pick, run[r].loaded, run[r].ids, run[r].items)
         /\ UniqueColumn(run[r].ids)
         /\ run[r].user \in Users /\ run[r].left \in SUBSET Users
         /\ RunOutcome(r) = Outcome(run[r].pick, run[r].loaded, run[r].ids, run[r].items)
         /\ ~run[r].raced => run[r].loaded = rows[run[r].user] /\ run[r].ids = jid
<1>1. run[r] \in Pass /\ run[r] # NoRun /\ run[r].at = "ready"
  BY DEF WatchInv, TypeOK, At, Live
<1>2. /\ run[r].user \in Users /\ run[r].pick \in Picks(run[r].loaded) /\ UniqueColumn(run[r].ids)
      /\ ~run[r].raced => run[r].loaded = rows[run[r].user] /\ run[r].ids = jid
  BY <1>1 DEF WatchInv, PassOK
<1>3. run[r].items \in Seq(Item)
  <2>1. run[r].items \in Libraries \cup {<<>>}
    BY <1>1 DEF Pass
  <2>2. <<>> \in Seq(Item)
    OBVIOUS
  <2> QED BY <2>1, <2>2, MovieWatchesAssumption
<1> QED BY <1>1, <1>2, <1>3 DEF Pass, Pending, RunOutcome

LEMMA TwinsAre ==
  ASSUME WatchInv, NEW r \in Runs, At(r, "ready")
  PROVE  ~Twins(r) => NoTwinItems(run[r].items, RunOutcome(r))
<1>1. DOMAIN run[r].items = 1..Len(run[r].items)
  BY ReadyPass DEF Pending
<1> QED BY <1>1 DEF Twins, NoTwinItems, MovieOfItem

\* A step of one run that writes nothing.
LEMMA QuietStep ==
  ASSUME WatchInv, NEW r \in Runs, NEW p \in {NoRun} \cup Pass, PassOK(p, jid, rows),
         run' = [run EXCEPT ![r] = p], UNCHANGED <<jid, rows, doubled>>
  PROVE  WatchInv'
<1>1. run' \in [Runs -> {NoRun} \cup Pass] /\ \A q \in Runs : run'[q] = IF q = r THEN p ELSE run[q]
  BY DEF WatchInv, TypeOK
<1>2. \A q \in Runs : PassOK(run'[q], jid, rows)
  BY <1>1 DEF WatchInv
<1>3. (\A q \in Runs : PassOK(run[q], jid, rows))'
  BY <1>2
<1>4. TypeOK'
  BY <1>1, <1>2 DEF WatchInv, TypeOK, PassOK, Live, At
<1>5. OneRowPerMovie'
  BY DEF WatchInv, OneRowPerMovie
<1>6. UniqueColumn(jid)'
  BY DEF WatchInv, UniqueColumn
<1> QED BY <1>3, <1>4, <1>5, <1>6 DEF WatchInv

LEMMA IdleRuns ==
  ASSUME NEW left \in SUBSET Users, NEW open \in BOOLEAN
  PROVE  /\ Between(left, open) \in Pass
         /\ \A column, tables : PassOK(Between(left, open), column, tables)
BY DEF Between, Pass, PassOK, NoPick, NoIds

LEMMA RacedRuns ==
  ASSUME WatchInv, NEW q \in Runs
  PROVE  /\ Raced(q) \in {NoRun} \cup Pass
         /\ \A column, tables : PassOK(Raced(q), column, tables)
<1>1. run[q] \in {NoRun} \cup Pass /\ PassOK(run[q], jid, rows)
  BY DEF WatchInv, TypeOK
<1>2. CASE run[q] = NoRun
  BY <1>2 DEF Raced, Live, PassOK
<1>3. CASE run[q] # NoRun /\ run[q].at = "between"
  BY <1>1, <1>3 DEF Raced, Live, PassOK
<1>4. CASE run[q] # NoRun /\ run[q].at # "between"
  <2> DEFINE p == [run[q] EXCEPT !.raced = TRUE]
  <2>1. /\ Raced(q) = p /\ p \in Pass /\ p.raced /\ p.at = run[q].at /\ p.user = run[q].user
        /\ p.pick = run[q].pick /\ p.loaded = run[q].loaded /\ p.ids = run[q].ids
    BY <1>1, <1>4 DEF Raced, Live, Pass
  <2> HIDE DEF p
  <2>2. \A column, tables : PassOK(p, column, tables)
    BY <1>1, <1>4, <2>1 DEF PassOK
  <2> QED BY <2>1, <2>2
<1> QED BY <1>2, <1>3, <1>4

LEMMA WatchInvInit == Init => WatchInv
<1> SUFFICES ASSUME Init PROVE WatchInv
  OBVIOUS
<1>1. TypeOK
  BY DEF Init, TypeOK, NoIds, Live
<1>2. UniqueColumn(jid)
  BY DEF Init, UniqueColumn, NoIds
<1>3. \A r \in Runs : PassOK(run[r], jid, rows)
  BY DEF Init, PassOK
<1>4. OneRowPerMovie
  BY DEF Init, OneRowPerMovie
<1> QED BY <1>1, <1>2, <1>3, <1>4 DEF WatchInv

\* A commit leaves one row per movie to a user of whom nothing else was noted.
LEMMA CommitKeepsRows ==
  ASSUME WatchInv, NEW r \in Runs, Commit(r)
  PROVE  rows' \in [Users -> Seq(WatchRow)] /\ OneRowPerMovie'
<1> DEFINE u == run[r].user
           acc == RunOutcome(r)
           after == WrittenRows(rows[u], run[r].pick, run[r].loaded, acc)
<1>1. At(r, "ready") /\ rows' = [rows EXCEPT ![u] = after]
      /\ doubled' = IF run[r].raced \/ Twins(r) THEN doubled \cup {u} ELSE doubled
  BY DEF Commit
<1>2. /\ Pending(run[r].pick, run[r].loaded, run[r].ids, run[r].items) /\ UniqueColumn(run[r].ids)
      /\ u \in Users /\ acc = Outcome(run[r].pick, run[r].loaded, run[r].ids, run[r].items)
      /\ ~run[r].raced => run[r].loaded = rows[u]
  BY <1>1, ReadyPass
<1>3. rows \in [Users -> Seq(WatchRow)]
  BY DEF WatchInv, TypeOK
<1>4. ~Twins(r) => NoTwinItems(run[r].items, acc)
  BY <1>1, TwinsAre
<1> HIDE DEF acc, u
<1>5. after \in Seq(WatchRow)
  <2>1. acc \in Acc
    BY <1>2, OutcomeIs
  <2> QED BY <1>2, <1>3, <2>1, WrittenRowsAre DEF Flush
<1>6. rows' \in [Users -> Seq(WatchRow)]
  BY <1>1, <1>3, <1>5
<1>7. ASSUME u \notin doubled'
      PROVE  OneEach(after)
  <2>1. ~run[r].raced /\ ~Twins(r) /\ u \notin doubled
    BY <1>1, <1>7
  <2>2. run[r].loaded = rows[u]
    BY <1>2, <2>1
  <2>3. OneEach(rows[u])
    BY <1>2, <1>3, <2>1 DEF WatchInv, OneRowPerMovie, OneEach
  <2> QED BY <1>2, <1>4, <2>1, <2>2, <2>3, UndisturbedRows
<1> HIDE DEF after
<1>8. ASSUME NEW v \in Users, v \notin doubled', NEW a \in DOMAIN rows'[v], NEW b \in DOMAIN rows'[v],
             rows'[v][a].media = rows'[v][b].media
      PROVE  a = b
  <2>1. CASE v = u
    BY <1>1, <1>3, <1>5, <1>7, <1>8, <2>1 DEF OneEach
  <2>2. CASE v # u
    <3>1. rows'[v] = rows[v] /\ v \notin doubled
      BY <1>1, <1>3, <1>8, <2>2
    <3> QED BY <1>8, <3>1 DEF WatchInv, OneRowPerMovie
  <2> QED BY <2>1, <2>2
<1>9. OneRowPerMovie'
  BY <1>8 DEF OneRowPerMovie
<1> QED BY <1>6, <1>9

LEMMA CommitKeeps ==
  ASSUME WatchInv, NEW r \in Runs, Commit(r)
  PROVE  WatchInv'
<1> DEFINE u == run[r].user
           acc == RunOutcome(r)
<1>1. /\ At(r, "ready") /\ ~Clashing(r) /\ jid' = WrittenIds(jid, run[r].ids, acc)
      /\ doubled' = IF run[r].raced \/ Twins(r) THEN doubled \cup {u} ELSE doubled
      /\ run' = [q \in Runs |-> IF q = r THEN Between(run[r].left, FALSE) ELSE Raced(q)]
  BY DEF Commit
<1>2. /\ Pending(run[r].pick, run[r].loaded, run[r].ids, run[r].items) /\ UniqueColumn(run[r].ids)
      /\ u \in Users /\ run[r].left \in SUBSET Users
      /\ acc = Outcome(run[r].pick, run[r].loaded, run[r].ids, run[r].items)
  BY <1>1, ReadyPass
<1>3. UniqueColumn(jid')
  BY <1>1 DEF Clashing
<1>4. jid' \in [Movies -> Ids \cup {NoId}]
  <2>1. acc \in Acc
    BY <1>2, OutcomeIs
  <2> QED BY <1>1, <2>1 DEF WrittenIds, Acc, WatchInv, TypeOK
<1>5. \A q \in Runs : run'[q] \in {NoRun} \cup Pass /\ PassOK(run'[q], jid', rows')
  BY <1>1, <1>2, IdleRuns, RacedRuns
<1>6. run' \in [Runs -> {NoRun} \cup Pass]
  BY <1>1, <1>5
<1>7. rows' \in [Users -> Seq(WatchRow)] /\ OneRowPerMovie'
  BY CommitKeepsRows
<1>8. doubled' \subseteq Users
  BY <1>1, <1>2 DEF WatchInv, TypeOK
<1>9. TypeOK'
  BY <1>4, <1>5, <1>6, <1>7, <1>8 DEF TypeOK, PassOK, Live, At
<1>10. UniqueColumn(jid)'
  BY <1>3 DEF UniqueColumn
<1> QED BY <1>5, <1>7, <1>9, <1>10 DEF WatchInv

LEMMA ImportKeeps ==
  ASSUME WatchInv, NEW m \in Movies, NEW x \in Ids, Import(m, x)
  PROVE  WatchInv'
<1>1. /\ \A n \in Movies : jid[n] # x
      /\ jid' = [jid EXCEPT ![m] = x] /\ run' = [q \in Runs |-> Raced(q)]
      /\ rows' = rows /\ doubled' = doubled
  BY DEF Import
<1>2. \A q \in Runs : run'[q] \in {NoRun} \cup Pass /\ PassOK(run'[q], jid', rows')
  BY <1>1, RacedRuns
<1>3. run' \in [Runs -> {NoRun} \cup Pass]
  BY <1>1, <1>2
<1>4. jid' \in [Movies -> Ids \cup {NoId}] /\ UniqueColumn(jid')
  BY <1>1 DEF WatchInv, TypeOK, UniqueColumn
<1>5. TypeOK'
  BY <1>1, <1>2, <1>3, <1>4 DEF WatchInv, TypeOK, PassOK, Live, At
<1>6. OneRowPerMovie'
  BY <1>1 DEF WatchInv, OneRowPerMovie
<1>7. UniqueColumn(jid)'
  BY <1>4 DEF UniqueColumn
<1> QED BY <1>2, <1>5, <1>6, <1>7 DEF WatchInv

LEMMA WatchInvStep == ASSUME WatchInv, [Next]_vars PROVE WatchInv'
<1>1. \A r \in Runs : run[r] \in {NoRun} \cup Pass /\ PassOK(run[r], jid, rows)
  BY DEF WatchInv, TypeOK
<1>2. rows \in [Users -> Seq(WatchRow)] /\ jid \in [Movies -> Ids \cup {NoId}] /\ UniqueColumn(jid)
  BY DEF WatchInv, TypeOK
<1>3. ASSUME NEW r \in Runs, Start(r)
      PROVE  WatchInv'
  BY <1>3, QuietStep, IdleRuns DEF Start
<1>4. ASSUME NEW r \in Runs, Finish(r) \/ PassFails(r)
      PROVE  WatchInv'
  <2>1. run' = [run EXCEPT ![r] = NoRun] /\ UNCHANGED <<jid, rows, doubled>>
    BY <1>4 DEF Finish, PassFails
  <2>2. PassOK(NoRun, jid, rows)
    BY DEF PassOK
  <2> QED BY <2>1, <2>2, QuietStep
<1>5. ASSUME NEW r \in Runs, NEW u \in Users, FetchNothing(r, u)
      PROVE  WatchInv'
  <2> DEFINE p == [run[r] EXCEPT !.left = @ \ {u}]
  <2>1. run[r] \in Pass /\ run[r] # NoRun /\ run[r].at = "between"
    BY <1>1, <1>5 DEF FetchNothing, At, Live
  <2>2. run' = [run EXCEPT ![r] = p] /\ UNCHANGED <<jid, rows, doubled>>
    BY <1>5 DEF FetchNothing
  <2>3. p \in Pass /\ p.at = "between" /\ p.pick = run[r].pick /\ p.loaded = run[r].loaded
    BY <2>1 DEF Pass
  <2> HIDE DEF p
  <2>4. PassOK(p, jid, rows)
    BY <1>1, <2>1, <2>3 DEF PassOK
  <2> QED BY <2>2, <2>3, <2>4, QuietStep
<1>6. ASSUME NEW r \in Runs, NEW u \in Users, FetchFails(r, u)
      PROVE  WatchInv'
  <2> DEFINE p == IF run[r].open THEN NoRun ELSE Between(run[r].left \ {u}, FALSE)
  <2>1. run' = [run EXCEPT ![r] = p] /\ UNCHANGED <<jid, rows, doubled>>
    BY <1>6 DEF FetchFails
  <2>2. run[r].left \ {u} \in SUBSET Users
    BY <1>1, <1>6 DEF FetchFails, At, Live, Pass
  <2>3. p \in {NoRun} \cup Pass /\ PassOK(p, jid, rows)
    BY <2>2, IdleRuns DEF PassOK
  <2> HIDE DEF p
  <2> QED BY <2>1, <2>3, QuietStep
<1>7. ASSUME NEW r \in Runs, NEW u \in Users, NEW items \in Libraries, Fetch(r, u, items)
      PROVE  WatchInv'
  <2> DEFINE p == [run[r] EXCEPT !.at = "fetched", !.user = u, !.left = @ \ {u},
                                 !.items = items, !.raced = FALSE]
  <2>1. run[r] \in Pass /\ run[r] # NoRun
    BY <1>1, <1>7 DEF Fetch, At, Live
  <2>2. run' = [run EXCEPT ![r] = p] /\ UNCHANGED <<jid, rows, doubled>>
    BY <1>7 DEF Fetch
  <2>3. p \in Pass /\ p.at = "fetched" /\ p.user = u /\ p.pick = run[r].pick /\ p.loaded = run[r].loaded
    BY <2>1 DEF Pass
  <2> HIDE DEF p
  <2>4. PassOK(p, jid, rows)
    BY <1>1, <2>1, <2>3 DEF PassOK
  <2> QED BY <2>2, <2>3, <2>4, QuietStep
<1>8. ASSUME NEW r \in Runs, ReadWatches(r)
      PROVE  WatchInv'
  <2> DEFINE table == rows[run[r].user]
  <2>1. /\ run[r] \in Pass /\ run[r] # NoRun /\ run[r].at = "fetched" /\ run[r].user \in Users
    BY <1>1, <1>8 DEF ReadWatches, At, Live, PassOK
  <2>2. PICK pick \in Picks(table) :
          run' = [run EXCEPT ![r].at = "watches", ![r].open = TRUE, ![r].pick = pick, ![r].loaded = table]
    BY <1>8 DEF ReadWatches
  <2> DEFINE p == [run[r] EXCEPT !.at = "watches", !.open = TRUE, !.pick = pick, !.loaded = table]
  <2>3. table \in Seq(WatchRow)
    BY <1>2, <2>1
  <2>4. run' = [run EXCEPT ![r] = p] /\ UNCHANGED <<jid, rows, doubled>>
    BY <1>8, <2>2 DEF ReadWatches
  <2>5. pick \in [Movies -> Nat]
    BY <2>3, PicksAre
  <2> HIDE DEF table
  <2>6. p \in Pass /\ p.at = "watches" /\ p.user = run[r].user /\ p.pick = pick /\ p.loaded = table
    BY <2>1, <2>3, <2>5 DEF Pass
  <2> HIDE DEF p
  <2>7. PassOK(p, jid, rows)
    BY <2>1, <2>6 DEF PassOK, table
  <2> QED BY <2>4, <2>6, <2>7, QuietStep
<1>9. ASSUME NEW r \in Runs, ReadMovies(r)
      PROVE  WatchInv'
  <2> DEFINE p == [run[r] EXCEPT !.at = "ready", !.ids = jid]
  <2>1. run[r] \in Pass /\ run[r] # NoRun /\ run[r].at = "watches"
    BY <1>1, <1>9 DEF ReadMovies, At, Live
  <2>2. run' = [run EXCEPT ![r] = p] /\ UNCHANGED <<jid, rows, doubled>>
    BY <1>9 DEF ReadMovies
  <2>3. /\ p \in Pass /\ p.at = "ready" /\ p.user = run[r].user /\ p.pick = run[r].pick
        /\ p.loaded = run[r].loaded /\ p.ids = jid /\ p.raced = run[r].raced
    BY <1>2, <2>1 DEF Pass
  <2> HIDE DEF p
  <2>4. PassOK(p, jid, rows)
    BY <1>1, <1>2, <2>1, <2>3 DEF PassOK
  <2> QED BY <2>2, <2>3, <2>4, QuietStep
<1>10. CASE UNCHANGED vars
  BY <1>10 DEF WatchInv, vars, TypeOK, Live, At, PassOK, OneRowPerMovie, UniqueColumn
<1> QED BY <1>3, <1>4, <1>5, <1>6, <1>7, <1>8, <1>9, <1>10, CommitKeeps, ImportKeeps DEF Next

\* TypeOK: the state is well-typed, and a run knows for whom and with which of
\* the rows it works (sync_jellyfin_watched_movies 48-252).
THEOREM WatchesTyped == Spec => []TypeOK
<1>1. WatchInv => TypeOK
  BY DEF WatchInv
<1> QED BY <1>1, WatchInvInit, WatchInvStep, PTL DEF Spec

\* Healing the jellyfin_ids never trips the unique index, whatever Jellyfin lists,
\* unless another commit raced the run (movie_utils.py 231-232, sync 147-155).
THEOREM HealsAreUnique == Spec => []HealsNeverCollide
<1>1. ASSUME WatchInv, NEW r \in Runs, At(r, "ready"), ~run[r].raced
      PROVE  ~Clashing(r)
  <2> DEFINE acc == RunOutcome(r)
  <2>1. /\ Pending(run[r].pick, run[r].loaded, run[r].ids, run[r].items) /\ UniqueColumn(run[r].ids)
        /\ acc = Outcome(run[r].pick, run[r].loaded, run[r].ids, run[r].items)
        /\ run[r].ids = jid
    BY <1>1, ReadyPass
  <2> HIDE DEF acc
  <2>2. acc \in Acc /\ IdsLeadBack(acc)
    BY <2>1, OutcomeIs
  <2>3. WrittenIds(jid, run[r].ids, acc) = acc.ids
    BY <2>1, <2>2 DEF WrittenIds, Acc
  <2>4. UniqueColumn(acc.ids)
    BY <2>2 DEF UniqueColumn, IdsLeadBack
  <2> QED BY <2>3, <2>4 DEF Clashing, acc
<1>2. WatchInv => HealsNeverCollide
  BY <1>1 DEF HealsNeverCollide
<1> QED BY <1>2, WatchInvInit, WatchInvStep, PTL DEF Spec

\* A user has one row per movie, unless a raced commit, or an answer with two
\* items of one movie, has been written for the user (sync 62-69, 191-207).
THEOREM RowsAreSingle == Spec => []OneRowPerMovie
<1>1. WatchInv => OneRowPerMovie
  BY DEF WatchInv
<1> QED BY <1>1, WatchInvInit, WatchInvStep, PTL DEF Spec

\* A second sync with the same answer changes nothing (sync 127-236).
THEOREM SyncsSettle == Spec => []SyncSettles
<1>1. ASSUME WatchInv, NEW r \in Runs, At(r, "ready"), ~run[r].raced, ~Twins(r),
             run[r].user \notin doubled,
             NEW done, done = RunOutcome(r),
             NEW first, first = WrittenRows(run[r].loaded, run[r].pick, run[r].loaded, done),
             NEW p \in Picks(first),
             NEW again, again = Outcome(p, first, done.ids, run[r].items)
      PROVE  WrittenRows(first, p, first, again) = first /\ again.ids = done.ids
  <2>1. /\ Pending(run[r].pick, run[r].loaded, run[r].ids, run[r].items) /\ UniqueColumn(run[r].ids)
        /\ done = Outcome(run[r].pick, run[r].loaded, run[r].ids, run[r].items)
        /\ run[r].loaded = rows[run[r].user] /\ run[r].user \in Users
    BY <1>1, ReadyPass
  <2>2. NoTwinItems(run[r].items, done)
    BY <1>1, TwinsAre
  <2>3. OneEach(run[r].loaded)
    BY <1>1, <2>1 DEF WatchInv, TypeOK, OneRowPerMovie, OneEach
  <2> QED BY <1>1, <2>1, <2>2, <2>3, SecondPass
<1>2. WatchInv => SyncSettles
  BY <1>1 DEF SyncSettles
<1> QED BY <1>2, WatchInvInit, WatchInvStep, PTL DEF Spec

\* A row turns from WATCHED to DROPPED only under a run that another commit
\* raced, and which had read the row before (sync 228-236).
THEOREM WatchedStays == Spec => WatchedIsNotDropped
<1> DEFINE Keeps ==
      \A u \in Users : \A n \in DOMAIN rows[u] :
        rows[u][n].status = Watched /\ rows'[u][n].status = Dropped =>
          \E r \in Runs : At(r, "ready") /\ run[r].user = u /\ run[r].raced
<1>1. Watched \in Statuses /\ Dropped \notin Statuses
  BY MovieWatchesAssumption
<1>2. ASSUME WatchInv, NEW r \in Runs, Commit(r), NEW u \in Users, NEW n \in DOMAIN rows[u],
             rows[u][n].status = Watched, rows'[u][n].status = Dropped
      PROVE  At(r, "ready") /\ run[r].user = u /\ run[r].raced
  <2> DEFINE acc == RunOutcome(r)
             m == rows[u][n].media
  <2>1. /\ At(r, "ready")
        /\ rows' = [rows EXCEPT ![run[r].user] =
                      WrittenRows(rows[run[r].user], run[r].pick, run[r].loaded, acc)]
    BY <1>2 DEF Commit
  <2>2. /\ Pending(run[r].pick, run[r].loaded, run[r].ids, run[r].items) /\ UniqueColumn(run[r].ids)
        /\ acc = Outcome(run[r].pick, run[r].loaded, run[r].ids, run[r].items)
        /\ ~run[r].raced => run[r].loaded = rows[run[r].user]
    BY <1>2, <2>1, ReadyPass
  <2>3. rows \in [Users -> Seq(WatchRow)] /\ rows[u] \in Seq(WatchRow) /\ n \in 1..Len(rows[u])
    BY <1>2 DEF WatchInv, TypeOK
  <2>4. run[r].user = u
    BY <1>1, <1>2, <2>1
  <2> HIDE DEF acc
  <2>5. acc \in Acc /\ StatusIsRight(run[r].pick, run[r].loaded, run[r].items, acc)
    BY <2>2, OutcomeIs
  <2>6. m \in Movies
    BY <2>3, RowsAre
  <2> DEFINE after == WrittenRows(rows[u], run[r].pick, run[r].loaded, acc)
  <2>7. rows'[u] = after
    BY <2>1, <2>3, <2>4
  <2>8. Flush(rows[u], run[r].pick, run[r].loaded, acc, after)
    BY <2>3, <2>5, WrittenRowsAre
  <2> HIDE DEF after
  <2>9. run[r].pick[m] = n /\ acc.status[m] # run[r].loaded[n].status /\ acc.status[m] = Dropped
    BY <1>1, <1>2, <2>3, <2>7, <2>8 DEF Flush
  <2>10. ASSUME ~run[r].raced
         PROVE  FALSE
    <3>1. run[r].loaded[n].status = Watched /\ n # 0
      BY <1>2, <2>2, <2>3, <2>4, <2>10
    <3>2. m \in Listed(run[r].items, acc)
      BY <1>1, <2>5, <2>6, <2>9, <3>1 DEF StatusIsRight
    <3>3. PICK k \in 1..Len(run[r].items) : acc.status[m] = run[r].items[k].status
      BY <2>5, <2>6, <2>9, <3>1, <3>2 DEF StatusIsRight
    <3>4. run[r].items[k].status \in Statuses
      BY <2>2, ItemsAre DEF Pending
    <3> QED BY <1>1, <2>9, <3>3, <3>4
  <2> QED BY <2>1, <2>4, <2>10
<1>3. ASSUME WatchInv, [Next]_vars
      PROVE  Keeps
  <2>1. CASE \E r \in Runs : Commit(r)
    BY <1>2, <1>3, <2>1
  <2>2. CASE rows' = rows
    BY <1>1, <2>2
  <2>3. \A r \in Runs : Start(r) \/ Finish(r) \/ ReadWatches(r) \/ ReadMovies(r) \/ PassFails(r)
                         => rows' = rows
    BY DEF Start, Finish, ReadWatches, ReadMovies, PassFails
  <2>4. \A r \in Runs, u \in Users : FetchNothing(r, u) \/ FetchFails(r, u) => rows' = rows
    BY DEF FetchNothing, FetchFails
  <2>5. /\ \A r \in Runs, u \in Users, items \in Libraries : Fetch(r, u, items) => rows' = rows
        /\ \A m \in Movies, x \in Ids : Import(m, x) => rows' = rows
    BY DEF Fetch, Import
  <2>6. UNCHANGED vars => rows' = rows
    BY DEF vars
  <2>7. rows' = rows \/ \E r \in Runs : Commit(r)
    BY <1>3, <2>3, <2>4, <2>5, <2>6 DEF Next
  <2> QED BY <2>1, <2>2, <2>7
<1>4. ASSUME WatchInv, [Next]_vars
      PROVE  [Keeps]_vars
  BY <1>3, <1>4
<1>5. Spec => []WatchInv
  BY WatchInvInit, WatchInvStep, PTL DEF Spec
<1> QED BY <1>4, <1>5, PTL DEF Spec, WatchedIsNotDropped

\* After the commit of a run that nothing raced, the user's rows mirror what
\* Jellyfin listed (sync 127-239).
THEOREM SyncsMirrorJellyfin == Spec => RowsMirrorJellyfin
<1>1. ASSUME WatchInv, NEW r \in Runs, Commit(r), ~run[r].raced, run[r].user \notin doubled'
      PROVE  Mirror(run[r].items, jid', rows[run[r].user], rows'[run[r].user])
  <2> DEFINE u == run[r].user
             items == run[r].items
             acc == RunOutcome(r)
             before == rows[u]
             after == WrittenRows(before, run[r].pick, run[r].loaded, acc)
             byId == IndexById(acc.ids)
  <2>1. /\ At(r, "ready") /\ rows' = [rows EXCEPT ![u] = after]
        /\ jid' = WrittenIds(jid, run[r].ids, acc)
        /\ ~Twins(r) /\ u \notin doubled
    BY <1>1 DEF Commit
  <2>2. /\ Pending(run[r].pick, before, run[r].ids, items) /\ UniqueColumn(run[r].ids)
        /\ acc = Outcome(run[r].pick, before, run[r].ids, items)
        /\ run[r].loaded = before /\ run[r].ids = jid /\ u \in Users
    BY <1>1, <2>1, ReadyPass
  <2>3. NoTwinItems(items, acc)
    BY <1>1, <2>1, TwinsAre
  <2>4. rows \in [Users -> Seq(WatchRow)] /\ before \in Seq(WatchRow) /\ OneEach(before)
    <3>1. rows \in [Users -> Seq(WatchRow)] /\ before \in Seq(WatchRow)
      BY <1>1, <2>2 DEF WatchInv, TypeOK
    <3>2. \A a, b \in DOMAIN before : before[a].media = before[b].media => a = b
      BY <1>1, <2>1, <2>2 DEF WatchInv, OneRowPerMovie
    <3> QED BY <3>1, <3>2 DEF OneEach
  <2>5. rows'[u] = after /\ after = WrittenRows(before, run[r].pick, before, acc)
    BY <2>1, <2>2, <2>4
  <2> HIDE DEF acc, before, after, items
  <2>6. /\ acc \in Acc /\ IdsLeadBack(acc) /\ FoundById(items, acc) /\ AllSynced(run[r].pick, items, acc)
    BY <2>2, <2>3, OutcomeIs
  <2>7. after \in Seq(WatchRow) /\ items \in Seq(Item)
    BY <2>2, <2>4, <2>5, <2>6, WrittenRowsAre DEF Flush, Pending
  <2>8. OneEach(after) /\ RowsShow(items, acc, after) /\ RowsDrop(items, acc, before, after)
    BY <2>2, <2>3, <2>4, <2>5, UndisturbedRows
  <2>9. jid' = acc.ids
    BY <2>1, <2>2, <2>6 DEF WrittenIds, Acc
  <2>10. \A k \in 1..Len(items) : Resolve(items[k], byId) = MovieOfItem(items, acc, k)
    BY <2>6, <2>7, IndexedAsBefore
  <2>11. DOMAIN items = 1..Len(items) /\ DOMAIN after = 1..Len(after) /\ DOMAIN before = 1..Len(before)
         /\ Len(items) \in Nat
    BY <2>4, <2>7
  <2> DEFINE itemsOf(m) == {n \in DOMAIN items : Resolve(items[n], byId) = m}
             rowsOf(m) == {n \in DOMAIN after : after[n].media = m}
             latest(S) == CHOOSE n \in S : \A k \in S : k <= n
  <2> HIDE DEF byId
  <2>12. ASSUME NEW m \in Movies, itemsOf(m) # {}
         PROVE  \E n \in rowsOf(m) : after[n].status = items[latest(itemsOf(m))].status
    <3>1. PICK k \in 1..Len(items) : MovieOfItem(items, acc, k) = m
      BY <2>10, <2>11, <2>12
    <3>2. m # NoMovie
      BY MovieWatchesAssumption
    <3>3. ASSUME NEW j \in 1..Len(items), MovieOfItem(items, acc, j) = m
          PROVE  j = k
      <4>1. ~(j < k) /\ ~(k < j)
        BY <2>3, <3>1, <3>2, <3>3 DEF NoTwinItems
      <4> QED BY <2>11, <4>1
    <3>4. itemsOf(m) = {k}
      BY <2>10, <2>11, <3>1, <3>3
    <3>5. latest({k}) = k
      BY <2>11
    <3> HIDE DEF itemsOf, latest
    <3>6. PICK n \in 1..Len(after) : after[n].media = m /\ after[n].status = items[k].status
      BY <2>8, <3>1, <3>2 DEF RowsShow
    <3> QED BY <2>11, <3>4, <3>5, <3>6
  <2>13. ASSUME NEW m \in Movies, itemsOf(m) = {}, NEW n \in rowsOf(m)
         PROVE  \/ after[n].status = Dropped
                \/ after[n].status = Watched /\ n \in DOMAIN before /\ before[n].status = Watched
    <3>1. m \notin Listed(items, acc)
      BY <2>10, <2>11, <2>13 DEF Listed
    <3>2. n \in 1..Len(after) /\ after[n].media = m
      BY <2>11, <2>13
    <3> QED BY <2>8, <2>11, <3>1, <3>2 DEF RowsDrop
  <2>14. Mirror(items, acc.ids, before, after)
    BY <2>12, <2>13 DEF Mirror, byId
  <2> QED BY <2>5, <2>9, <2>14 DEF before, items
<1> DEFINE Mirrors ==
      \A r \in Runs :
        /\ At(r, "ready") /\ ~run[r].raced /\ run[r].user \notin doubled'
        /\ run'[r] # NoRun /\ run'[r].at = "between"
        => Mirror(run[r].items, jid', rows[run[r].user], rows'[run[r].user])
<1>2. ASSUME WatchInv, [Next]_vars, NEW r \in Runs, At(r, "ready"),
             run'[r] # NoRun, run'[r].at = "between"
      PROVE  Commit(r)
  <2>1. run \in [Runs -> {NoRun} \cup Pass] /\ run[r] \in Pass /\ run[r].at = "ready" /\ Live(r)
    BY <1>2 DEF WatchInv, TypeOK, At, Live
  <2>2. Raced(r).at = "ready"
    BY <2>1 DEF Raced, Pass
  <2>3. ASSUME NEW q \in Runs, q # r, Commit(q)
        PROVE  FALSE
    BY <1>2, <2>2, <2>3 DEF Commit
  <2>4. ASSUME NEW m \in Movies, NEW x \in Ids, Import(m, x)
        PROVE  FALSE
    BY <1>2, <2>2, <2>4 DEF Import
  <2>5. run' # run
    BY <1>2, <2>1
  <2>6. ASSUME NEW q \in Runs, Start(q) \/ Finish(q) \/ ReadWatches(q)
                \/ \E u \in Users : FetchNothing(q, u) \/ FetchFails(q, u)
                                    \/ \E items \in Libraries : Fetch(q, u, items)
        PROVE  FALSE
    <3>1. q # r
      BY <2>1, <2>6 DEF Start, Finish, ReadWatches, FetchNothing, FetchFails, Fetch, At
    <3>2. run'[r] = run[r]
      BY <2>1, <2>6, <3>1 DEF Start, Finish, ReadWatches, FetchNothing, FetchFails, Fetch
    <3> QED BY <1>2, <2>1, <3>2
  <2>7. ASSUME NEW q \in Runs, ReadMovies(q) \/ PassFails(q)
        PROVE  FALSE
    BY <1>2, <2>1, <2>7 DEF ReadMovies, PassFails, At
  <2> QED BY <1>2, <2>3, <2>4, <2>5, <2>6, <2>7 DEF Next, vars
<1>3. ASSUME WatchInv, [Next]_vars
      PROVE  Mirrors
  BY <1>1, <1>2, <1>3
<1>4. ASSUME WatchInv, [Next]_vars
      PROVE  [Mirrors]_vars
  BY <1>3, <1>4
<1>5. Spec => []WatchInv
  BY WatchInvInit, WatchInvStep, PTL DEF Spec
<1> QED BY <1>4, <1>5, PTL DEF Spec, RowsMirrorJellyfin

=============================================================================
