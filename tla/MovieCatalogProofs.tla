-------------------------- MODULE MovieCatalogProofs --------------------------
(***************************************************************************)
(* What the imports of movies keep to, for any number of runs, movies,     *)
(* identifiers and answers.                                                *)
(*                                                                         *)
(* The invariant is about a run that no commit has raced: what it changed  *)
(* was missing in the table, and every item it is done with is settled,    *)
(* that is, its movie would be found again and lacks no id of the item.    *)
(***************************************************************************)
EXTENDS MovieCatalog, FiniteSetTheorems, TLAPS

Table == [Slots -> Record]

RunState == [todo : Seq(Record), done : Seq(Record), mine : Table, raced : BOOLEAN]

CatalogTyped == movies \in Table /\ run \in [Runs -> {NoRun} \cup RunState]

\* Everything the run has to do or has done comes from one answer.
AnswersOne(r) ==
  \E c \in OwnColumns : \E items \in Answers[c] :
    run[r].todo \in Seq(Range(items)) /\ run[r].done \in Seq(Range(items))

\* The run has filled only ids that are missing in the committed table.
FillsMissing(r) ==
  \A i \in Slots, c \in Columns : run[r].mine[i][c] # NoId => movies[i][c] = NoId

\* Movie m is found for the item, and has an id wherever the item has.
SettledBy(table, item, m) ==
  /\ \A c \in Columns : item[c] = NoId \/ table[m][c] # NoId
  /\ \/ m \in ByOwnId(table, item)
     \/ ByOwnId(table, item) = {} /\ m \in ByExternalIds(table, item)

Settled(table, item) == \E m \in Slots : SettledBy(table, item, m)

DoneIsSettled(r) ==
  \A n \in DOMAIN run[r].done :
    run[r].done[n] = Blank \/ Settled(View(r), run[r].done[n])

RunIsSound(r) ==
  Live(r) => AnswersOne(r) /\ (~run[r].raced => FillsMissing(r) /\ DoneIsSettled(r))

CatalogInv == CatalogTyped /\ \A r \in Runs : RunIsSound(r)

-----------------------------------------------------------------------------
(* Tables.                                                                  *)

\* new holds the identifiers of old, and those that it adds are the item's.
AddsOf(old, new, item) ==
  /\ new \in Table
  /\ \A i \in Slots, c \in Columns :
       new[i][c] # old[i][c] => old[i][c] = NoId /\ new[i][c] = item[c]

LEMMA CellsOfATable ==
  ASSUME NEW table \in Table
  PROVE  \A i \in Slots : /\ table[i] \in Record
                          /\ \A c \in Columns : table[i][c] \in Values \cup {NoId}
BY DEF Table, Record

LEMMA BlankIsARecord == Blank \in Record /\ \A c \in Columns : Blank[c] = NoId
BY DEF Blank, Record

\* Two records with the same identifiers are the same.
LEMMA SameIdsSameRecord ==
  ASSUME NEW x \in Record, NEW y \in Record, \A c \in Columns : x[c] = y[c]
  PROVE  x = y
BY DEF Record

LEMMA FilledCells ==
  ASSUME NEW x \in Record, NEW item \in Record
  PROVE  /\ Filled(x, item) \in Record
         /\ \A c \in Columns : Filled(x, item)[c] = IF x[c] = NoId THEN item[c] ELSE x[c]
BY DEF Filled, Record

LEMMA OverlayCells ==
  ASSUME NEW base \in Table, NEW mine \in Table
  PROVE  /\ Overlay(base, mine) \in Table
         /\ \A i \in Slots, c \in Columns :
              Overlay(base, mine)[i][c] = IF mine[i][c] # NoId THEN mine[i][c] ELSE base[i][c]
<1>1. \A i \in Slots, c \in Columns :
        base[i][c] \in Values \cup {NoId} /\ mine[i][c] \in Values \cup {NoId}
  BY CellsOfATable
<1> QED BY <1>1 DEF Overlay, Table, Record

\* The search: who it finds, and that a movie stays found as identifiers are added.
LEMMA MatchesAre ==
  ASSUME NEW table, NEW cols, NEW item, NEW i
  PROVE  i \in Matches(table, cols, item) <=>
           i \in Slots /\ \E c \in cols : item[c] # NoId /\ table[i][c] = item[c]
BY DEF Matches

LEMMA MatchesStay ==
  ASSUME NEW old, NEW new, NEW item, NEW other, AddsOf(old, new, other),
         NEW cols \in SUBSET Columns, NEW i \in Matches(old, cols, item)
  PROVE  i \in Matches(new, cols, item)
BY DEF Matches, AddsOf

\* A search that is not ambiguous and finds somebody finds one movie.
LEMMA OneCandidate ==
  ASSUME NEW table, NEW item, ~Ambiguous(table, item), NEW m \in Candidates(table, item)
  PROVE  \A k \in Candidates(table, item) : k = m
<1>1. Candidates(table, item) \subseteq Slots
  BY DEF Candidates, ByOwnId, ByExternalIds, Matches
<1>2. IsFiniteSet(Candidates(table, item))
  BY <1>1, MovieCatalogAssumption, FS_Subset
<1>3. SUFFICES ASSUME NEW k \in Candidates(table, item), k # m
               PROVE  FALSE
  OBVIOUS
<1>4. IsFiniteSet({k, m}) /\ Cardinality({k, m}) = 2
  <2>1. IsFiniteSet({m}) /\ Cardinality({m}) = 1
    BY FS_Singleton
  <2>2. k \notin {m} /\ {m} \cup {k} = {k, m}
    BY <1>3
  <2> QED BY <2>1, <2>2, FS_AddElement
<1>5. Cardinality({k, m}) <= Cardinality(Candidates(table, item))
  BY <1>2, <1>3, FS_Subset
<1>6. Cardinality(Candidates(table, item)) \in Nat
  BY <1>2, FS_CardinalityType
<1> QED BY <1>4, <1>5, <1>6 DEF Ambiguous

\* An item that is settled is found again, and its movie has nothing to fill.
LEMMA SettledStaysAsItIs ==
  ASSUME NEW table \in Table, NEW item \in Record, Settled(table, item)
  PROVE  /\ Candidates(table, item) # {}
         /\ ~Ambiguous(table, item) => Updated(table, item) = table
<1>1. PICK m \in Slots : SettledBy(table, item, m)
  BY DEF Settled
<1>2. m \in Candidates(table, item)
  BY <1>1 DEF SettledBy, Candidates
<1>3. ASSUME ~Ambiguous(table, item)
      PROVE  Updated(table, item) = table
  <2>1. (CHOOSE k \in Candidates(table, item) : TRUE) = m
    BY <1>2, <1>3, OneCandidate
  <2>2. Updated(table, item) = [table EXCEPT ![m] = Filled(table[m], item)]
    BY <2>1 DEF Updated
  <2>3. table[m] \in Record
    BY CellsOfATable
  <2>4. \A c \in Columns : Filled(table[m], item)[c] = table[m][c]
    BY <1>1, <2>3, FilledCells DEF SettledBy
  <2>5. Filled(table[m], item) = table[m]
    BY <2>3, <2>4, FilledCells, SameIdsSameRecord
  <2> QED BY <2>2, <2>5 DEF Table
<1> QED BY <1>2, <1>3

\* Filling the movie that was found.
LEMMA UpdateAddsAndSettles ==
  ASSUME NEW table \in Table, NEW item \in Record, Candidates(table, item) # {}
  PROVE  AddsOf(table, Updated(table, item), item) /\ Settled(Updated(table, item), item)
<1> DEFINE m == CHOOSE k \in Candidates(table, item) : TRUE
           new == Updated(table, item)
<1>1. m \in Candidates(table, item)
  OBVIOUS
<1>2. m \in Slots
  BY <1>1 DEF Candidates, ByOwnId, ByExternalIds, Matches
<1>3. new = [table EXCEPT ![m] = Filled(table[m], item)]
  BY DEF Updated
<1> HIDE DEF m, new
<1>4. /\ \A i \in Slots : table[i] \in Record
      /\ \A i \in Slots, c \in Columns : table[i][c] \in Values \cup {NoId}
      /\ \A c \in Columns : item[c] \in Values \cup {NoId}
  BY CellsOfATable DEF Record
<1>5. Filled(table[m], item) \in Record
  BY <1>2, <1>4, FilledCells
<1>6. new \in Table
  BY <1>3, <1>5 DEF Table
<1>7. \A i \in Slots, c \in Columns :
        new[i][c] = IF i = m /\ table[i][c] = NoId THEN item[c] ELSE table[i][c]
  <2>1. \A c \in Columns : Filled(table[m], item)[c] = IF table[m][c] = NoId THEN item[c] ELSE table[m][c]
    BY <1>2, <1>4, FilledCells
  <2>2. \A i \in Slots : new[i] = IF i = m THEN Filled(table[m], item) ELSE table[i]
    BY <1>3 DEF Table
  <2> QED BY <2>1, <2>2
<1>8. AddsOf(table, new, item)
  BY <1>6, <1>7 DEF AddsOf
\* The movie is still found by what it was found by, unless its own id was filled.
<1>9. SettledBy(new, item, m)
  <2>1. \A c \in Columns : item[c] = NoId \/ new[m][c] # NoId
    BY <1>2, <1>7
  <2>2. CASE ByOwnId(table, item) # {}
    <3>1. m \in ByOwnId(table, item)
      BY <1>1, <2>2 DEF Candidates
    <3>2. m \in ByOwnId(new, item)
      BY <1>8, <3>1, MatchesStay DEF ByOwnId, Columns
    <3> QED BY <2>1, <3>2 DEF SettledBy
  <2>3. CASE ByOwnId(table, item) = {}
    <3>1. m \in ByExternalIds(table, item)
      BY <1>1, <2>3 DEF Candidates
    <3>2. m \in ByExternalIds(new, item)
      BY <1>8, <3>1, MatchesStay DEF ByExternalIds, Columns
    <3>3. ASSUME NEW k \in ByOwnId(new, item)
          PROVE  k = m
      <4>1. PICK c \in OwnColumns : k \in Slots /\ item[c] # NoId /\ new[k][c] = item[c]
        BY <3>3, MatchesAre DEF ByOwnId
      <4>2. table[k][c] # item[c]
        <5> SUFFICES ASSUME table[k][c] = item[c] PROVE FALSE
          OBVIOUS
        <5>1. k \in ByOwnId(table, item)
          BY <4>1 DEF ByOwnId, Matches
        <5> QED BY <2>3, <5>1
      <4> QED BY <1>7, <4>1, <4>2 DEF Columns
    <3> QED BY <2>1, <3>2, <3>3 DEF SettledBy
  <2> QED BY <2>2, <2>3
<1> QED BY <1>2, <1>8, <1>9 DEF Settled, new

\* Creating a movie where nothing was found.
LEMMA CreationAddsAndSettles ==
  ASSUME NEW table \in Table, NEW item \in Record, item # Blank, NEW i \in Slots, table[i] = Blank,
         Candidates(table, item) = {}
  PROVE  AddsOf(table, Created(table, i, item), item) /\ Settled(Created(table, i, item), item)
<1> DEFINE new == Created(table, i, item)
<1>1. new \in Table /\ \A j \in Slots : new[j] = IF j = i THEN item ELSE table[j]
  BY DEF Table, Created
<1> HIDE DEF new
<1>2. AddsOf(table, new, item)
  BY <1>1, BlankIsARecord DEF AddsOf
<1>3. PICK d \in Columns : item[d] # NoId
  BY BlankIsARecord, SameIdsSameRecord
<1>4. ByOwnId(table, item) = {} /\ ByExternalIds(table, item) = {}
  BY DEF Candidates
<1>5. \A j \in Slots : j \in ByOwnId(new, item) => j = i
  <2>1. ASSUME NEW j \in Slots, j \in ByOwnId(new, item), j # i
        PROVE  FALSE
    <3>1. PICK c \in OwnColumns : item[c] # NoId /\ new[j][c] = item[c]
      BY <2>1, MatchesAre DEF ByOwnId
    <3>2. j \in ByOwnId(table, item)
      BY <1>1, <2>1, <3>1, MatchesAre DEF ByOwnId
    <3> QED BY <1>4, <3>2
  <2> QED BY <2>1
<1>6. i \in ByOwnId(new, item) \/ i \in ByExternalIds(new, item)
  <2>1. d \in OwnColumns \/ d \in External
    BY DEF Columns
  <2> QED BY <1>1, <1>3, <2>1, MatchesAre DEF ByOwnId, ByExternalIds
<1>7. SettledBy(new, item, i)
  <2>1. \A c \in Columns : item[c] = NoId \/ new[i][c] # NoId
    BY <1>1
  <2>2. ByOwnId(new, item) \subseteq Slots
    BY DEF ByOwnId, Matches
  <2> QED BY <1>5, <1>6, <2>1, <2>2 DEF SettledBy
<1> QED BY <1>2, <1>7 DEF Settled, new

\* Another item of the same answer: what was settled stays so.  If its own id had
\* appeared at another movie, it would be the same item, and that changes nothing.
LEMMA OthersStaySettled ==
  ASSUME NEW c \in OwnColumns, NEW items \in Answers[c],
         NEW item \in Range(items), NEW other \in Range(items),
         NEW old \in Table, NEW new, AddsOf(old, new, item), Settled(old, other),
         item = other => new = old
  PROVE  Settled(new, other)
<1>1. PICK m \in Slots : SettledBy(old, other, m)
  BY DEF Settled
<1>2. \A d \in Columns : other[d] = NoId \/ new[m][d] # NoId
  BY <1>1 DEF SettledBy, AddsOf
<1>3. CASE m \in ByOwnId(old, other)
  <2>1. m \in ByOwnId(new, other)
    BY <1>3, MatchesStay DEF ByOwnId, Columns
  <2> QED BY <1>2, <2>1 DEF Settled, SettledBy
<1>4. CASE ByOwnId(old, other) = {} /\ m \in ByExternalIds(old, other)
  <2>1. m \in ByExternalIds(new, other)
    BY <1>4, MatchesStay DEF ByExternalIds, Columns
  <2>2. ASSUME NEW k \in ByOwnId(new, other)
        PROVE  FALSE
    <3>1. PICK d \in OwnColumns : k \in Slots /\ other[d] # NoId /\ new[k][d] = other[d]
      BY <2>2, MatchesAre DEF ByOwnId
    <3>2. d = c
      BY <3>1, MovieCatalogAssumption
    <3>3. old[k][d] # other[d]
      <4> SUFFICES ASSUME old[k][d] = other[d] PROVE FALSE
        OBVIOUS
      <4>1. k \in ByOwnId(old, other)
        BY <3>1 DEF ByOwnId, Matches
      <4> QED BY <1>4, <4>1
    <3>4. item[d] = other[d]
      BY <3>1, <3>3 DEF AddsOf, Columns
    <3>5. item = other
      BY <3>1, <3>2, <3>4, MovieCatalogAssumption
    <3> QED BY <3>1, <3>3, <3>5
  <2> QED BY <1>2, <2>1, <2>2 DEF Settled, SettledBy
<1> QED BY <1>1, <1>3, <1>4 DEF SettledBy

-----------------------------------------------------------------------------
(* The runs.                                                                *)

\* What a run sees after it has changed the table it saw.
LEMMA ChangeIsSeen ==
  ASSUME CatalogTyped, NEW r \in Runs, Live(r), NEW item, NEW table,
         AddsOf(View(r), table, item), Change(r, table), UNCHANGED movies,
         run[r].todo # <<>>
  PROVE  /\ run'[r] \in RunState
         /\ View(r)' = table
         /\ run'[r].raced = run[r].raced
         /\ FillsMissing(r) => FillsMissing(r)'
<1>1. /\ run[r] \in RunState /\ movies \in Table
      /\ \A i \in Slots, c \in Columns : run[r].mine[i][c] \in Values \cup {NoId}
      /\ \A i \in Slots, c \in Columns : table[i][c] \in Values \cup {NoId}
  BY CellsOfATable DEF CatalogTyped, Live, RunState, AddsOf
<1>2. /\ View(r) \in Table
      /\ \A i \in Slots, c \in Columns :
           View(r)[i][c] = IF run[r].mine[i][c] # NoId THEN run[r].mine[i][c] ELSE movies[i][c]
  BY <1>1, OverlayCells DEF View, RunState
<1> DEFINE mine == [i \in Slots |-> [c \in Columns |->
             IF table[i][c] # View(r)[i][c] THEN table[i][c] ELSE run[r].mine[i][c]]]
<1>3. /\ mine \in Table
      /\ \A i \in Slots, c \in Columns :
           mine[i][c] = IF table[i][c] # View(r)[i][c] THEN table[i][c] ELSE run[r].mine[i][c]
  BY <1>1 DEF Table, Record
<1>4. run'[r] = [run[r] EXCEPT !.todo = Tail(@), !.done = Append(@, Head(run[r].todo)), !.mine = mine]
  BY <1>1 DEF Change, CatalogTyped
<1> HIDE DEF mine
<1>5. /\ Tail(run[r].todo) \in Seq(Record)
      /\ Append(run[r].done, Head(run[r].todo)) \in Seq(Record)
  BY <1>1 DEF RunState
<1>6. run'[r] \in RunState /\ run'[r].mine = mine /\ run'[r].raced = run[r].raced
  BY <1>1, <1>3, <1>4, <1>5 DEF RunState
<1>7. View(r)' = table
  <2>1. View(r)' = Overlay(movies, mine)
    BY <1>6 DEF View, Overlay
  <2>2. /\ Overlay(movies, mine) \in Table
        /\ \A i \in Slots, c \in Columns :
             Overlay(movies, mine)[i][c] = IF mine[i][c] # NoId THEN mine[i][c] ELSE movies[i][c]
    BY <1>1, <1>3, OverlayCells
  <2>3. \A i \in Slots, c \in Columns : Overlay(movies, mine)[i][c] = table[i][c]
    BY <1>2, <1>3, <2>2 DEF AddsOf
  <2>4. \A i \in Slots : Overlay(movies, mine)[i] = table[i]
    BY <2>2, <2>3, CellsOfATable, SameIdsSameRecord DEF AddsOf
  <2> QED BY <2>1, <2>2, <2>4 DEF AddsOf, Table
<1>8. FillsMissing(r) => FillsMissing(r)'
  <2> SUFFICES ASSUME FillsMissing(r), NEW i \in Slots, NEW c \in Columns, mine[i][c] # NoId
               PROVE  movies[i][c] = NoId
    BY <1>6 DEF FillsMissing
  <2>1. CASE table[i][c] # View(r)[i][c]
    BY <1>2, <2>1 DEF AddsOf
  <2>2. CASE table[i][c] = View(r)[i][c]
    BY <1>3, <2>2 DEF FillsMissing
  <2> QED BY <2>1, <2>2
<1> QED BY <1>6, <1>7, <1>8

\* The table after one item: Blank items are skipped, others are settled in it.
LEMMA ProcessMakes ==
  ASSUME CatalogTyped, NEW r \in Runs, Process(r), NEW item \in Record,
         item = Head(run[r].todo), View(r) \in Table
  PROVE  \E table : /\ Change(r, table)
                    /\ AddsOf(View(r), table, item)
                    /\ item = Blank \/ Settled(table, item)
                    /\ Settled(View(r), item) => table = View(r)
<1>1. ~Ambiguous(View(r), item)
  BY DEF Process
<1>2. CASE item = Blank /\ Change(r, View(r))
  <2>1. AddsOf(View(r), View(r), item)
    BY DEF AddsOf
  <2> QED BY <1>2, <2>1
<1>3. CASE Candidates(View(r), item) # {} /\ Change(r, Updated(View(r), item))
  BY <1>1, <1>3, UpdateAddsAndSettles, SettledStaysAsItIs
<1>4. CASE /\ item # Blank /\ Candidates(View(r), item) = {}
           /\ \E i \in Free(View(r)) : Change(r, Created(View(r), i, item))
  <2>1. PICK i \in Slots : View(r)[i] = Blank /\ Change(r, Created(View(r), i, item))
    BY <1>4 DEF Free, Exists
  <2>2. ~Settled(View(r), item)
    BY <1>4, SettledStaysAsItIs
  <2> QED BY <1>4, <2>1, <2>2, CreationAddsAndSettles
<1> QED BY <1>2, <1>3, <1>4 DEF Process

\* The run that processes an item stays sound.
LEMMA ProcessKeepsTheRun ==
  ASSUME CatalogTyped, NEW r \in Runs, RunIsSound(r), Process(r)
  PROVE  run'[r] \in RunState /\ RunIsSound(r)'
<1> DEFINE item == Head(run[r].todo)
           todo == run[r].todo
           done == run[r].done
<1>1. /\ Live(r) /\ run[r] \in RunState /\ movies \in Table /\ movies' = movies
      /\ todo # <<>>
  BY DEF Process, CatalogTyped, Live
<1>2. PICK c \in OwnColumns : \E items \in Answers[c] :
        todo \in Seq(Range(items)) /\ done \in Seq(Range(items))
  BY <1>1 DEF RunIsSound, AnswersOne
<1>3. PICK items \in Answers[c] : todo \in Seq(Range(items)) /\ done \in Seq(Range(items))
  BY <1>2
<1>4. item \in Record /\ item \in Range(items)
  BY <1>1, <1>3 DEF RunState
<1>5. View(r) \in Table
  BY <1>1, OverlayCells DEF View, RunState
<1>6. PICK table : /\ Change(r, table)
                   /\ AddsOf(View(r), table, item)
                   /\ item = Blank \/ Settled(table, item)
                   /\ Settled(View(r), item) => table = View(r)
  BY <1>4, <1>5, ProcessMakes
<1>7. /\ run'[r] \in RunState /\ View(r)' = table /\ run'[r].raced = run[r].raced
      /\ FillsMissing(r) => FillsMissing(r)'
  BY <1>1, <1>6, ChangeIsSeen
<1>8. run'[r].todo = Tail(todo) /\ run'[r].done = Append(done, item)
  BY <1>1, <1>6 DEF Change, CatalogTyped, RunState
<1>9. AnswersOne(r)'
  <2>1. Tail(todo) \in Seq(Range(items)) /\ Append(done, item) \in Seq(Range(items))
    BY <1>1, <1>3, <1>4
  <2> QED BY <1>8, <2>1 DEF AnswersOne
<1>10. ASSUME DoneIsSettled(r)
       PROVE  DoneIsSettled(r)'
  <2> DEFINE after == Append(done, item)
  <2>1. /\ DOMAIN after = 1..(Len(done) + 1) /\ Len(done) \in Nat
        /\ \A n \in 1..Len(done) : after[n] = done[n] /\ done[n] \in Range(items)
        /\ after[Len(done) + 1] = item
    BY <1>3, <1>4
  <2>2. ASSUME NEW n \in 1..Len(done)
        PROVE  done[n] = Blank \/ Settled(table, done[n])
    <3>1. done[n] = Blank \/ Settled(View(r), done[n])
      BY <1>10, <2>2, <1>3 DEF DoneIsSettled
    <3>2. done[n] \in Range(items)
      BY <2>1
    <3>3. ASSUME Settled(View(r), done[n])
          PROVE  Settled(table, done[n])
      <4>1. item = done[n] => table = View(r)
        BY <1>6, <3>3
      <4> HIDE DEF item, done
      <4> QED BY <1>4, <1>5, <1>6, <3>2, <3>3, <4>1, OthersStaySettled
    <3> QED BY <3>1, <3>3
  <2>3. ASSUME NEW n \in DOMAIN after
        PROVE  after[n] = Blank \/ Settled(table, after[n])
    <3>1. CASE n \in 1..Len(done)
      BY <2>1, <2>2, <3>1
    <3>2. CASE n = Len(done) + 1
      BY <1>6, <2>1, <3>2
    <3> HIDE DEF after
    <3> QED BY <2>1, <3>1, <3>2
  <2> QED BY <1>7, <1>8, <2>3 DEF DoneIsSettled
<1> QED BY <1>1, <1>7, <1>9, <1>10 DEF RunIsSound

LEMMA CatalogInit == Init => CatalogInv
<1> SUFFICES ASSUME Init PROVE CatalogInv
  OBVIOUS
<1>1. CatalogTyped
  BY BlankIsARecord DEF Init, CatalogTyped, Table
<1>2. \A r \in Runs : ~Live(r)
  BY DEF Init, Live
<1> QED BY <1>1, <1>2 DEF CatalogInv, RunIsSound

LEMMA CatalogStep ==
  ASSUME CatalogInv, [Next]_vars
  PROVE  CatalogInv'
<1>1. CatalogTyped /\ \A r \in Runs : RunIsSound(r)
  BY DEF CatalogInv
\* A run that does not move, while the table does not, stays sound.
<1>2. ASSUME UNCHANGED movies, NEW q \in Runs, run'[q] = run[q]
      PROVE  RunIsSound(q)'
  BY <1>1, <1>2 DEF RunIsSound, Live, AnswersOne, FillsMissing, DoneIsSettled, View, Overlay
<1>3. CASE UNCHANGED vars
  BY <1>1, <1>2, <1>3 DEF vars, CatalogInv, CatalogTyped
<1>4. ASSUME NEW r \in Runs, NEW c \in OwnColumns, NEW items \in Answers[c], Start(r, c, items)
      PROVE  CatalogInv'
  <2> DEFINE new == [todo |-> items, done |-> <<>>, mine |-> [i \in Slots |-> Blank], raced |-> FALSE]
  <2>1. run' = [run EXCEPT ![r] = new] /\ movies' = movies
    BY <1>4 DEF Start
  <2>2. items \in Seq(Record) /\ items \in Seq(Range(items))
    BY MovieCatalogAssumption DEF Range
  <2>3. new \in RunState
    BY <2>2, BlankIsARecord DEF RunState, Table
  <2>4. CatalogTyped'
    BY <1>1, <2>1, <2>3 DEF CatalogTyped
  <2>5. run'[r] = new /\ \A q \in Runs : q # r => run'[q] = run[q]
    BY <1>1, <2>1 DEF CatalogTyped
  <2>6. AnswersOne(r)'
    BY <2>2, <2>5 DEF AnswersOne
  <2>7. FillsMissing(r)'
    BY <2>5, BlankIsARecord DEF FillsMissing
  <2>8. DoneIsSettled(r)'
    BY <2>5 DEF DoneIsSettled
  <2> QED BY <1>2, <2>1, <2>4, <2>5, <2>6, <2>7, <2>8 DEF CatalogInv, RunIsSound
<1>5. ASSUME NEW r \in Runs, Process(r)
      PROVE  CatalogInv'
  <2>1. movies' = movies /\ \A q \in Runs : q # r => run'[q] = run[q]
    BY <1>1, <1>5 DEF Process, Change, CatalogTyped
  <2>2. run'[r] \in RunState /\ RunIsSound(r)'
    BY <1>1, <1>5, ProcessKeepsTheRun
  <2>3. DOMAIN run' = Runs /\ run' = [q \in Runs |-> run'[q]]
    BY <1>1, <1>5 DEF Process, Change, CatalogTyped
  <2>4. CatalogTyped'
    BY <1>1, <2>1, <2>2, <2>3 DEF CatalogTyped
  <2> QED BY <1>2, <2>1, <2>2, <2>4 DEF CatalogInv
<1>6. ASSUME NEW r \in Runs, Fails(r)
      PROVE  CatalogInv'
  <2>1. movies' = movies /\ run' = [run EXCEPT ![r] = NoRun]
    BY <1>6 DEF Fails
  <2>2. CatalogTyped' /\ run'[r] = NoRun /\ \A q \in Runs : q # r => run'[q] = run[q]
    BY <1>1, <2>1 DEF CatalogTyped
  <2>3. RunIsSound(r)'
    BY <2>2 DEF RunIsSound, Live
  <2> QED BY <1>2, <2>1, <2>2, <2>3 DEF CatalogInv
\* A commit races every other run, so that nothing is claimed of it any more.
<1>7. ASSUME NEW r \in Runs, Commit(r)
      PROVE  CatalogInv'
  <2>1. run[r] \in RunState /\ movies' = View(r)
    BY <1>1, <1>7 DEF Commit, CatalogTyped, Live
  <2>2. View(r) \in Table
    BY <1>1, <2>1, OverlayCells DEF CatalogTyped, View, RunState
  <2>3. ASSUME NEW q \in Runs, Live(q)
        PROVE  /\ [run[q] EXCEPT !.raced = TRUE] \in RunState
               /\ [run[q] EXCEPT !.raced = TRUE].raced
               /\ [run[q] EXCEPT !.raced = TRUE].todo = run[q].todo
               /\ [run[q] EXCEPT !.raced = TRUE].done = run[q].done
    BY <1>1, <2>3 DEF CatalogTyped, Live, RunState
  <2>4. run' = [q \in Runs |-> IF q = r THEN NoRun
                 ELSE IF Live(q) THEN [run[q] EXCEPT !.raced = TRUE] ELSE NoRun]
    BY <1>7 DEF Commit
  <2>5. CatalogTyped'
    BY <2>1, <2>2, <2>3, <2>4 DEF CatalogTyped
  <2>6. ASSUME NEW q \in Runs
        PROVE  RunIsSound(q)'
    <3>1. CASE q = r \/ ~Live(q)
      BY <2>4, <3>1 DEF RunIsSound, Live
    <3>2. CASE q # r /\ Live(q)
      <4>1. run'[q] = [run[q] EXCEPT !.raced = TRUE]
        BY <2>4, <3>2
      <4>2. run'[q].raced /\ run'[q].todo = run[q].todo /\ run'[q].done = run[q].done
        BY <2>3, <3>2, <4>1
      <4>3. AnswersOne(q)
        BY <1>1, <3>2 DEF RunIsSound
      <4>4. AnswersOne(q)'
        BY <4>2, <4>3 DEF AnswersOne
      <4> QED BY <4>2, <4>4 DEF RunIsSound
    <3> QED BY <3>1, <3>2
  <2> QED BY <2>5, <2>6 DEF CatalogInv
<1> QED BY <1>3, <1>4, <1>5, <1>6, <1>7 DEF Next

LEMMA CatalogIsSound == Spec => []CatalogInv
BY CatalogInit, CatalogStep, PTL DEF Spec

-----------------------------------------------------------------------------
(* The theorems.                                                            *)

(* Importing an answer again changes nothing, whatever the answer, as long   *)
(* as no other import has committed since: what an item filled is found      *)
(* again by it, and lacks nothing of it (radarr_service.py 48-100,           *)
(* import_jellyfin_movies_service.py 45-85).                                 *)
THEOREM ImportsSettle == Spec => []ReimportSettles
<1>1. CatalogInv => ReimportSettles
  <2> SUFFICES ASSUME CatalogInv, NEW r \in Runs, Live(r), ~run[r].raced,
                      NEW n \in DOMAIN run[r].done, run[r].done[n] # Blank
               PROVE  /\ Candidates(View(r), run[r].done[n]) # {}
                      /\ ~Ambiguous(View(r), run[r].done[n]) =>
                           Updated(View(r), run[r].done[n]) = View(r)
    BY DEF ReimportSettles
  <2>1. run[r] \in RunState /\ movies \in Table
    BY DEF CatalogInv, CatalogTyped, Live
  <2>2. View(r) \in Table /\ run[r].done[n] \in Record
    BY <2>1, OverlayCells DEF View, RunState
  <2>3. Settled(View(r), run[r].done[n])
    BY DEF CatalogInv, RunIsSound, DoneIsSettled
  <2> QED BY <2>2, <2>3, SettledStaysAsItIs
<1> QED BY <1>1, CatalogIsSound, PTL

(* Only the commit of an import changes the table, and then each of its      *)
(* items that has an identifier is found in it by one of them, unless        *)
(* another import has committed meanwhile (radarr_service.py 36-100).        *)
THEOREM AnswersAreCommittedWhole == Spec => CommitsWholeAnswers
<1>1. ASSUME CatalogInv, [Next]_vars
      PROVE  [movies' # movies => \E r \in Runs :
                /\ Live(r) /\ run'[r] = NoRun /\ run[r].todo = <<>>
                /\ run[r].raced \/ \A n \in DOMAIN run[r].done : run[r].done[n] = Blank
                     \/ Matches(movies', Columns, run[r].done[n]) # {}
             ]_vars
  <2> SUFFICES ASSUME movies' # movies
               PROVE  \E r \in Runs :
                 /\ Live(r) /\ run'[r] = NoRun /\ run[r].todo = <<>>
                 /\ run[r].raced \/ \A n \in DOMAIN run[r].done : run[r].done[n] = Blank
                      \/ Matches(movies', Columns, run[r].done[n]) # {}
    OBVIOUS
  <2>1. PICK r \in Runs : Commit(r)
    BY <1>1 DEF Next, vars, Start, Process, Fails
  <2>2. Live(r) /\ run'[r] = NoRun /\ run[r].todo = <<>> /\ movies' = View(r)
    BY <2>1 DEF Commit
  <2>3. ASSUME ~run[r].raced, NEW n \in DOMAIN run[r].done, run[r].done[n] # Blank
        PROVE  Matches(movies', Columns, run[r].done[n]) # {}
    <3>1. PICK m \in Slots : SettledBy(movies', run[r].done[n], m)
      BY <1>1, <2>2, <2>3 DEF CatalogInv, RunIsSound, DoneIsSettled, Settled
    <3>2. m \in Matches(movies', Columns, run[r].done[n])
      BY <3>1 DEF SettledBy, ByOwnId, ByExternalIds, Matches, Columns
    <3> QED BY <3>2
  <2> QED BY <2>2, <2>3
<1> QED BY <1>1, CatalogIsSound, PTL DEF Spec, CommitsWholeAnswers

(* An identifier of a movie is changed by no import, but by two overlapping  *)
(* ones that both found it missing (movie_utils.py 183-197).                 *)
THEOREM ImportsKeepIds == Spec => IdsAreKept
<1>1. ASSUME CatalogInv, [Next]_vars
      PROVE  [\A i \in Slots, c \in Columns : movies[i][c] # NoId /\ movies'[i][c] # movies[i][c] =>
                \E r \in Runs : Live(r) /\ run[r].raced /\ run[r].mine[i][c] # NoId
             ]_vars
  <2> SUFFICES ASSUME NEW i \in Slots, NEW c \in Columns,
                      movies[i][c] # NoId, movies'[i][c] # movies[i][c]
               PROVE  \E r \in Runs : Live(r) /\ run[r].raced /\ run[r].mine[i][c] # NoId
    OBVIOUS
  <2>1. PICK r \in Runs : Commit(r)
    BY <1>1 DEF Next, vars, Start, Process, Fails
  <2>2. Live(r) /\ run[r] \in RunState /\ movies \in Table /\ movies' = View(r)
    BY <1>1, <2>1 DEF Commit, CatalogInv, CatalogTyped, Live
  <2>3. run[r].mine[i][c] # NoId
    BY <2>2, OverlayCells DEF View, RunState
  <2>4. run[r].raced
    BY <1>1, <2>2, <2>3 DEF CatalogInv, RunIsSound, FillsMissing
  <2> QED BY <2>2, <2>3, <2>4
<1> QED BY <1>1, CatalogIsSound, PTL DEF Spec, IdsAreKept
=============================================================================
