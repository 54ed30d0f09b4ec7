------------------------------ MODULE Pagination ------------------------------
(***************************************************************************)
(* fetch_paginated: pages of Limit items of a list that Jellyfin may       *)
(* change between two requests, until as many items as the total says are  *)
(* there, or a page is short.                                              *)
(***************************************************************************)
EXTENDS Naturals, Sequences, FiniteSets, SequencesExt

CONSTANTS
  Listable,   \* what the list may hold
  Limit,     \* 100 in the code
  MaxListed, \* bound: the length of the list when the fetch begins
  MaxEdits   \* bound: how often the list changes

ASSUME PaginationAssumption ==
  IsFiniteSet(Listable) /\ Limit \in Nat \ {0} /\ MaxListed \in Nat /\ MaxEdits \in Nat

VARIABLES
  list,   \* Jellyfin's list
  fetch,  \* the fetch: where it is, start_index, all_items
  edits   \* history: what has been inserted and removed during the fetch

pagination == <<list, fetch, edits>>

PaginationInit ==
  /\ \E n \in 0..MaxListed : \E all \in SetToSeqs(Listable) : n <= Len(all) /\ list = SubSeq(all, 1, n)
  /\ fetch = [at |-> "page", start |-> 0, got |-> <<>>]
  /\ edits = [inserted |-> {}, removed |-> {}]

\* One more would be a bound.
MayEdit == Cardinality(edits.inserted) + Cardinality(edits.removed) < MaxEdits

Inserted(n, e) ==
  /\ fetch.at = "page" /\ MayEdit
  /\ n \in 0..Len(list) /\ e \in Listable \ (Range(list) \cup edits.removed)
  /\ list' = InsertAt(list, n + 1, e)
  /\ edits' = [edits EXCEPT !.inserted = @ \cup {e}]
  /\ UNCHANGED fetch

Removed(n) ==
  /\ fetch.at = "page" /\ MayEdit
  /\ n \in DOMAIN list
  /\ list' = RemoveAt(list, n)
  /\ edits' = [edits EXCEPT !.removed = @ \cup {list[n]}]
  /\ UNCHANGED fetch

\* Bug: start_index counts pages.
NextStartPage(start) == start + 1

NextStart(start) == start + Limit

\* What Jellyfin answers.
Page(start) ==
  SubSeq(list, start + 1, IF start + Limit < Len(list) THEN start + Limit ELSE Len(list))

\* One request, and what is made of its answer.
FetchesPage ==
  LET items == Page(fetch.start)
      got == fetch.got \o items
      ends == Len(got) >= Len(list) \/ Len(items) < Limit
  IN  /\ fetch.at = "page"
      /\ fetch' = [at |-> IF ends THEN "done" ELSE "page", got |-> got,
                   start |-> IF ends THEN fetch.start ELSE NextStart(fetch.start)]
      /\ UNCHANGED <<list, edits>>

PaginationNext ==
  \/ FetchesPage
  \/ \E n \in 0..Len(list) : Removed(n) \/ \E e \in Listable : Inserted(n, e)

PaginationSpec == PaginationInit /\ [][PaginationNext]_pagination

\* A list that holds still is fetched whole, in its order.  One that changes
\* between two pages costs an item only if another was removed, and doubles one
\* only if another was inserted (pagination.py:93).
ListIsFetched ==
  fetch.at = "done" =>
    /\ edits.inserted \cup edits.removed = {} => fetch.got = list
    /\ edits.removed = {} => Range(list) \ edits.inserted \subseteq Range(fetch.got)
    /\ edits.inserted = {} => IsInjective(fetch.got)
=============================================================================
