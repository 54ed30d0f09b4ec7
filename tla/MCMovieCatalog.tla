--------------------------- MODULE MCMovieCatalog ---------------------------
(***************************************************************************)
(* Instance of MovieCatalog: two imports, answers of one or two items,     *)
(* identifiers a and b.                                                    *)
(***************************************************************************)
EXTENDS MovieCatalog, TLC

CONSTANTS a, b, r1, r2

MCSlots == 1..3
MCValues == {a, b}
MCRuns == {r1, r2}

\* An item of a service carries the id that service gave it.
ItemOf(c, own, tmdb, imdb) == [Blank EXCEPT ![c] = own, !["tmdb"] = tmdb, !["imdb"] = imdb]

\* One film with both external ids; the same film as two, one for each id; one with
\* another TMDB id, and one without any id.  Jellyfin may also know the film by its
\* IMDb id only, under either id of its own, and then have another film.
MCAnswers == [c \in OwnColumns |->
  {<<ItemOf(c, a, a, NoId), ItemOf(c, b, NoId, a)>>} \cup
  IF c = "radarr"
  THEN {<<ItemOf(c, a, a, a)>>, <<ItemOf(c, NoId, b, a), Blank>>}
  ELSE {<<ItemOf(c, a, NoId, a)>>, <<ItemOf(c, b, NoId, a)>>,
        <<ItemOf(c, b, NoId, NoId), ItemOf(c, NoId, b, NoId)>>}]

MCSymmetry == Permutations(Runs)
=============================================================================
