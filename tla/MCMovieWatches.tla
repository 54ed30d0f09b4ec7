---------------------------- MODULE MCMovieWatches ----------------------------
(* MovieWatches on two movies: m1 has a TMDB id, m2 an IMDb id.              *)
EXTENDS MovieWatches, TLC

CONSTANTS m1, m2, a, b, c, t1, i2, planned, watched

MCTmdb == m1 :> t1 @@ m2 :> NoId

MCImdb == m1 :> NoId @@ m2 :> i2

First(x, s) == [id |-> x, tmdb |-> t1, imdb |-> NoId, status |-> s]
Second(x, s) == [id |-> x, tmdb |-> NoId, imdb |-> i2, status |-> s]

\* No movies; both; the first one added anew under another id; the first one
\* twice; an item whose id and TMDB id disagree, if the catalogue holds b for m2.
MCLibraries ==
  {<<>>,
   <<First(a, planned), Second(b, watched)>>,
   <<First(c, watched)>>,
   <<First(a, planned), First(c, watched)>>,
   <<First(b, planned)>>}

MCSymmetry == Permutations(Runs)
=============================================================================
