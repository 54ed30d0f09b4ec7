--------------------------- MODULE MCSeriesLibrary ---------------------------
(* SeriesLibrary on one series with two episode numbers, in one season or two. *)
EXTENDS SeriesLibrary

CONSTANTS x, y, tv, tm, im, im2, planned, watching, watched

MCSlots == [series |-> 1..2, seasons |-> 3..4, episodes |-> 5..7]

SonarrEp(id, season, number) == [id |-> id, season |-> season, number |-> number]
JellyfinEp(id, season, number, of) == [id |-> id, season |-> season, number |-> number, of |-> of]

SonarrItem(imdb, numbers, eps) ==
  [ids |-> Row("series", "sonarr" :> x @@ "tvdb" :> tv @@ "imdb" :> imdb),
   seasons |-> numbers, episodes |-> eps]

\* Sonarr corrects the IMDb id and moves the episode to another season; a third
\* item has an id that finds a series but would not make one.  Jellyfin lists two
\* episodes, and has the one the watch sync knows as x under another number.
MCItems ==
  [sonarr   |-> {SonarrItem(im, {1}, <<SonarrEp(x, 1, 1)>>),
                 SonarrItem(im2, {1, 2}, <<SonarrEp(x, 2, 1)>>),
                 [ids |-> Row("series", "tmdb" :> tm), seasons |-> {1}, episodes |-> <<>>]},
   jellyfin |-> {[ids |-> Row("series", "jellyfin" :> x @@ "tvdb" :> tv @@ "tmdb" :> tm),
                  seasons |-> {},
                  episodes |-> <<JellyfinEp(x, 1, 2, x), JellyfinEp(y, 1, 1, x)>>]}]

TmdbEp(number, id) == [number |-> number, tmdb |-> id]

MCPayloads == tm :>
  {<<[number |-> 1, tmdb |-> x, episodes |-> <<TmdbEp(1, x)>>]>>,
   <<[number |-> 2, tmdb |-> x, episodes |-> <<TmdbEp(1, x)>>]>>}

Watch(id, season, number, status) ==
  [series |-> x, of |-> x, id |-> id, season |-> season, number |-> number, status |-> status]

Listing(eps) == [episodes |-> eps, providers |-> x :> [tvdb |-> tv, imdb |-> Null]]

\* The first has two versions of one episode.
MCListings ==
  {Listing(<<Watch(x, 1, 1, watching), Watch(y, 1, 1, watched)>>),
   Listing(<<Watch(y, 1, 1, watching), Watch(x, 1, 2, planned)>>)}

MCSymmetry == Permutations(Runs)
=============================================================================
