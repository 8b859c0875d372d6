---------------------------- MODULE MCUserState ----------------------------
(***************************************************************************)
(* Small instances of UserState: one film on two browsers, and a show on a *)
(* browser and a phone.                                                    *)
(***************************************************************************)
EXTENDS UserState, TLC

CONSTANTS web, web2, phone,         \* devices
          film,                     \* the source identity of a film
          tv1,                      \* tmdb:tv:<id>:..., an episode of a show
          lib1, lib2,               \* series:<id>:episode:<n> identities
          tmdb, tmdbSeries, library, \* the show's TMDB id and series id, a library series
          p20, p40                  \* resume positions

Saved(d, i, s, t) == [device |-> d, item |-> i, series |-> s, tmdb |-> t]
Removed(d, i, s) == [device |-> d, item |-> i, series |-> s]

MCSeriesInIdentity ==
    [i \in Item |-> IF i \in {lib1, lib2} THEN library ELSE None]
MCTmdbInIdentity ==
    [i \in Item |-> IF i \in {tv1} THEN tmdb ELSE None]
MCTmdbOfSeries ==
    [s \in Series |-> IF s = tmdbSeries THEN tmdb ELSE None]

(* One film, on two browsers. *)
FilmEntry   == {Saved(d, film, None, None) : d \in Device}
FilmRemoval == {Removed(d, film, None) : d \in Device}

(* Positions are only compared for equality. *)
PositionSymmetry == Permutations(Pos)

(* A device whose clock jumps between two instants, another that is exact. *)
DriftingSkew == [d \in Device |-> IF d = web THEN {0, 1} ELSE {0}]
ExactSkew    == [d \in Device |-> {0}]
FarAheadSkew == [d \in Device |-> {3}]
AheadSkew    == [d \in Device |-> {1}]

(* One show: its library episodes and its TMDB episode on a browser, which *)
(* names the series, and the TMDB episode on a phone, which names only the *)
(* TMDB id (streamarena.ts).                                               *)
ShowEntry ==
    {Saved(web, i, library, tmdb) : i \in {lib1, lib2}}
        \cup {Saved(web, tv1, tmdbSeries, tmdb), Saved(phone, tv1, None, tmdb)}
ShowRemoval ==
    {Removed(web, lib2, None), Removed(web, tv1, tmdbSeries)}

(* A library series on a browser: its identities name the series. *)
LibraryEntry   == {Saved(web, lib1, library, None)}
LibraryRemoval == {Removed(web, lib1, None)}

(* A film saved from a browser, a show's episode from a phone. *)
FilmAndPhoneEntry == {Saved(web, film, None, None), Saved(phone, tv1, None, tmdb)}
NoRemoval == {}
=============================================================================
