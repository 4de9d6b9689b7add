------------------------------ MODULE MCLibrary ------------------------------
(* An instance of Library for TLC: one movie with room for two files, and   *)
(* another with one.  Every film is smaller than the one before it.         *)
EXTENDS Library, TLC
CONSTANTS m1, m2, a1, b1, a2, d1, d2

McPosition == (a1 :> 2) @@ (b1 :> 3) @@ (a2 :> 1)
McFolder == (m1 :> d1) @@ (m2 :> d2)
McOwner == (a1 :> m1) @@ (b1 :> m1) @@ (a2 :> m2)
Film(m, resolution, codec, size) ==
  [movie |-> m, resolution |-> resolution, codec |-> codec, size |-> size]
F1 == Film(m1, 2, 1, 4)
F2 == Film(m1, 2, 2, 5)
F3 == Film(m1, 1, 2, 3)
G1 == Film(m2, 2, 1, 6)
G2 == Film(m2, 1, 1, 7)
McFilms == {F1, F2, F3, G1, G2}

Start(a, b, c, binned, known) ==
  [files |-> (a1 :> a) @@ (b1 :> b) @@ (a2 :> c), binned |-> binned, known |-> known]
Symmetric == Permutations(Scanners)
McFirstStates == {Start(F1, F2, G1, G2, {a2}), Start(F3, F1, NoFilm, NoFilm, {})}
=============================================================================
