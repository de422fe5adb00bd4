------------------------------ MODULE MCNative ------------------------------
(* Small libraries for the native executor: a show of two seasons, and two  *)
(* unrelated movies.                                                        *)
EXTENDS NativeExecutor

MCItem == {1, 2}
MCOneItem == {1}
MCOneShow == [i \in Item |-> 1]
MCMovies == [i \in Item |-> i]
MCSeason == [i \in Item |-> i]
MCBytes == [i \in Item |-> 1]
MCSection == [i \in Item |-> 1]
=============================================================================
