------------------------------- MODULE MCSync -------------------------------
(* Small libraries for the hand-over to Maintainerr. *)
EXTENDS MaintainerrSync

MCItem == {1, 2}
MCOne == {1}
MCKeys == {"k1", "k2"}
MCMovies == [k \in Key |-> k]
MCOneShow == [k \in Key |-> "k"]
MCCollections == {"bin", "soon"}
MCTitles == [c \in Collection |-> IF c = "bin" THEN {"delete"} ELSE {"soon"}]
MCBound == [c \in Collection |-> 1]
MCHome == [i \in Item |-> 1]
MCBytes == [i \in Item |-> 1]
MCStart == {<<{"k1"}, {}>>, <<{"k1"}, {"k2"}>>, <<{"k1"}, {"k1"}>>}
MCBudget == [n \in 0..2 |-> IF n = 2 THEN 1 ELSE 3]
=============================================================================
