------------------------------ MODULE MCLedger ------------------------------
(* One card, or three of unequal size, on one disk, with or without a       *)
(* second disk for the archive.                                             *)
EXTENDS EvictionLedger

MCThree == {1, 2, 3}
MCOne == {1}
MCSize == [i \in Item |-> IF i = 1 THEN 1 ELSE 3]
MCUneven == [i \in Item |-> IF i = 1 THEN 2 ELSE 4]
MCHome == [i \in Item |-> "d1"]
MCDisks == {"d1"}
MCArchived == {"d1", "d2"}
MCRecycle == [i \in Item |-> 1]
MCWindows == [i \in Item |-> IF i = 2 THEN 1 ELSE 0]
=============================================================================
