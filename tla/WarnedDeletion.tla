--------------------------- MODULE WarnedDeletion ---------------------------
(***************************************************************************)
(* What the native executor promises a household, whatever its cycles do: *)
(* a card leaves the disk by FLINCH's hand only when everyone who played   *)
(* it finished it, or when it was announced and a whole window has passed  *)
(* since, and an announcement on record keeps its date until it is taken   *)
(* back.  warned[i] is the date card i was announced, 0 for not at all.    *)
(***************************************************************************)
EXTENDS Integers

CONSTANTS
  Item,    \* cards
  Window   \* how long a warning stands

VARIABLES
  clock,
  disk,      \* cards on disk
  finished,  \* cards everyone who played them finished
  warned,    \* when each card was announced
  ours       \* cards FLINCH deleted that have not come back

vars == <<clock, disk, finished, warned, ours>>

Init ==
  /\ clock = 1
  /\ disk = Item
  /\ finished \in SUBSET Item
  /\ warned = [i \in Item |-> 0]
  /\ ours = {}

Tick ==
  /\ clock' = clock + 1
  /\ UNCHANGED <<disk, finished, warned, ours>>

(* A save: warnings are taken back and new ones are put on record, none in   *)
(* the future and none over another.                                         *)
Rewarn ==
  /\ warned' \in [Item -> 0..clock]
  /\ \A i \in Item : warned[i] # 0 => warned'[i] \in {0, warned[i]}
  /\ UNCHANGED <<clock, disk, finished, ours>>

Finish ==
  /\ finished' \in SUBSET Item /\ finished \subseteq finished'
  /\ UNCHANGED <<clock, disk, warned, ours>>

Warned(i) == warned[i] # 0 /\ warned[i] + Window <= clock

Delete(i) ==
  /\ i \in disk
  /\ i \in finished \/ Warned(i)
  /\ disk' = disk \ {i}
  /\ ours' = ours \cup {i}
  /\ UNCHANGED <<clock, finished, warned>>

(* Others delete cards and bring them back: nothing FLINCH deleted. *)
Outside ==
  /\ disk' \in SUBSET Item
  /\ ours' \in SUBSET ours
  /\ UNCHANGED <<clock, finished, warned>>

Next == Tick \/ Rewarn \/ Finish \/ (\E i \in Item : Delete(i)) \/ Outside

Spec == Init /\ [][Next]_vars

=============================================================================
