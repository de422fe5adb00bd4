-------------------------- MODULE NativeLifecycle --------------------------
(***************************************************************************)
(* The native executor's decision, pure (executor/lifecycle.rs `plan`):    *)
(* the shelf recorded in native.json and one cycle's view of the library   *)
(* become the items to take back, to delete and to announce.               *)
(*                                                                         *)
(* A view v is a record of what the cycle read:                            *)
(*   library    cards on disk            pinned    cards the operator keeps *)
(*   evidence   last play per card, 0 never, NoEvidence unread              *)
(*   complete   every watch source was read in full                         *)
(*   selected   cards the eviction plan takes                               *)
(*   unfinished cards the evidence does not show finished                   *)
(*   order      the selected cards in plan order                            *)
(*   eligible   those past their grace whose predecessor is handed over     *)
(*   place      Leaving Soon title and server, NoPlace when unavailable     *)
(*   now        the run's clock                                             *)
(***************************************************************************)
EXTENDS Integers, Sequences, FiniteSets, SequencesExt

CONSTANTS
  Item,        \* card ids, numbered in the order their strings sort
  Show,        \* the show a card belongs to (a movie is its own)
  Season,      \* its position in the show
  Bytes,       \* its size
  Place,       \* Leaving Soon titles and servers the operator may set
  NoPlace,     \* announcing is not possible
  MaxItems,    \* new actions per run
  MaxBytes,    \* bytes of new actions per run
  MaxDeletes,  \* deletes per run
  Window       \* how long a warning stands

ASSUME ItemAssumption ==
  /\ Item \subseteq Nat
  /\ IsFiniteSet(Item)
  /\ Season \in [Item -> Nat]
  /\ Bytes \in [Item -> Nat]
  /\ DOMAIN Show = Item
  /\ \A i, j \in Item : Show[i] = Show[j] /\ Season[i] = Season[j] => i = j

ASSUME PlaceAssumption == NoPlace \notin Place

ASSUME LimitAssumption ==
  /\ MaxItems \in Nat
  /\ MaxBytes \in Nat
  /\ MaxDeletes \in Nat \ {0}
  /\ Window \in Nat \ {0}

-----------------------------------------------------------------------------
(* The recorded shelf: a function from cards to entries. *)

NotLeaving == [at |-> 0, until |-> 0, place |-> NoPlace]

Shelved(leaving) == {i \in Item : leaving[i] # NotLeaving}

(* The shelf is worked through by window end, then by card id. *)
Sooner(leaving, i, j) ==
  \/ leaving[i].until < leaving[j].until
  \/ leaving[i].until = leaving[j].until /\ i < j

NoEvidence == -1

-----------------------------------------------------------------------------
(* Entries already on the shelf, in the order the checks are made. *)

Vanished(leaving, v) == Shelved(leaving) \ v.library

Judged(leaving, v) ==
  {i \in (Shelved(leaving) \cap v.library) \ v.pinned : v.evidence[i] # NoEvidence}

PlayedSince(leaving, v) == {i \in Judged(leaving, v) : v.evidence[i] > leaving[i].at}

Moved(leaving, v) == {i \in Judged(leaving, v) : leaving[i].place # v.place}

TakenBack(leaving, v) ==
  (Shelved(leaving) \cap v.library \cap v.pinned)
    \cup PlayedSince(leaving, v)
    \cup Moved(leaving, v)
    \cup (Judged(leaving, v) \ v.selected)

(* Wrong: a window read as over one tick early. *)
ExpiredEarly(leaving, v) ==
  {i \in Judged(leaving, v) \ TakenBack(leaving, v) : v.now + 1 >= leaving[i].until}

Expired(leaving, v) ==
  {i \in Judged(leaving, v) \ TakenBack(leaving, v) : v.now >= leaving[i].until}

(* Oldest windows first, and only on evidence read in full. *)
Due(leaving, v) ==
  {i \in Expired(leaving, v) :
     /\ v.complete
     /\ Cardinality({j \in Expired(leaving, v) : Sooner(leaving, j, i)}) < MaxDeletes}

-----------------------------------------------------------------------------
(* The plan's precedence. Played and unplayed seasons of a show form two     *)
(* chains: played ones leave from the first, unplayed ones from the last.    *)

Chain(v, i) ==
  {j \in v.library : Show[j] = Show[i] /\ (v.evidence[j] > 0) = (v.evidence[i] > 0)}

GoesBefore(v, j, i) ==
  j \in Chain(v, i) /\ IF v.evidence[i] > 0 THEN Season[j] < Season[i] ELSE Season[j] > Season[i]

(* The selected card that must leave first: the nearest one before it. *)
After(v, i) ==
  {j \in v.selected :
     /\ GoesBefore(v, j, i)
     /\ \A k \in v.selected : GoesBefore(v, k, i) => k = j \/ GoesBefore(v, k, j)}

(* A selection takes a card only with everything that goes before it. *)
Closed(v) == \A i \in v.selected : \A j \in v.library : GoesBefore(v, j, i) => j \in v.selected

(* The cards before this one in the plan's order. *)
Before(v, i) == {v.order[m] : m \in {m \in DOMAIN v.order : \E n \in DOMAIN v.order : v.order[n] = i /\ m < n}}

(* plan.rs `releasable`: of the ripe cards, in plan order, each only once    *)
(* the card it follows is handed over, earlier or earlier in this list: the  *)
(* one such list.                                                            *)
Releasable(v, ripe, handed) ==
  {out \in SUBSET ripe : \A i \in ripe : i \in out <=> After(v, i) \subseteq (out \cap Before(v, i)) \cup handed}

-----------------------------------------------------------------------------
(* New actions: one pass over the eligible cards. *)

(* Wrong: cards on the shelf are announced afresh. *)
CandidatesAgain(leaving, v) == v.eligible \ v.pinned

Candidates(leaving, v) == (v.eligible \ Shelved(leaving)) \ v.pinned

Held(v, i) == v.evidence[i] = NoEvidence \/ (i \in v.unfinished /\ v.place = NoPlace)

Admits(added, bytes, size) ==
  added < MaxItems /\ MaxBytes > 0 /\ (added = 0 \/ bytes + size <= MaxBytes)

(* Wrong: a card does not wait for the one before it. *)
BehindNobody(v, i, waiting) == FALSE

Behind(v, i, waiting) == After(v, i) \cap waiting # {}

(* Deletes the run has already spent on expired windows. *)
Spent(leaving, v) == Cardinality(Due(leaving, v))

(* What the run acts on already leaves room for this card. *)
Fits(leaving, v, acting, i) ==
  LET so_far == acting \cap Before(v, i)
  IN  /\ Admits(Cardinality(so_far), SumFunctionOnSet(Bytes, so_far), Bytes[i])
      /\ i \in v.unfinished \/ Spent(leaving, v) + Cardinality(so_far \ v.unfinished) < MaxDeletes

(* The one set the pass acts on: a card that is held, over a cap, or behind  *)
(* one that waits, waits itself; the first over a cap ends the pass.         *)
Passes(leaving, v) ==
  LET free == Candidates(leaving, v)
      earlier(i) == free \cap Before(v, i)
      capped(acting, i) == \E j \in earlier(i) \cup {i} : ~Held(v, j) /\ ~Fits(leaving, v, acting, j)
  IN  {acting \in SUBSET free : \A i \in free :
         i \in acting <=> ~Held(v, i) /\ ~capped(acting, i) /\ ~Behind(v, i, earlier(i) \ acting)}

Announced(acting, v) == acting \cap v.unfinished

(* Wrong: cards nobody finished go at once too. *)
DeletedUnannounced(acting, v) == acting

DeletedAtOnce(acting, v) == acting \ v.unfinished

=============================================================================
