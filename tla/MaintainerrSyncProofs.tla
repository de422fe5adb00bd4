------------------------ MODULE MaintainerrSyncProofs ------------------------
(***************************************************************************)
(* Theorems about a FLINCH that deletes through Maintainerr, for any cards,*)
(* keys, collections and caps: the exclusions it takes for its own are its *)
(* own, and what an undisturbed cycle leaves behind, whatever confusion it *)
(* began with.                                                             *)
(***************************************************************************)
EXTENDS MaintainerrSync, FiniteSetTheorems, WellFoundedInduction, TLAPS

-----------------------------------------------------------------------------
(* A set of naturals has a least one. *)
LEMMA LeastNatural ==
  ASSUME NEW S \in SUBSET Nat, S # {}
  PROVE  \E n \in S : \A m \in S : n <= m
<1> DEFINE Below(n) == 0..(n-1)
           T == {Below(n) : n \in S}
<1>1. \A n \in S : Below(n) \in FiniteSubsetsOf(Nat)
  BY FS_Interval DEF FiniteSubsetsOf
<1>2. T \subseteq FiniteSubsetsOf(Nat) /\ T # {}
  BY <1>1
<1>3. IsWellFoundedOn(StrictSubsetOrdering(Nat), FiniteSubsetsOf(Nat))
  BY FS_StrictSubsetOrderingWellFounded
<1>4. PICK x \in T : \A y \in T : <<y, x>> \notin StrictSubsetOrdering(Nat)
  <2> HIDE DEF T
  <2> QED BY <1>2, <1>3, WFMin
<1>5. PICK n \in S : x = Below(n)
  OBVIOUS
<1>6. ASSUME NEW m \in S, m < n PROVE FALSE
  <2>1. Below(m) \subseteq Below(n) /\ m \in Below(n) /\ m \notin Below(m)
    BY <1>6
  <2>2. <<Below(m), Below(n)>> \in StrictSubsetOrdering(Nat)
    BY <2>1 DEF StrictSubsetOrdering
  <2> QED BY <2>2, <1>4, <1>5
<1> QED BY <1>6
LEMMA SameCurrent ==
  ASSUME todo' = todo, desired' = desired
  PROVE  Current' = Current
<1>1. \A act : Rank(act)' = Rank(act)
  BY DEF Rank, Turn
<1>2. {act \in todo : \A other \in todo : Rank(act) <= Rank(other)}' = {act \in todo : \A other \in todo : Rank(act) <= Rank(other)}
  BY <1>1
<1> QED BY <1>2 DEF Current

LEMMA SamePlan ==
  ASSUME UNCHANGED <<keys, unfinished, setting>>
  PROVE  /\ \A i : Target(i)' = Target(i) /\ Place(i)' = Place(i)
         /\ Deleting' = Deleting /\ Announcing' = Announcing /\ Titled' = Titled
<1>1. \A i : Target(i)' = Target(i)
  BY DEF Target
<1>2. \A route : Named(route)' = Named(route) /\ Resolve(route)' = Resolve(route)
  BY DEF Named, Resolve, Valid
<1>3. Deleting' = Deleting /\ Announcing' = Announcing /\ Titled' = Titled
  BY <1>2 DEF Deleting, Announcing, Titled
<1>4. \A i : Place(i)' = Place(i)
  BY <1>2 DEF Place, RouteOf
<1> QED BY <1>1, <1>3, <1>4
-----------------------------------------------------------------------------
(* What the parts of the state are. *)
Entry == [key : Key, ids : SUBSET RowId]
Membership == [key : Key, collection : Collection]
Deed ==
  {act \in [do : {"unschedule", "protect", "release", "schedule"}, card : Item, key : Key,
             collection : Collection \cup {None}, id : Nat] :
     act.do = "schedule" => act.collection # None}

RowsTyped == rows \subseteq RowId \X Anchor
FilesTyped ==
  /\ protected \in [Item -> {NoEntry} \cup Entry] /\ protectedFile \in [Item -> {NoEntry} \cup Entry]
  /\ scheduled \in [Item -> {NotScheduled} \cup Membership]
  /\ scheduledFile \in [Item -> {NotScheduled} \cup Membership]
PlanTyped ==
  /\ todo \subseteq Deed /\ \A act \in todo : Rank(act) \in Nat
  /\ desired.protect \subseteq Item /\ desired.evict \subseteq Item
  /\ desired.unresolved \subseteq Item /\ desired.shared \subseteq Item
  /\ pc \in {"idle", "rules", "acting", "looked", "written", "saving"}
  /\ pc = "idle" => todo = {} /\ stalled = {}

SyncTypes ==
  /\ keys \in [Item -> SUBSET Key] /\ library \subseteq Item
  /\ members \subseteq Collection \X Key /\ ruled \subseteq Collection
  /\ RowsTyped /\ FilesTyped /\ PlanTyped

(* A row recorded as FLINCH's own was made by it, for the key it recorded. *)
Claims(prot) == \A i \in Item : \A r \in rows : r[1] \in prot[i].ids => r[2] = prot[i].key /\ r[1] \in made

OneRowEach == \A r, q \in rows : r[1] = q[1] => r = q

ReleasesOwn == \A act \in todo : act.do = "release" /\ act.id \in Ids(rows) => act.id \in made

(* Between the look and the read-back only FLINCH's own row is new. *)
Looked ==
  pc = "looked" => todo # {} /\ Current.do = "protect" /\ before = Ids(RowsOf(Current.key))
AddedOnly ==
  pc = "written" =>
    /\ todo # {}
    /\ Current.do = "protect" =>
         \A r \in RowsOf(Current.key) : r[1] \notin before => r[2] = Current.key /\ r[1] \in made

OwnInv ==
  /\ SyncTypes /\ Claims(protected) /\ Claims(protectedFile) /\ OneRowEach
  /\ ReleasesOwn /\ Looked /\ AddedOnly

LEMMA OwnInit == Init => OwnInv
<1> SUFFICES ASSUME Init PROVE OwnInv
  OBVIOUS
<1> USE SyncAssumption
<1>1. keys \in [Item -> SUBSET Key] /\ library \subseteq Item /\ members = {} /\ rows = {} /\ ruled = Collection
  BY DEF Init
<1>2. FilesTyped
  BY DEF Init, FilesTyped
<1>3. PlanTyped
  BY DEF Init, PlanTyped, Idle
<1>4. SyncTypes
  BY <1>1, <1>2, <1>3 DEF SyncTypes, RowsTyped
<1>5. OneRowEach /\ ReleasesOwn /\ Looked /\ AddedOnly /\ Claims(protected) /\ Claims(protectedFile)
  BY DEF Init, OneRowEach, ReleasesOwn, Looked, AddedOnly, Claims
<1> QED
  BY <1>4, <1>5 DEF OwnInv

(* The act at hand is one of those left, and none of those left comes before. *)
LEMMA CurrentIsFirst ==
  ASSUME PlanTyped, todo # {}
  PROVE  Current \in todo /\ \A other \in todo : Rank(Current) <= Rank(other)
<1> DEFINE first == {act \in todo : \A other \in todo : Rank(act) <= Rank(other)}
<1>1. {Rank(act) : act \in todo} \in SUBSET Nat /\ {Rank(act) : act \in todo} # {}
  BY DEF PlanTyped
<1>2. \E n \in {Rank(act) : act \in todo} : \A m \in {Rank(act) : act \in todo} : n <= m
  BY <1>1, LeastNatural
<1>3. first # {}
  BY <1>2
<1>4. Current \in first
  BY <1>3 DEF Current, OneOf
<1> QED BY <1>4

LEMMA FreshIsNew ==
  ASSUME FreshIds # {}
  PROVE  /\ FreshId \in RowId /\ FreshId \notin Ids(rows) /\ FreshId \notin before
         /\ \A i \in Item : FreshId \notin protected[i].ids /\ FreshId \notin protectedFile[i].ids
         /\ \A act \in todo : act.id # FreshId
<1>1. FreshId \in FreshIds
  BY DEF FreshId, OneOf
<1> QED BY <1>1 DEF FreshIds, OwnedIds
-----------------------------------------------------------------------------
(* What a cycle may want, by what it sees when it begins. *)
Want(want) ==
  /\ want.protect \subseteq library /\ want.evict \subseteq library
  /\ want.protect \cap want.evict = {}
  /\ want.unresolved = {i \in library : keys[i] = {}}
  /\ want.shared = Shared
  /\ want.order \in Bijection(1..Cardinality(want.evict), want.evict)

LEMMA ObserveWants ==
  ASSUME Observe
  PROVE  Want(desired') /\ todo' = PlanSync(desired')
<1>1. PICK evict \in SUBSET (library \ (kept \cup OperatorKeeps)), refused \in BOOLEAN :
        \E order \in Bijection(1..Cardinality(evict), evict), partway \in SUBSET (library \ evict) :
         LET want == [protect |-> ((kept \cup OperatorKeeps) \cap library) \cup partway, evict |-> evict, order |-> order,
                      unresolved |-> {i \in library : keys[i] = {}}, shared |-> Shared, refused |-> refused]
         IN  desired' = want /\ todo' = PlanSync(want)
  BY DEF Observe
<1>2. PICK order \in Bijection(1..Cardinality(evict), evict), partway \in SUBSET (library \ evict) :
         LET want == [protect |-> ((kept \cup OperatorKeeps) \cap library) \cup partway, evict |-> evict, order |-> order,
                      unresolved |-> {i \in library : keys[i] = {}}, shared |-> Shared, refused |-> refused]
         IN  desired' = want /\ todo' = PlanSync(want)
  BY <1>1
<1> QED BY <1>2 DEF Want

LEMMA TargetIsAKey ==
  ASSUME NEW i, keys[i] # {}
  PROVE  Target(i) \in keys[i]
  BY DEF Target, OneOf

LEMMA PlaceIsResolved ==
  ASSUME NEW i, Place(i) # None
  PROVE  Place(i) \in Resolve(RouteOf(i)) /\ Place(i) \in Collection
<1> DEFINE matching == {c \in Resolve(RouteOf(i)) : Bound[c] = Home[i]}
<1>1. Cardinality(matching) = 1 /\ Place(i) = OneOf(matching)
  BY DEF Place
<1>2. matching # {}
  BY <1>1, FS_EmptySet
<1>3. Place(i) \in matching
  BY <1>1, <1>2 DEF OneOf
<1> QED BY <1>3 DEF Resolve, Named

(* The acts a plan may hold, one kind after the other. *)
Planned(want, act) ==
  \/ \E i \in TakenBack(want) : act = Act("unschedule", i, scheduled[i].key, scheduled[i].collection, 0)
  \/ \E i \in Held(want) \cup Unprotected(want) : act = Act("protect", i, Target(i), None, 0)
  \/ \E i \in Released(want) : \E r \in OwnRows(i, protected[i].key) : act = Act("release", i, protected[i].key, None, r[1])
  \/ \E i \in Placed(want) : \E r \in OwnRows(i, Target(i)) : act = Act("release", i, Target(i), None, r[1])
  \/ \E i \in Placed(want) : ~Settled(i) /\ act = Act("schedule", i, Target(i), Place(i), 0)

LEMMA PlanIsPlanned ==
  ASSUME NEW want, NEW act \in PlanSync(want)
  PROVE  Planned(want, act)
<1> DEFINE A == {Act("unschedule", i, scheduled[i].key, scheduled[i].collection, 0) : i \in TakenBack(want)}
           B == {Protect(i) : i \in Held(want) \cup Unprotected(want)}
           C == UNION {Release(i, protected[i].key) : i \in Released(want)}
           D == UNION {HandOver(want, i) : i \in Item}
<1>1. PlanSync(want) = A \cup B \cup C \cup D
  BY DEF PlanSync
<1>2. CASE act \in A
  BY <1>2 DEF Planned
<1>3. CASE act \in B
  BY <1>3 DEF Planned, Protect
<1>4. CASE act \in C
  BY <1>4 DEF Planned, Release
<1>5. CASE act \in D
  <2>1. PICK i \in Item : act \in HandOver(want, i)
    BY <1>5
  <2>2. i \in Placed(want)
    BY <2>1 DEF HandOver
  <2>3. CASE act \in Release(i, Target(i))
    BY <2>2, <2>3 DEF Release, Planned
  <2>4. CASE act \notin Release(i, Target(i))
    <3>1. ~Settled(i) /\ act = Act("schedule", i, Target(i), Place(i), 0)
      BY <2>1, <2>2, <2>4 DEF HandOver
    <3> QED BY <3>1, <2>2 DEF Planned
  <2> QED BY <2>3, <2>4
<1> HIDE DEF A, B, C, D
<1> QED BY <1>1, <1>2, <1>3, <1>4, <1>5

(* Whom the plan acts on. *)
LEMMA PlannedCards ==
  ASSUME SyncTypes, NEW want, Want(want)
  PROVE  /\ Placed(want) \subseteq Takers(want) /\ Takers(want) \subseteq Judged(want) /\ Held(want) \subseteq Judged(want)
         /\ Judged(want) \subseteq want.evict \ (want.protect \cup want.unresolved)
         /\ Unprotected(want) \subseteq want.protect \ want.unresolved
         /\ \A i \in Judged(want) \cup Unprotected(want) : i \in Item /\ keys[i] # {} /\ Target(i) \in keys[i] /\ Target(i) \in Key
         /\ \A i \in Takers(want) : Place(i) \in Collection /\ Place(i) \in Resolve(RouteOf(i))
<1>1. Placed(want) \subseteq Takers(want)
  BY DEF Placed, Handed, Waiting
<1>2. Takers(want) \subseteq Judged(want) /\ Held(want) \subseteq Judged(want)
  BY DEF Takers, Held
<1>3. Judged(want) \subseteq want.evict \ (want.protect \cup want.unresolved)
  BY DEF Judged
<1>4. Unprotected(want) \subseteq want.protect \ want.unresolved
  BY DEF Unprotected
<1>5. \A i \in Judged(want) \cup Unprotected(want) : i \in Item /\ keys[i] # {}
  BY <1>3, <1>4 DEF Want, SyncTypes
<1>6. \A i \in Takers(want) : Place(i) # None
  BY DEF Takers
<1>7. keys \in [Item -> SUBSET Key]
  BY DEF SyncTypes
<1> QED BY <1>1, <1>2, <1>3, <1>4, <1>5, <1>6, <1>7, TargetIsAKey, PlaceIsResolved

LEMMA PlannedDeeds ==
  ASSUME SyncTypes, NEW want, Want(want), NEW act, Planned(want, act)
  PROVE  act \in Deed
<1> USE SyncAssumption
<1>1. ASSUME NEW i \in TakenBack(want), act = Act("unschedule", i, scheduled[i].key, scheduled[i].collection, 0)
      PROVE  act \in Deed
  <2>1. i \in Item /\ <<scheduled[i].collection, scheduled[i].key>> \in members
    BY <1>1 DEF TakenBack
  <2>2. scheduled[i].collection \in Collection /\ scheduled[i].key \in Key
    BY <2>1 DEF SyncTypes
  <2> QED BY <1>1, <2>1, <2>2 DEF Act, Deed
<1>2. ASSUME NEW i \in Held(want) \cup Unprotected(want), act = Act("protect", i, Target(i), None, 0)
      PROVE  act \in Deed
  BY <1>2, PlannedCards DEF Act, Deed
<1>3. ASSUME NEW i \in Item, NEW k \in Key, NEW r \in OwnRows(i, k), act = Act("release", i, k, None, r[1])
      PROVE  act \in Deed
  <2>1. r[1] \in Nat
    BY DEF OwnRows, RowsOf, SyncTypes, RowsTyped, RowId
  <2> QED BY <1>3, <2>1 DEF Act, Deed
<1>4. \A i \in Released(want) : i \in Item /\ protected[i].key \in Key
  BY DEF Released, SyncTypes, FilesTyped, Entry
<1>5. ASSUME NEW i \in Placed(want), act = Act("schedule", i, Target(i), Place(i), 0)
      PROVE  act \in Deed
  BY <1>5, PlannedCards DEF Act, Deed
<1>6. \A i \in Placed(want) : i \in Item /\ Target(i) \in Key
  BY PlannedCards
<1> QED BY <1>1, <1>2, <1>3, <1>4, <1>5, <1>6 DEF Planned

LEMMA ObserveKeepsTypes ==
  ASSUME SyncTypes, Observe
  PROVE  FilesTyped' /\ PlanTyped' /\ Want(desired') /\ todo' = PlanSync(desired')
<1> DEFINE want == desired'
<1>1. Want(want) /\ todo' = PlanSync(want)
  BY ObserveWants
<1>2. \A act \in todo' : Planned(want, act) /\ act \in Deed
  BY <1>1, PlanIsPlanned, PlannedDeeds
<1>3. \A i \in want.evict : OneOf({n \in DOMAIN want.order : want.order[n] = i}) \in Nat
  <2> SUFFICES ASSUME NEW i \in want.evict
               PROVE  OneOf({n \in DOMAIN want.order : want.order[n] = i}) \in Nat
    OBVIOUS
  <2>1. want.evict \subseteq Item
    BY <1>1 DEF Want, SyncTypes
  <2>2. Cardinality(want.evict) \in Nat
    BY <2>1, SyncAssumption, FS_Subset, FS_CardinalityType
  <2>3. \E n \in 1..Cardinality(want.evict) : want.order[n] = i
    BY <1>1 DEF Want, Bijection, Surjection
  <2>4. DOMAIN want.order = 1..Cardinality(want.evict)
    BY <1>1 DEF Want, Bijection, Surjection
  <2>5. OneOf({n \in DOMAIN want.order : want.order[n] = i}) \in {n \in DOMAIN want.order : want.order[n] = i}
    BY <2>3, <2>4 DEF OneOf
  <2> QED BY <2>2, <2>4, <2>5
<1>4. \A act \in todo' : act.do = "schedule" => act.card \in want.evict
  <2> SUFFICES ASSUME NEW act \in todo', act.do = "schedule" PROVE act.card \in want.evict
    OBVIOUS
  <2>1. PICK i \in Placed(want) : act = Act("schedule", i, Target(i), Place(i), 0)
    BY <1>2 DEF Planned, Act
  <2> QED BY <1>1, <2>1, PlannedCards DEF Act
<1>5. \A act \in todo' : Rank(act)' \in Nat
  <2> SUFFICES ASSUME NEW act \in todo' PROVE Rank(act)' \in Nat
    OBVIOUS
  <2>1. act.do \in {"unschedule", "protect", "release", "schedule"}
    BY <1>2 DEF Deed
  <2>2. act.card \in want.evict => Turn(act.card)' \in Nat
    BY <1>3 DEF Turn
  <2> QED BY <1>4, <2>1, <2>2 DEF Rank
<1>6. PlanTyped'
  <2>1. want.protect \subseteq Item /\ want.evict \subseteq Item /\ want.unresolved \subseteq Item /\ want.shared \subseteq Item
    BY <1>1 DEF Want, SyncTypes, Shared
  <2>2. pc' = "rules"
    BY DEF Observe
  <2> HIDE DEF want
  <2> QED BY <1>2, <1>5, <2>1, <2>2 DEF PlanTyped, want
<1>7. FilesTyped'
  <2>1. /\ protected' = [i \in Item |-> PruneProtected(i)] /\ scheduled' = [i \in Item |-> PruneScheduled(i)]
        /\ UNCHANGED files
    BY DEF Observe
  <2>2. \A i \in Item : PruneProtected(i) \in {NoEntry} \cup Entry
    BY DEF PruneProtected, SyncTypes, FilesTyped, Entry
  <2>3. \A i \in Item : PruneScheduled(i) \in {NotScheduled} \cup Membership
    BY DEF PruneScheduled, SyncTypes, FilesTyped
  <2> QED BY <2>1, <2>2, <2>3 DEF FilesTyped, SyncTypes, files
<1> QED BY <1>1, <1>6, <1>7

LEMMA ObserveKeepsOwn ==
  ASSUME OwnInv, Observe
  PROVE  OwnInv'
<1>1. UNCHANGED <<keys, library, members, ruled, rows, made, protectedFile>> /\ pc' = "rules"
  BY DEF Observe, operator, server, files
<1>2. SyncTypes'
  BY <1>1, ObserveKeepsTypes DEF OwnInv, SyncTypes, RowsTyped
<1>3. Claims(protected)'
  <2>1. \A i \in Item : protected'[i].ids \subseteq protected[i].ids /\ (protected'[i].ids # {} => protected'[i].key = protected[i].key)
    <3> SUFFICES ASSUME NEW i \in Item
                 PROVE  /\ protected'[i].ids \subseteq protected[i].ids
                        /\ protected'[i].ids # {} => protected'[i].key = protected[i].key
      OBVIOUS
    <3>1. protected'[i] = PruneProtected(i)
      BY DEF Observe
    <3>2. protected[i] \in {NoEntry} \cup Entry
      BY DEF OwnInv, SyncTypes, FilesTyped
    <3> QED BY <3>1, <3>2 DEF PruneProtected, NoEntry, Entry
  <2> QED BY <1>1, <2>1 DEF OwnInv, Claims
<1>4. ReleasesOwn'
  <2> SUFFICES ASSUME NEW act \in todo', act.do = "release" PROVE act.id \in made
    BY <1>1 DEF ReleasesOwn
  <2>1. Planned(desired', act) /\ Want(desired')
    BY ObserveKeepsTypes, PlanIsPlanned DEF OwnInv
  <2>2. PICK i \in Item, r \in rows : r[1] \in protected[i].ids /\ act.id = r[1]
    <3>1. \A i \in Placed(desired') : i \in Item
      BY <2>1, PlannedCards DEF OwnInv
    <3> QED BY <2>1, <3>1 DEF Planned, Act, OwnRows, RowsOf, Released
  <2> QED BY <2>2 DEF OwnInv, Claims
<1> QED BY <1>1, <1>2, <1>3, <1>4 DEF OwnInv, Claims, OneRowEach, Looked, AddedOnly

LEMMA PlanShrinks ==
  ASSUME PlanTyped, todo' \subseteq todo,
         desired' = desired \/ (desired' = Idle /\ todo' = {}),
         pc' \in {"idle", "rules", "acting", "looked", "written", "saving"},
         pc' = "idle" => todo' = {} /\ stalled' = {}
  PROVE  PlanTyped'
<1>1. \A act \in todo' : Rank(act)' \in Nat
  <2>1. CASE desired' = desired
    <3>1. \A act : Rank(act)' = Rank(act)
      BY <2>1 DEF Rank, Turn
    <3> QED BY <3>1 DEF PlanTyped
  <2> QED BY <2>1
<1> QED BY <1>1 DEF PlanTyped, Idle

(* What others do between two calls of FLINCH. *)
LEMMA OthersKeepOwn ==
  ASSUME ~Races, OwnInv, Others
  PROVE  OwnInv'
<1>1. DaemonStands /\ Interfere
  BY DEF Others, Exclude, Unexclude, PutIn, TakeOut, Configure, Watch, Rekey, Handle
<1>2. pc \notin {"looked", "written"} /\ UNCHANGED <<files, pc, protected, scheduled, todo, before, stalled>>
  BY <1>1 DEF Interfere, DaemonStands
<1>3. PlanTyped'
  BY <1>1, <1>2, PlanShrinks DEF OwnInv, SyncTypes, PlanTyped, DaemonStands
<1>4. FilesTyped'
  BY <1>2 DEF OwnInv, SyncTypes, FilesTyped, files
<1>5. Looked' /\ AddedOnly'
  BY <1>2 DEF Looked, AddedOnly
<1>6. /\ keys' \in [Item -> SUBSET Key] /\ library' \subseteq Item
      /\ members' \subseteq Collection \X Key /\ ruled' \subseteq Collection
  <2>0. ruled' = ruled
    BY DEF Others, Exclude, Unexclude, PutIn, TakeOut, Configure, Watch, Rekey, Handle, server
  <2> USE DEF OwnInv, SyncTypes
  <2>1. CASE UNCHANGED <<keys, library, members>>
    BY <2>0, <2>1
  <2>2. ASSUME NEW i \in Item, Rekey(i)
        PROVE  keys' \in [Item -> SUBSET Key] /\ library' = library /\ members' = members
    BY <2>2 DEF Rekey, server
  <2>3. ASSUME NEW m \in members, Handle(m)
        PROVE  keys' \in [Item -> SUBSET Key] /\ library' \subseteq library /\ members' \subseteq members
    BY <2>3 DEF Handle
  <2>4. ASSUME NEW c \in Collection, NEW k \in Key, PutIn(c, k)
        PROVE  UNCHANGED <<keys, library>> /\ members' = members \cup {<<c, k>>}
    BY <2>4 DEF PutIn, operator
  <2>5. ASSUME NEW m \in members, TakeOut(m)
        PROVE  UNCHANGED <<keys, library>> /\ members' \subseteq members
    BY <2>5 DEF TakeOut, operator
  <2>6. \/ \E k \in Anchor : Exclude(k)
        \/ \E r \in rows : Unexclude(r)
        \/ \E c \in Collection : Configure(c)
        \/ \E i \in Item : Watch(i)
        => UNCHANGED <<keys, library, members>>
    BY DEF Exclude, Unexclude, Configure, Watch, operator, server
  <2> QED BY <2>0, <2>1, <2>2, <2>3, <2>4, <2>5, <2>6 DEF Others
<1>7. CASE \E k \in Anchor : Exclude(k)
  <2>1. PICK k \in Anchor : FreshIds # {} /\ rows' = rows \cup {<<FreshId, k>>} /\ made' = made
    BY <1>7 DEF Exclude
  <2>2. /\ FreshId \in RowId /\ FreshId \notin Ids(rows)
        /\ \A i \in Item : FreshId \notin protected[i].ids /\ FreshId \notin protectedFile[i].ids
        /\ \A act \in todo : act.id # FreshId
    BY <2>1, FreshIsNew
  <2>3. OneRowEach'
    BY <2>1, <2>2 DEF OwnInv, OneRowEach, Ids
  <2>4. Claims(protected)' /\ Claims(protectedFile)'
    BY <1>2, <2>1, <2>2 DEF OwnInv, Claims, files
  <2>5. ReleasesOwn'
    BY <1>2, <2>1, <2>2 DEF OwnInv, ReleasesOwn, Ids
  <2>6. RowsTyped'
    BY <2>1, <2>2 DEF OwnInv, SyncTypes, RowsTyped
  <2> QED BY <1>3, <1>4, <1>5, <1>6, <2>3, <2>4, <2>5, <2>6 DEF OwnInv, SyncTypes
<1>8. CASE \E r \in rows : Unexclude(r)
  <2>1. PICK q \in rows : rows' = rows \ {q} /\ made' = made \ {q[1]}
    BY <1>8 DEF Unexclude
  <2>2. \A r \in rows' : r \in rows /\ r[1] # q[1]
    BY <2>1 DEF OwnInv, OneRowEach
  <2>3. Claims(protected)' /\ Claims(protectedFile)'
    BY <1>2, <2>1, <2>2 DEF OwnInv, Claims, files
  <2>4. OneRowEach' /\ ReleasesOwn' /\ RowsTyped'
    BY <1>2, <2>1, <2>2 DEF OwnInv, OneRowEach, ReleasesOwn, Ids, SyncTypes, RowsTyped
  <2> QED BY <1>3, <1>4, <1>5, <1>6, <2>3, <2>4 DEF OwnInv, SyncTypes
<1>9. CASE UNCHANGED <<rows, made>>
  <2>1. Claims(protected)' /\ Claims(protectedFile)' /\ OneRowEach' /\ ReleasesOwn' /\ RowsTyped'
    BY <1>2, <1>9 DEF OwnInv, Claims, OneRowEach, ReleasesOwn, Ids, SyncTypes, RowsTyped, files
  <2> QED BY <1>3, <1>4, <1>5, <1>6, <2>1 DEF OwnInv, SyncTypes
<1> QED
  BY <1>7, <1>8, <1>9 DEF Others, PutIn, TakeOut, Configure, Watch, Rekey, Handle, server

(* A cycle that ends keeps only what it saved. *)
LEMMA FinishKeepsOwn ==
  ASSUME OwnInv, Finish, UNCHANGED <<operator, server, made>>,
         Claims(protectedFile)', FilesTyped'
  PROVE  OwnInv'
<1>1. pc' = "idle" /\ todo' = {} /\ stalled' = {} /\ protected' = protectedFile'
      /\ (desired' = desired \/ desired' = Idle)
  BY DEF Finish
<1>2. PlanTyped'
  BY <1>1, PlanShrinks DEF OwnInv, SyncTypes
<1>3. SyncTypes'
  BY <1>2 DEF OwnInv, SyncTypes, RowsTyped, operator, server
<1>4. OneRowEach' /\ ReleasesOwn' /\ Looked' /\ AddedOnly'
  BY <1>1 DEF OwnInv, OneRowEach, ReleasesOwn, Looked, AddedOnly, server
<1> QED BY <1>1, <1>3, <1>4 DEF OwnInv, Claims

LEMMA SavingKeepsOwn ==
  ASSUME OwnInv, SaveProtected \/ SaveScheduled \/ Stop
  PROVE  OwnInv'
<1>1. UNCHANGED <<operator, server, made>>
  BY DEF SaveProtected, SaveScheduled, Stop
<1>2. CASE SaveProtected /\ ~Finish
  <2>1. /\ protectedFile' = protected /\ pc' = "saving"
        /\ UNCHANGED <<protected, scheduled, scheduledFile, desired, todo, before, stalled>>
    BY <1>2 DEF SaveProtected
  <2>2. PlanTyped'
    BY <2>1, PlanShrinks DEF OwnInv, SyncTypes
  <2>3. SyncTypes'
    BY <1>1, <2>1, <2>2 DEF OwnInv, SyncTypes, RowsTyped, FilesTyped, operator, server
  <2> QED BY <1>1, <2>1, <2>3 DEF OwnInv, Claims, OneRowEach, ReleasesOwn, Ids, Looked, AddedOnly, server
<1>3. CASE Finish
  <2>1. FilesTyped' /\ Claims(protectedFile)'
    <3>1. protectedFile' \in {protected, protectedFile} /\ scheduledFile' \in {scheduled, scheduledFile}
      BY DEF SaveProtected, SaveScheduled, Stop, files
    <3>2. protected' = protectedFile' /\ scheduled' = scheduledFile' /\ rows' = rows
      BY <1>1, <1>3 DEF Finish, server
    <3> QED BY <1>1, <3>1, <3>2 DEF OwnInv, SyncTypes, FilesTyped, Claims
  <2> QED BY <1>1, <1>3, <2>1, FinishKeepsOwn
<1> QED BY <1>2, <1>3 DEF SaveScheduled, Stop

(* What a write may change. *)
LEMMA ApplyChanges ==
  ASSUME OwnInv, NEW act \in todo, Apply(act)
  PROVE  /\ RowsTyped' /\ members' \subseteq Collection \X Key /\ OneRowEach'
         /\ \A r \in rows' \ rows : /\ act.do = "protect" /\ r[2] = act.key /\ r[1] \in made'
                                    /\ \A i \in Item : r[1] \notin protected[i].ids /\ r[1] \notin protectedFile[i].ids
                                    /\ \A other \in todo : other.id # r[1]
         /\ \A r \in rows' \cap rows : r[1] \in made => r[1] \in made'
         /\ act.do # "release" => rows \subseteq rows'
         /\ act.do = "release" => rows' = {r \in rows : r[1] # act.id}
<1> USE DEF OwnInv, SyncTypes, PlanTyped, RowsTyped
<1>1. act \in Deed
  OBVIOUS
<1>2. CASE act.do = "release"
  <2>1. rows' = {r \in rows : r[1] # act.id} /\ made' = made \ {act.id} /\ members' = members
    BY <1>2 DEF Apply
  <2> QED BY <1>2, <2>1 DEF OneRowEach
<1>3. CASE act.do \in {"schedule", "unschedule"}
  <2>1. rows' = rows /\ made' = made /\ members' \subseteq members \cup {<<act.collection, act.key>>}
    BY <1>3 DEF Apply
  <2>2. act.do = "schedule" => act.collection \in Collection /\ act.key \in Key
    BY <1>1 DEF Deed
  <2>3. act.do = "unschedule" => members' \subseteq members
    BY DEF Apply
  <2> QED BY <1>3, <2>1, <2>2, <2>3 DEF OneRowEach
<1>4. CASE act.do = "protect"
  <2>1. CASE \E r \in rows : r[2] = act.key
    <3>1. rows' = rows /\ made' = made /\ members' = members
      BY <1>4, <2>1 DEF Apply
    <3> QED BY <1>4, <3>1 DEF OneRowEach
  <2>2. CASE ~\E r \in rows : r[2] = act.key
    <3>1. FreshIds # {} /\ rows' = rows \cup {<<FreshId, act.key>>} /\ made' = made \cup {FreshId} /\ members' = members
      BY <1>4, <2>2 DEF Apply
    <3>2. /\ FreshId \in RowId /\ FreshId \notin Ids(rows)
          /\ \A i \in Item : FreshId \notin protected[i].ids /\ FreshId \notin protectedFile[i].ids
          /\ \A other \in todo : other.id # FreshId
      BY <3>1, FreshIsNew
    <3>3. act.key \in Anchor
      BY <1>1 DEF Deed, Anchor
    <3>4. OneRowEach'
      BY <3>1, <3>2 DEF OneRowEach, Ids
    <3> QED BY <1>4, <3>1, <3>2, <3>3, <3>4
  <2> QED BY <2>1, <2>2
<1> QED BY <1>1, <1>2, <1>3, <1>4 DEF Deed

LEMMA WriteKeepsOwn ==
  ASSUME OwnInv, Write
  PROVE  OwnInv'
<1>1. todo # {} /\ Current \in todo /\ (Current.do = "protect" => pc = "looked")
  BY CurrentIsFirst DEF Write, OwnInv, SyncTypes, Looked
<1>2. UNCHANGED <<operator, setting, ruled, files, protected, scheduled, desired, before>>
  BY DEF Write
<1>3. \/ todo' = todo /\ pc' = "written" /\ stalled' = stalled
      \/ todo' \subseteq todo /\ pc' = "acting"
  <2>1. (pc' = "written" /\ UNCHANGED <<todo, stalled>>) \/ Stall
    BY DEF Write
  <2> QED BY <2>1 DEF Stall, Rest
<1>4. PlanTyped' /\ FilesTyped'
  <2>1. PlanTyped'
    BY <1>2, <1>3, PlanShrinks DEF OwnInv, SyncTypes
  <2> QED BY <1>2, <2>1 DEF OwnInv, SyncTypes, FilesTyped, files
<1>5. CASE UNCHANGED <<rows, members, made>> /\ pc' = "acting"
  BY <1>2, <1>3, <1>4, <1>5 DEF OwnInv, SyncTypes, RowsTyped, Claims, OneRowEach, ReleasesOwn, Ids, Looked, AddedOnly, operator, files
<1>6. CASE Apply(Current)
  <2> PICK act \in todo : act = Current
    BY <1>1
  <2>1. Apply(act)
    BY <1>6
  <2>2. /\ RowsTyped' /\ members' \subseteq Collection \X Key /\ OneRowEach'
        /\ \A r \in rows' \ rows : /\ act.do = "protect" /\ r[2] = act.key /\ r[1] \in made'
                                   /\ \A i \in Item : r[1] \notin protected[i].ids /\ r[1] \notin protectedFile[i].ids
                                   /\ \A other \in todo : other.id # r[1]
        /\ \A r \in rows' \cap rows : r[1] \in made => r[1] \in made'
        /\ act.do # "release" => rows \subseteq rows'
    BY <2>1, ApplyChanges
  <2>3. Claims(protected)' /\ Claims(protectedFile)'
    BY <1>2, <2>2 DEF OwnInv, Claims, files
  <2>4. ReleasesOwn'
    <3> SUFFICES ASSUME NEW other \in todo, other.do = "release", NEW r \in rows', r[1] = other.id
                 PROVE  r[1] \in made'
      BY <1>3 DEF ReleasesOwn, Ids
    <3>1. r \in rows
      BY <2>2
    <3>2. r[1] \in made
      BY <3>1 DEF OwnInv, ReleasesOwn, Ids
    <3> QED BY <2>2, <3>1, <3>2
  <2>5. AddedOnly'
    <3> SUFFICES ASSUME pc' = "written", act.do = "protect", NEW r \in RowsOf(act.key)', r[1] \notin before
                 PROVE  r[2] = act.key /\ r[1] \in made'
      <4>1. pc' = "written" => Current' = act /\ todo' = todo
        BY <1>2, <1>3, SameCurrent
      <4>2. AddedOnly' = (pc' = "written" =>
                /\ todo' # {}
                /\ Current'.do = "protect" =>
                     \A r \in RowsOf(Current.key)' : r[1] \notin before' => r[2] = Current'.key /\ r[1] \in made')
        BY DEF AddedOnly
      <4>3. pc' = "written" => RowsOf(Current.key)' = RowsOf(act.key)'
        BY <4>1 DEF RowsOf
      <4> HIDE DEF AddedOnly
      <4> QED BY <1>1, <1>2, <4>1, <4>2, <4>3
    <3>1. before = Ids(RowsOf(act.key))
      BY <1>1 DEF OwnInv, Looked
    <3>2. r \notin rows
      BY <3>1 DEF RowsOf, Ids
    <3> QED BY <2>2, <3>2 DEF RowsOf
  <2> QED BY <1>2, <1>3, <1>4, <2>2, <2>3, <2>4, <2>5 DEF OwnInv, SyncTypes, Looked, operator
<1> QED BY <1>5, <1>6 DEF Write, Stall

LEMMA QuietKeepsOwn ==
  ASSUME OwnInv, TurnOffRules \/ Skip \/ LookBefore \/ UNCHANGED vars
  PROVE  OwnInv'
<1>1. CASE TurnOffRules \/ UNCHANGED vars
  <2>1. UNCHANGED <<operator, files, protected, scheduled, desired, todo, before, stalled, made, rows, members>>
        /\ (pc' = "acting" \/ pc' = pc) /\ ruled' \subseteq ruled
    BY <1>1 DEF TurnOffRules, vars, server
  <2>2. PlanTyped' /\ FilesTyped'
    BY <2>1, <1>1, PlanShrinks DEF OwnInv, SyncTypes, FilesTyped, files, TurnOffRules, vars, PlanTyped
  <2>3. Looked' /\ AddedOnly'
    <3>1. Current' = Current
      BY <2>1, SameCurrent
    <3>2. pc' \in {"looked", "written"} => pc' = pc
      BY <2>1
    <3> QED BY <2>1, <3>1, <3>2 DEF OwnInv, Looked, AddedOnly, RowsOf
  <2> QED BY <2>1, <2>2, <2>3 DEF OwnInv, SyncTypes, RowsTyped, Claims, OneRowEach, ReleasesOwn, Ids, operator, files
<1>2. CASE Skip \/ LookBefore
  <2>1. UNCHANGED <<operator, server, files, protected, scheduled, desired, made>>
    BY <1>2 DEF Skip, LookBefore
  <2>2. \/ Stall
        \/ todo' = todo /\ todo # {} /\ Current.do = "protect" /\ before' = Ids(RowsOf(Current.key)) /\ pc' = "looked"
    BY <1>2 DEF Skip, LookBefore
  <2>3. todo' \subseteq todo /\ pc' \in {"acting", "looked"}
    BY <2>2 DEF Stall, Rest
  <2>4. PlanTyped' /\ FilesTyped'
    BY <2>1, <2>3, PlanShrinks DEF OwnInv, SyncTypes, FilesTyped, files
  <2>5. Looked'
    <3>1. CASE Stall
      BY <3>1 DEF Stall, Looked
    <3>2. CASE ~Stall
      <4>1. Current' = Current
        BY <2>1, <2>2, <3>2, SameCurrent
      <4> QED BY <2>1, <2>2, <3>2, <4>1 DEF Looked, RowsOf, server
    <3> QED BY <3>1, <3>2
  <2> QED BY <2>1, <2>3, <2>4, <2>5 DEF OwnInv, SyncTypes, RowsTyped, Claims, OneRowEach, ReleasesOwn, Ids, AddedOnly, operator, server, files
<1> QED BY <1>1, <1>2

(* What a read-back records. *)
LEMMA RecordKeepsClaims ==
  ASSUME OwnInv, pc = "written", Shown(Current), RecordDone(Current), UNCHANGED <<rows, made>>
  PROVE  /\ protected' \in [Item -> {NoEntry} \cup Entry] /\ scheduled' \in [Item -> {NotScheduled} \cup Membership]
         /\ Claims(protected)'
<1> PICK act \in todo : act = Current
  BY CurrentIsFirst DEF OwnInv, SyncTypes, AddedOnly
<1>1. act \in Deed /\ act.do \in {"unschedule", "protect", "release", "schedule"} /\ act.card \in Item /\ act.key \in Key
  BY DEF OwnInv, SyncTypes, PlanTyped, Deed
<1>2. RecordDone(act) /\ Shown(act)
  OBVIOUS
<1>3. protected \in [Item -> {NoEntry} \cup Entry] /\ scheduled \in [Item -> {NotScheduled} \cup Membership]
  BY DEF OwnInv, SyncTypes, FilesTyped
<1>4. CASE act.do = "release"
  <2> DEFINE e == Forgotten(protected[act.card], act.id)
  <2>1. protected' = [protected EXCEPT ![act.card] = e] /\ scheduled' = scheduled
    BY <1>2, <1>4 DEF RecordDone
  <2>2. e \in {NoEntry} \cup Entry /\ e.ids \subseteq protected[act.card].ids
        /\ (e.ids # {} => e.key = protected[act.card].key)
    BY <1>1, <1>3 DEF Forgotten, Entry, NoEntry
  <2> HIDE DEF e
  <2>3. protected' \in [Item -> {NoEntry} \cup Entry]
    BY <1>1, <1>3, <2>1, <2>2
  <2>4. Claims(protected)'
    BY <1>1, <1>3, <2>1, <2>2 DEF OwnInv, Claims
  <2> QED BY <1>3, <2>1, <2>3, <2>4
<1>5. CASE act.do = "schedule"
  <2>1. /\ protected' = [protected EXCEPT ![act.card] = NoEntry]
        /\ scheduled' = [scheduled EXCEPT ![act.card] = [key |-> act.key, collection |-> act.collection]]
    BY <1>2, <1>5 DEF RecordDone
  <2>2. act.collection \in Collection
    BY <1>1, <1>5 DEF Deed
  <2>3. Claims(protected)'
    BY <1>1, <1>3, <2>1 DEF OwnInv, Claims, NoEntry
  <2> QED BY <1>1, <1>3, <2>1, <2>2, <2>3 DEF Membership
<1>6. CASE act.do = "unschedule"
  <2>1. scheduled' = [scheduled EXCEPT ![act.card] = NotScheduled] /\ protected' = protected
    BY <1>2, <1>6 DEF RecordDone
  <2> QED BY <1>1, <1>3, <2>1 DEF OwnInv, Claims
<1>7. CASE act.do = "protect"
  <2> DEFINE e == [key |-> act.key, ids |-> Ids(RowsOf(act.key)) \ before]
  <2>1. protected' = [protected EXCEPT ![act.card] = e] /\ scheduled' = scheduled
    BY <1>2, <1>7 DEF RecordDone
  <2>2. e \in Entry /\ e.key = act.key /\ e.ids = Ids(RowsOf(act.key)) \ before
    BY <1>1 DEF Entry, Ids, RowsOf, OwnInv, SyncTypes, RowsTyped
  <2>3. \A r \in rows : r[1] \in e.ids => r[2] = act.key /\ r[1] \in made
    <3> SUFFICES ASSUME NEW r \in rows, r[1] \in e.ids PROVE r[2] = act.key /\ r[1] \in made
      OBVIOUS
    <3>1. PICK q \in RowsOf(act.key) : q[1] = r[1] /\ q[1] \notin before
      BY <2>2 DEF Ids
    <3>2. q = r
      BY <3>1 DEF RowsOf, OwnInv, OneRowEach
    <3> QED BY <1>7, <3>1, <3>2 DEF OwnInv, AddedOnly
  <2> HIDE DEF e
  <2>4. Claims(protected)'
    BY <1>1, <1>3, <2>1, <2>2, <2>3 DEF OwnInv, Claims
  <2> QED BY <1>1, <1>3, <2>1, <2>2, <2>4
<1> QED BY <1>1, <1>4, <1>5, <1>6, <1>7

LEMMA ReadBackKeepsOwn ==
  ASSUME OwnInv, ReadBack
  PROVE  OwnInv'
<1>1. UNCHANGED <<operator, server, files, desired, made>> /\ pc = "written" /\ pc' = "acting" /\ todo' \subseteq todo
  BY DEF ReadBack, Stall, Rest
<1>2. PlanTyped'
  BY <1>1, PlanShrinks DEF OwnInv, SyncTypes
<1>3. /\ protected' \in [Item -> {NoEntry} \cup Entry] /\ scheduled' \in [Item -> {NotScheduled} \cup Membership]
      /\ Claims(protected)'
  <2>1. CASE Shown(Current) /\ RecordDone(Current)
    BY <1>1, <2>1, RecordKeepsClaims DEF server
  <2>2. CASE UNCHANGED <<protected, scheduled>>
    BY <1>1, <2>2 DEF OwnInv, SyncTypes, FilesTyped, Claims, server
  <2> QED BY <2>1, <2>2 DEF ReadBack
<1>4. Claims(protectedFile)' /\ FilesTyped'
  BY <1>1, <1>3 DEF OwnInv, SyncTypes, FilesTyped, Claims, files, server
<1> QED
  BY <1>1, <1>2, <1>3, <1>4 DEF OwnInv, SyncTypes, RowsTyped, OneRowEach, ReleasesOwn, Ids, Looked, AddedOnly, operator, server

(* While nobody acts between the calls of one write, what FLINCH records as *)
(* its own exclusions are its own (execute.rs:188-198).                     *)
THEOREM OwnRowsAreOwn ==
  ASSUME ~Races
  PROVE  Spec => []OwnInv
<1>1. OwnInv /\ [Next]_vars => OwnInv'
  BY ObserveKeepsOwn, QuietKeepsOwn, WriteKeepsOwn, ReadBackKeepsOwn, SavingKeepsOwn, OthersKeepOwn DEF Next, Daemon
<1> QED
  BY OwnInit, <1>1, PTL DEF Spec

(* A call of FLINCH's removes only exclusions a call of FLINCH's made: the   *)
(* operator's stay (plan.rs:20-21).                                          *)
THEOREM OperatorRowsStayHolds ==
  ASSUME ~Races
  PROVE  Spec => OperatorRowsStay
<1>1. ASSUME OwnInv, Write
      PROVE  Ids(rows) \ Ids(rows') \subseteq made
  <2>1. CASE rows' = rows
    BY <2>1
  <2>2. CASE Apply(Current) /\ rows' # rows
    <3> PICK act \in todo : act = Current
      BY <1>1, CurrentIsFirst DEF Write, OwnInv, SyncTypes, Looked
    <3>1. CASE act.do = "release"
      <4>1. rows' = {r \in rows : r[1] # act.id}
        BY <2>2, <3>1, <1>1, ApplyChanges
      <4> QED BY <1>1, <3>1, <4>1 DEF OwnInv, ReleasesOwn, Ids
    <3>2. CASE act.do # "release"
      <4>1. rows \subseteq rows'
        BY <2>2, <3>2, <1>1, ApplyChanges
      <4> QED BY <4>1 DEF Ids
    <3> QED BY <3>1, <3>2
  <2> QED BY <1>1, <2>1, <2>2 DEF Write
<1>2. OwnInv /\ [Next]_vars => [Write => Ids(rows) \ Ids(rows') \subseteq made]_vars
  BY <1>1
<1> QED
  BY OwnRowsAreOwn, <1>2, PTL DEF Spec, OperatorRowsStay

-----------------------------------------------------------------------------
(* A cycle under way that nobody disturbed.  Its plan, drawn up from one view *)
(* of Maintainerr, still fits it, and every promise about the end of the     *)
(* cycle is met or waits for an act that is left.                            *)
Undisturbed == calm /\ pc # "idle"

Alone(i) == i \notin desired.shared
Left(i, do) == \E act \in todo : act.card = i /\ act.do = do
Goes(id) == \E act \in todo : act.do = "release" /\ act.id = id
LeavesBy(c, k) == \E act \in todo : act.do = "unschedule" /\ act.collection = c /\ act.key = k
EntersBy(c, k) == \E act \in todo : act.do = "schedule" /\ act.collection = c /\ act.key = k

(* An exclusion covers the card that the plan does not release. *)
Kept(i) == \E r \in rows : Covers(r, Target(i)) /\ ~Goes(r[1])

(* What the acts of a plan are, and that those of one card leave the others' *)
(* Plex items alone.                                                        *)
ActsFit ==
  \A act \in todo :
    /\ act.card \notin stalled
    /\ act.do = "protect" =>
         /\ act.key = Target(act.card) /\ act.card \in desired.evict \cup desired.protect
         /\ \A other \in todo : other.card = act.card => other = act \/ other.do = "unschedule"
    /\ act.do = "release" =>
         \A r \in rows : r[1] = act.id =>
           r[2] \in Key /\ \A i \in Item \ {act.card} : Alone(i) => r[2] \notin keys[i]
    /\ act.do = "schedule" =>
         /\ act.card \in desired.evict
         /\ act.card \in unfinished => act.collection \in Announcing
    /\ act.do \in {"schedule", "unschedule"} =>
         \A i \in Item \ {act.card} : Alone(i) => act.key \notin keys[i]

KeptFit ==
  \A i \in desired.protect \ desired.unresolved : Alone(i) =>
    /\ keys[i] # {} /\ ~Left(i, "release")
    /\ Left(i, "protect") \/ Kept(i)

WaitFit ==
  ~desired.refused =>
    \A i \in Judged(desired) \cap unfinished : Alone(i) =>
      \A c \in Deleting : <<c, Target(i)>> \in members =>
        Kept(i) \/ Left(i, "protect") \/ LeavesBy(c, Target(i))

MembershipsFit ==
  \A i \in Item : scheduled[i] # NotScheduled =>
    \/ i \in desired.evict /\ (i \in unfinished => scheduled[i].collection \in Announcing)
    \/ \E act \in todo : /\ act.do = "unschedule" /\ act.card = i
                         /\ act.collection = scheduled[i].collection /\ act.key = scheduled[i].key

(* A card to be evicted: its own exclusions are released, or it does not sit *)
(* where it is to leave from and is not put there, or it may not leave.      *)
Shed(i) ==
  /\ \A r \in rows : r[1] \in protected[i].ids /\ Covers(r, Target(i)) => Goes(r[1])
  /\ ~Left(i, "protect")
Outside(i) == ~Settled(i) /\ ~EntersBy(Place(i), Target(i))
(* An exclusion FLINCH does not know as its own, and will not take for it. *)
Foreign(r) ==
  /\ r[1] \notin OwnedIds(protected) /\ ~Goes(r[1])
  /\ pc \in {"looked", "written"} /\ Current.do = "protect" /\ r \in RowsOf(Current.key) => r[1] \in before
Astray(i) ==
  /\ i \in unfinished /\ ~Left(i, "schedule")
  /\ \E c \in Deleting : /\ <<c, Target(i)>> \in members /\ ~LeavesBy(c, Target(i))
                         /\ scheduled[i] # [key |-> Target(i), collection |-> c]
Barred(i) ==
  \/ i \notin Judged(desired) \/ desired.refused \/ Place(i) = None
  \/ \E r \in rows : Covers(r, Target(i)) /\ Foreign(r)
  \/ Astray(i)

ShieldsFit ==
  /\ \A i \in Item \ (desired.protect \cup desired.unresolved \cup desired.evict) :
       \A r \in rows : r[1] \in protected[i].ids => Goes(r[1])
  /\ \A i \in desired.evict \ (desired.protect \cup desired.unresolved) :
       Alone(i) => Shed(i) \/ Outside(i) \/ Barred(i)

(* What was written shows, until it is read back. *)
WriteShows ==
  pc = "written" =>
    CASE Current.do = "release" -> Current.id \notin Ids(rows)
      [] Current.do = "schedule" -> <<Current.collection, Current.key>> \in members
      [] Current.do = "unschedule" -> <<Current.collection, Current.key>> \notin members
      [] Current.do = "protect" -> Alone(Current.card) => Kept(Current.card)

CalmInv ==
  /\ Undisturbed => /\ ActsFit /\ KeptFit /\ WaitFit /\ MembershipsFit /\ ShieldsFit /\ WriteShows
                    /\ pc # "rules" => ruled \cap Titled = {}
                    /\ pc = "saving" => todo = {} /\ protectedFile = protected
  /\ UnfinishedWaits /\ KeptAreCovered /\ NoShieldOutlives /\ MembershipsWanted /\ OnePlanner

LEMMA PlanStands ==
  ASSUME UNCHANGED <<operator, setting, desired>>
  PROVE  /\ UNCHANGED <<keys, unfinished, desired>>
         /\ \A i : Target(i)' = Target(i) /\ Place(i)' = Place(i)
         /\ Deleting' = Deleting /\ Announcing' = Announcing /\ Titled' = Titled
         /\ Judged(desired)' = Judged(desired)
<1>1. UNCHANGED <<keys, unfinished, desired>>
  BY DEF operator
<1>2. Judged(desired)' = Judged(desired)
  BY <1>1 DEF Judged, WrongCopy
<1> QED BY <1>1, <1>2, SamePlan

LEMMA TargetOfMember ==
  ASSUME SyncTypes, NEW i \in Item, Target(i) \in Key
  PROVE  Target(i) \in keys[i]
  BY SyncAssumption, TargetIsAKey DEF Target

(* FLINCH looks before it protects. *)
LEMMA LookKeepsCalm ==
  ASSUME OwnInv, CalmInv, LookBefore, calm'
  PROVE  CalmInv'
<1>1. /\ UNCHANGED <<operator, server, files, protected, scheduled, desired, made, todo, stalled, calm>>
      /\ pc = "acting" /\ pc' = "looked" /\ before' = Ids(RowsOf(Current.key))
  BY DEF LookBefore, Mishap, Smooth
<1>2. UNCHANGED <<rows, members, setting, ruled>> /\ Undisturbed
  BY <1>1 DEF server, Undisturbed
<1>3. Current' = Current
  BY <1>1, SameCurrent
<1>4. /\ UNCHANGED <<keys, unfinished, desired>>
      /\ \A i : Target(i)' = Target(i) /\ Place(i)' = Place(i)
      /\ Deleting' = Deleting /\ Announcing' = Announcing /\ Titled' = Titled
      /\ Judged(desired)' = Judged(desired)
  BY <1>1, <1>2, PlanStands
<1>5. /\ \A i : Kept(i)' = Kept(i) /\ Alone(i)' = Alone(i)
      /\ \A i, do : Left(i, do)' = Left(i, do)
      /\ \A id : Goes(id)' = Goes(id)
      /\ \A c, k : LeavesBy(c, k)' = LeavesBy(c, k) /\ EntersBy(c, k)' = EntersBy(c, k)
  BY <1>1, <1>2, <1>4 DEF Kept, Alone, Left, Goes, LeavesBy, EntersBy
<1>6. ActsFit' /\ KeptFit' /\ WaitFit' /\ MembershipsFit'
  BY <1>1, <1>2, <1>4, <1>5 DEF CalmInv, ActsFit, KeptFit, WaitFit, MembershipsFit
<1>7. \A r \in rows : Foreign(r) => Foreign(r)'
  BY <1>1, <1>2, <1>3, <1>5 DEF Foreign, RowsOf, Ids, OwnedIds
<1>8. ShieldsFit'
  <2>1. \A i : Shed(i)' = Shed(i) /\ Outside(i)' = Outside(i) /\ Astray(i)' = Astray(i)
    BY <1>1, <1>2, <1>4, <1>5 DEF Shed, Outside, Astray, Settled
  <2>2. \A i : Barred(i) => Barred(i)'
    BY <1>2, <1>4, <1>7, <2>1 DEF Barred
  <2> QED BY <1>1, <1>2, <1>4, <1>5, <2>1, <2>2 DEF CalmInv, ShieldsFit
<1> QED
  BY <1>1, <1>2, <1>4, <1>6, <1>8
  DEF CalmInv, Undisturbed, WriteShows, Rested, UnfinishedWaits, KeptAreCovered, NoShieldOutlives, MembershipsWanted, OnePlanner

(* A write goes through and nothing else moves. *)
LEMMA WriteKeepsCalm ==
  ASSUME OwnInv, CalmInv, Write, calm'
  PROVE  CalmInv'
<1> PICK act \in todo : act = Current
  BY CurrentIsFirst DEF Write, OwnInv, SyncTypes, Looked
<1>1. /\ UNCHANGED <<operator, setting, ruled, files, protected, scheduled, desired, before>>
      /\ Apply(act) /\ pc' = "written" /\ UNCHANGED <<todo, stalled, calm>> /\ pc \in {"acting", "looked"}
      /\ act.do = "protect" => pc = "looked"
  BY DEF Write, Mishap, Smooth
<1>2. Undisturbed /\ ActsFit /\ KeptFit /\ WaitFit /\ MembershipsFit /\ ShieldsFit /\ (pc # "rules" => ruled \cap Titled = {})
  BY <1>1 DEF CalmInv, Undisturbed
<1>3. Current' = act
  BY <1>1, SameCurrent
<1>4. /\ UNCHANGED <<keys, unfinished, desired>>
      /\ \A i : Target(i)' = Target(i) /\ Place(i)' = Place(i)
      /\ Deleting' = Deleting /\ Announcing' = Announcing /\ Titled' = Titled
      /\ Judged(desired)' = Judged(desired)
  BY <1>1, PlanStands
<1>5. /\ \A i : Alone(i)' = Alone(i)
      /\ \A i, do : Left(i, do)' = Left(i, do)
      /\ \A id : Goes(id)' = Goes(id)
      /\ \A c, k : LeavesBy(c, k)' = LeavesBy(c, k) /\ EntersBy(c, k)' = EntersBy(c, k)
  BY <1>1, <1>4 DEF Alone, Left, Goes, LeavesBy, EntersBy
<1>6. /\ \A r \in rows' \ rows : /\ act.do = "protect" /\ r[2] = act.key
                                 /\ \A i \in Item : r[1] \notin protected[i].ids
                                 /\ \A other \in todo : other.id # r[1]
      /\ act.do # "release" => rows \subseteq rows'
      /\ act.do = "release" => rows' = {r \in rows : r[1] # act.id}
  BY <1>1, ApplyChanges
<1>7. \A r \in rows : ~Goes(r[1]) => r \in rows'
  BY <1>6 DEF Goes
<1>8. /\ act.do = "schedule" => members' = members \cup {<<act.collection, act.key>>}
      /\ act.do = "unschedule" => members' = members \ {<<act.collection, act.key>>}
      /\ act.do \in {"release", "protect"} => members' = members
      /\ act.do = "protect" => \E r \in rows' : r[2] = act.key
  <2>1. CASE act.do \in {"release", "schedule", "unschedule"}
    BY <1>1, <2>1 DEF Apply
  <2>2. CASE act.do = "protect"
    <3>1. /\ IF \E r \in rows : r[2] = act.key THEN UNCHANGED <<rows, made>>
             ELSE FreshIds # {} /\ rows' = rows \cup {<<FreshId, act.key>>} /\ made' = made \cup {FreshId}
          /\ members' = members
      BY <1>1, <2>2 DEF Apply
    <3>2. CASE \E r \in rows : r[2] = act.key
      BY <2>2, <3>1, <3>2
    <3>3. CASE ~\E r \in rows : r[2] = act.key
      <4>1. <<FreshId, act.key>> \in rows' /\ <<FreshId, act.key>>[2] = act.key
        BY <3>1, <3>3
      <4> QED BY <2>2, <3>1, <4>1
    <3> QED BY <3>2, <3>3
  <2>3. act.do \in {"unschedule", "protect", "release", "schedule"}
    BY DEF OwnInv, SyncTypes, PlanTyped, Deed
  <2> QED BY <2>1, <2>2, <2>3
<1>9. act \in Deed /\ act.card \in Item /\ act.key \in Key /\ act.do \in {"unschedule", "protect", "release", "schedule"}
  BY DEF OwnInv, SyncTypes, PlanTyped, Deed
<1>10. \A i : Kept(i) => Kept(i)'
  BY <1>4, <1>5, <1>7 DEF Kept, Covers
<1>11. ActsFit'
  <2> SUFFICES ASSUME NEW a \in todo, a.do = "release", NEW r \in rows', r[1] = a.id
               PROVE  r \in rows
    BY <1>1, <1>2, <1>4, <1>5 DEF ActsFit
  <2> QED BY <1>6
<1>12. KeptFit'
  BY <1>2, <1>4, <1>5, <1>10 DEF KeptFit
<1>13. WaitFit'
  <2> SUFFICES ASSUME ~desired.refused, NEW i \in Judged(desired) \cap unfinished, Alone(i), NEW c \in Deleting,
                      <<c, Target(i)>> \in members'
               PROVE  Kept(i)' \/ Left(i, "protect") \/ LeavesBy(c, Target(i))
    BY <1>4, <1>5 DEF WaitFit
  <2>1. CASE <<c, Target(i)>> \in members
    BY <1>2, <1>10, <2>1 DEF WaitFit
  <2>2. CASE <<c, Target(i)>> \notin members
    <3>1. act.do = "schedule" /\ act.collection = c /\ act.key = Target(i)
      BY <1>8, <1>9, <2>2
    <3>2. i \in Item
      BY DEF Judged, OwnInv, SyncTypes, PlanTyped
    <3>3. act.key \in keys[i]
      BY <1>9, <3>1, <3>2, TargetOfMember DEF OwnInv
    <3>4. act.card = i
      BY <1>2, <3>1, <3>2, <3>3 DEF ActsFit
    <3>5. c \in Announcing
      BY <1>2, <3>1, <3>4 DEF ActsFit
    <3> QED BY <3>5 DEF Announcing
  <2> QED BY <2>1, <2>2
<1>14. MembershipsFit'
  BY <1>1, <1>2, <1>4 DEF MembershipsFit
<1>15. \A r \in rows : Foreign(r) => r \in rows' /\ Foreign(r)'
  <2> SUFFICES ASSUME NEW r \in rows, Foreign(r) PROVE r \in rows' /\ Foreign(r)'
    OBVIOUS
  <2>1. r \in rows' /\ r[1] \notin OwnedIds(protected)' /\ ~Goes(r[1])'
    BY <1>1, <1>5, <1>7 DEF Foreign, OwnedIds
  <2>2. act.do = "protect" /\ r \in RowsOf(act.key)' => r[1] \in before
    BY <1>1 DEF Foreign, RowsOf
  <2>3. RowsOf(Current.key)' = RowsOf(act.key)'
    BY <1>3 DEF RowsOf
  <2> QED BY <1>1, <1>3, <2>1, <2>2, <2>3 DEF Foreign
<1>16. ShieldsFit'
  <2>1. \A i \in Item : \A r \in rows' : r[1] \in protected[i].ids => r \in rows
    BY <1>6
  <2>2. \A i \in Item : Shed(i) => Shed(i)'
    BY <1>1, <1>4, <1>5, <2>1 DEF Shed, Covers
  <2>3. \A i \in Item : Outside(i) => Outside(i)'
    <3> SUFFICES ASSUME NEW i \in Item, Outside(i) PROVE <<Place(i), Target(i)>> \notin members'
      BY <1>4, <1>5 DEF Outside, Settled
    <3> QED BY <1>8, <1>9 DEF Outside, Settled, EntersBy
  <2>4. \A i \in Item : Astray(i) => Astray(i)'
    <3> SUFFICES ASSUME NEW i \in Item, NEW c \in Deleting, <<c, Target(i)>> \in members, ~LeavesBy(c, Target(i))
                 PROVE  <<c, Target(i)>> \in members'
      BY <1>1, <1>4, <1>5 DEF Astray
    <3> QED BY <1>8, <1>9 DEF LeavesBy
  <2>5. \A i \in Item : Barred(i) => Barred(i)'
    BY <1>4, <1>15, <2>4 DEF Barred, Covers
  <2>6. \A i \in desired.evict : i \in Item
    BY DEF OwnInv, SyncTypes, PlanTyped
  <2> QED BY <1>1, <1>2, <1>4, <1>5, <2>1, <2>2, <2>3, <2>5, <2>6 DEF ShieldsFit
<1>17. WriteShows'
  <2>1. CASE act.do = "release"
    BY <1>1, <1>3, <1>6, <2>1 DEF WriteShows, Ids
  <2>2. CASE act.do \in {"schedule", "unschedule"}
    BY <1>1, <1>3, <1>8, <2>2 DEF WriteShows
  <2>3. CASE act.do = "protect"
    <3>1. PICK r \in rows' : r[2] = act.key
      BY <1>8, <2>3
    <3>2. act.key = Target(act.card) /\ act.key \in keys[act.card]
      BY <1>2, <1>9, <2>3, TargetOfMember DEF ActsFit, OwnInv
    <3>3. ASSUME Alone(act.card) PROVE ~Goes(r[1])
      <4> SUFFICES ASSUME NEW a \in todo, a.do = "release", a.id = r[1] PROVE FALSE
        BY DEF Goes
      <4>1. r \in rows
        BY <1>6
      <4>2. a.card = act.card
        BY <1>2, <1>9, <3>1, <3>2, <3>3, <4>1 DEF ActsFit
      <4> QED BY <1>2, <2>3, <4>2 DEF ActsFit
    <3>4. Alone(act.card) => Kept(act.card)'
      BY <1>4, <1>5, <3>1, <3>2, <3>3 DEF Kept, Covers
    <3>5. Kept(Current.card)' = Kept(act.card)' /\ Alone(Current.card)' = Alone(act.card)
      BY <1>3, <1>5 DEF Kept, Alone, Target, Covers
    <3> QED BY <1>1, <1>3, <2>3, <3>4, <3>5 DEF WriteShows
  <2> QED BY <1>9, <2>1, <2>2, <2>3
<1> QED
  BY <1>1, <1>2, <1>4, <1>11, <1>12, <1>13, <1>14, <1>16, <1>17
  DEF CalmInv, Undisturbed, Rested, UnfinishedWaits, KeptAreCovered, NoShieldOutlives, MembershipsWanted, OnePlanner

(* What a read-back shows is recorded; a protection that does not show is    *)
(* its card's last act.                                                     *)
LEMMA ReadBackKeepsCalm ==
  ASSUME OwnInv, CalmInv, ReadBack, calm'
  PROVE  CalmInv'
<1> PICK act \in todo : act = Current
  BY CurrentIsFirst DEF ReadBack, OwnInv, SyncTypes, AddedOnly
<1>1. /\ UNCHANGED <<operator, server, files, desired, made, calm>>
      /\ pc = "written" /\ pc' = "acting" /\ todo' = todo \ {act} /\ before' = {}
  BY DEF ReadBack, Stall, Rest, Mishap, Smooth
<1>2. UNCHANGED <<rows, members, setting, ruled>>
  BY <1>1 DEF server
<1>3. ActsFit /\ KeptFit /\ WaitFit /\ MembershipsFit /\ ShieldsFit /\ WriteShows /\ ruled \cap Titled = {}
  BY <1>1 DEF CalmInv, Undisturbed
<1>4. /\ UNCHANGED <<keys, unfinished, desired>>
      /\ \A i : Target(i)' = Target(i) /\ Place(i)' = Place(i)
      /\ Deleting' = Deleting /\ Announcing' = Announcing /\ Titled' = Titled
      /\ Judged(desired)' = Judged(desired)
  BY <1>1, <1>2, PlanStands
<1>5. /\ \A i : Alone(i)' = Alone(i)
      /\ \A i, do : Left(i, do)' => Left(i, do)
      /\ \A id : Goes(id)' => Goes(id)
      /\ \A c, k : (LeavesBy(c, k)' => LeavesBy(c, k)) /\ (EntersBy(c, k)' => EntersBy(c, k))
      /\ \A i : Kept(i) => Kept(i)'
  BY <1>1, <1>2, <1>4 DEF Alone, Left, Goes, LeavesBy, EntersBy, Kept, Covers
<1>6. act \in Deed /\ act.card \in Item /\ act.key \in Key /\ act.do \in {"unschedule", "protect", "release", "schedule"}
  BY DEF OwnInv, SyncTypes, PlanTyped, Deed
<1>7. /\ act.do = "release" => act.id \notin Ids(rows)
      /\ act.do = "schedule" => <<act.collection, act.key>> \in members
      /\ act.do = "unschedule" => <<act.collection, act.key>> \notin members
      /\ act.do = "protect" /\ Alone(act.card) => Kept(act.card)
  BY <1>1, <1>3 DEF WriteShows
<1>8. \/ Shown(act) /\ RecordDone(act) /\ stalled' = stalled
      \/ act.do = "protect" /\ UNCHANGED <<protected, scheduled>> /\ stalled' = stalled \cup {act.card}
  <2>1. act.do # "protect" => Shown(act)
    BY <1>6, <1>7 DEF Shown
  <2>2. ~Mishap
    BY DEF Mishap
  <2> QED BY <2>1, <2>2 DEF ReadBack, Stall
<1>9. ActsFit'
  <2>1. CASE stalled' = stalled
    BY <1>1, <1>2, <1>3, <1>4, <1>5, <2>1 DEF ActsFit
  <2>2. CASE act.do = "protect" /\ stalled' = stalled \cup {act.card}
    <3>1. \A other \in todo' : other.card # act.card
      <4> SUFFICES ASSUME NEW other \in todo', other.card = act.card PROVE FALSE
        OBVIOUS
      <4>1. other.do = "unschedule"
        BY <1>1, <1>3, <2>2 DEF ActsFit
      <4>2. Rank(act) <= Rank(other)
        BY <1>1, CurrentIsFirst DEF OwnInv, SyncTypes
      <4>3. Rank(other) = 0 /\ Rank(act) \in {1, 2}
        BY <2>2, <4>1 DEF Rank
      <4> QED BY <4>2, <4>3
    <3> QED BY <1>1, <1>2, <1>3, <1>4, <1>5, <2>2, <3>1 DEF ActsFit
  <2> QED BY <1>8, <2>1, <2>2
<1>10. \A i \in Item : Alone(i) /\ (Kept(i) \/ Left(i, "protect")) => Kept(i)' \/ Left(i, "protect")'
  BY <1>1, <1>5, <1>7 DEF Left
<1>11. KeptFit'
  <2>1. desired.protect \subseteq Item
    BY DEF OwnInv, SyncTypes, PlanTyped
  <2> QED BY <1>3, <1>4, <1>5, <1>10, <2>1 DEF KeptFit
<1>12. WaitFit'
  <2>1. Judged(desired) \subseteq Item
    BY DEF Judged, OwnInv, SyncTypes, PlanTyped
  <2>2. \A c, k : <<c, k>> \in members /\ LeavesBy(c, k) => LeavesBy(c, k)'
    BY <1>1, <1>7 DEF LeavesBy
  <2> QED BY <1>2, <1>3, <1>4, <1>5, <1>10, <2>1, <2>2 DEF WaitFit
<1>13. MembershipsFit'
  <2> SUFFICES ASSUME NEW i \in Item, scheduled'[i] # NotScheduled
               PROVE  \/ i \in desired.evict /\ (i \in unfinished => scheduled'[i].collection \in Announcing)
                      \/ \E a \in todo' : /\ a.do = "unschedule" /\ a.card = i
                                          /\ a.collection = scheduled'[i].collection /\ a.key = scheduled'[i].key
    BY <1>4 DEF MembershipsFit
  <2>1. scheduled \in [Item -> {NotScheduled} \cup Membership]
    BY DEF OwnInv, SyncTypes, FilesTyped
  <2>2. CASE act.do = "schedule" /\ act.card = i
    <3>1. scheduled'[i] = [key |-> act.key, collection |-> act.collection]
      BY <1>8, <2>1, <2>2 DEF RecordDone
    <3> QED BY <1>3, <2>2, <3>1 DEF ActsFit
  <2>3. CASE ~(act.do = "schedule" /\ act.card = i)
    <3>1. scheduled'[i] = scheduled[i] /\ ~(act.do = "unschedule" /\ act.card = i)
      <4>1. CASE act.do \in {"release", "protect"}
        BY <1>8, <4>1 DEF RecordDone
      <4>2. CASE act.do = "schedule"
        BY <1>8, <2>1, <2>3, <4>2 DEF RecordDone
      <4>3. CASE act.do = "unschedule"
        <5>1. scheduled' = [scheduled EXCEPT ![act.card] = NotScheduled]
          BY <1>8, <4>3 DEF RecordDone
        <5> QED BY <2>1, <5>1, <1>6
      <4> QED BY <1>6, <4>1, <4>2, <4>3
    <3> QED BY <1>1, <1>3, <3>1 DEF MembershipsFit
  <2> QED BY <2>2, <2>3
<1>14. \A i \in Item : (act.do = "protect" /\ act.card = i) \/ protected'[i].ids \subseteq protected[i].ids
  <2>1. protected \in [Item -> {NoEntry} \cup Entry]
    BY DEF OwnInv, SyncTypes, FilesTyped
  <2>2. CASE act.do = "release"
    <3>1. protected' = [protected EXCEPT ![act.card] = Forgotten(@, act.id)]
      BY <1>8, <2>2 DEF RecordDone
    <3>2. Forgotten(protected[act.card], act.id).ids \subseteq protected[act.card].ids
      BY <1>6, <2>1 DEF Forgotten, NoEntry, Entry
    <3> QED BY <1>6, <2>1, <3>1, <3>2
  <2>3. CASE act.do = "schedule"
    BY <1>6, <1>8, <2>1, <2>3 DEF RecordDone, NoEntry
  <2>4. CASE act.do = "unschedule"
    BY <1>8, <2>4 DEF RecordDone
  <2>5. CASE act.do = "protect"
    <3>1. \A i \in Item \ {act.card} : protected'[i] = protected[i]
      BY <1>6, <1>8, <2>1, <2>5 DEF RecordDone
    <3> QED BY <2>5, <3>1
  <2> QED BY <1>6, <2>2, <2>3, <2>4, <2>5
<1>15. \A r \in rows : Goes(r[1]) => Goes(r[1])'
  BY <1>1, <1>7 DEF Goes, Ids
<1>16. \A r \in rows : Foreign(r) => Foreign(r)'
  <2> SUFFICES ASSUME NEW r \in rows, Foreign(r), NEW i \in Item, r[1] \in protected'[i].ids PROVE FALSE
    BY <1>1, <1>5 DEF Foreign, OwnedIds
  <2>1. r[1] \notin protected[i].ids
    BY DEF Foreign, OwnedIds
  <2>2. act.do = "protect" /\ act.card = i
    BY <1>14, <2>1
  <2>3. protected' = [protected EXCEPT ![act.card] = [key |-> act.key, ids |-> Ids(RowsOf(act.key)) \ before]]
    BY <1>8, <2>1, <2>2 DEF RecordDone
  <2>4. protected'[i].ids = Ids(RowsOf(act.key)) \ before
    BY <2>2, <2>3 DEF OwnInv, SyncTypes, FilesTyped
  <2>5. PICK q \in RowsOf(act.key) : q[1] = r[1] /\ r[1] \notin before
    BY <2>4 DEF Ids
  <2>6. q = r
    BY <2>5 DEF RowsOf, OwnInv, OneRowEach
  <2> QED BY <1>1, <2>2, <2>5, <2>6 DEF Foreign
<1>17. ShieldsFit'
  <2>1. \A i \in Item : Shed(i) => Shed(i)'
    <3> SUFFICES ASSUME NEW i \in Item, Shed(i) PROVE Shed(i)'
      OBVIOUS
    <3>1. ~(act.do = "protect" /\ act.card = i)
      BY DEF Shed, Left
    <3>2. protected'[i].ids \subseteq protected[i].ids
      BY <1>14, <3>1
    <3> QED BY <1>2, <1>4, <1>5, <1>15, <3>2 DEF Shed, Covers
  <2>2. \A i \in Item : Outside(i) => Outside(i)'
    BY <1>2, <1>4, <1>5 DEF Outside, Settled
  <2>3. \A i \in Item : Astray(i) => Astray(i)'
    <3> SUFFICES ASSUME NEW i \in Item, i \in unfinished, ~Left(i, "schedule"),
                        NEW c \in Deleting, <<c, Target(i)>> \in members, ~LeavesBy(c, Target(i)),
                        scheduled[i] # [key |-> Target(i), collection |-> c]
                 PROVE  scheduled'[i] # [key |-> Target(i), collection |-> c]
      BY <1>2, <1>4, <1>5 DEF Astray
    <3>1. scheduled \in [Item -> {NotScheduled} \cup Membership] /\ Target(i) \in Key
      BY DEF OwnInv, SyncTypes, FilesTyped
    <3>2. scheduled'[i] \in {scheduled[i], NotScheduled}
      <4>1. CASE act.do \in {"release", "protect"}
        BY <1>8, <4>1 DEF RecordDone
      <4>2. CASE act.do = "schedule"
        <5>1. act.card # i
          BY <4>2 DEF Left
        <5> QED BY <1>8, <3>1, <4>2, <5>1 DEF RecordDone
      <4>3. CASE act.do = "unschedule"
        BY <1>8, <3>1, <4>3 DEF RecordDone
      <4> QED BY <1>6, <4>1, <4>2, <4>3
    <3> QED BY <3>1, <3>2, SyncAssumption DEF NotScheduled
  <2>4. \A i \in Item : Barred(i) => Barred(i)'
    BY <1>2, <1>4, <1>16, <2>3 DEF Barred, Covers
  <2>5. \A i \in Item \ (desired.protect \cup desired.unresolved \cup desired.evict) :
          \A r \in rows : r[1] \in protected'[i].ids => Goes(r[1])'
    <3> SUFFICES ASSUME NEW i \in Item \ (desired.protect \cup desired.unresolved \cup desired.evict),
                        NEW r \in rows, r[1] \in protected'[i].ids
                 PROVE  Goes(r[1])'
      OBVIOUS
    <3>1. ~(act.do = "protect" /\ act.card = i)
      BY <1>3 DEF ActsFit
    <3> QED BY <1>3, <1>14, <1>15, <3>1 DEF ShieldsFit
  <2>6. desired.evict \subseteq Item
    BY DEF OwnInv, SyncTypes, PlanTyped
  <2> QED BY <1>2, <1>3, <1>4, <1>5, <2>1, <2>2, <2>4, <2>5, <2>6 DEF ShieldsFit
<1> QED
  BY <1>1, <1>2, <1>3, <1>4, <1>9, <1>11, <1>12, <1>13, <1>17
  DEF CalmInv, Undisturbed, WriteShows, Rested, UnfinishedWaits, KeptAreCovered, NoShieldOutlives, MembershipsWanted, OnePlanner

(* The rules are off, or the first file is saved. *)
LEMMA TurnOffKeepsCalm ==
  ASSUME OwnInv, CalmInv, TurnOffRules \/ (SaveProtected /\ pc' # "idle"), calm'
  PROVE  CalmInv'
<1>1. /\ UNCHANGED <<operator, rows, members, setting, protected, scheduled, desired, todo, stalled, made, calm>>
      /\ pc \in {"rules", "acting"} /\ pc' \in {"acting", "saving"}
      /\ ruled' \cap Titled = {}
      /\ pc' = "saving" => todo = {} /\ protectedFile' = protected
  <2>1. CASE TurnOffRules
    <3>1. ruled' \cap Titled = {} /\ calm' = calm
      BY <2>1 DEF TurnOffRules, Mishap, Smooth
    <3> QED BY <2>1, <3>1 DEF TurnOffRules
  <2>2. CASE SaveProtected /\ pc' # "idle"
    <3>1. calm' = calm /\ pc = "acting" /\ ruled' = ruled
      BY <2>2 DEF SaveProtected, Mishap, Smooth, server
    <3>2. ruled \cap Titled = {}
      BY <3>1 DEF CalmInv, Undisturbed
    <3> QED BY <2>2, <3>1, <3>2 DEF SaveProtected, Finish, server
  <2> QED BY <2>1, <2>2
<1>2. ActsFit /\ KeptFit /\ WaitFit /\ MembershipsFit /\ ShieldsFit
  BY <1>1 DEF CalmInv, Undisturbed
<1>3. /\ UNCHANGED <<keys, unfinished, desired>>
      /\ \A i : Target(i)' = Target(i) /\ Place(i)' = Place(i)
      /\ Deleting' = Deleting /\ Announcing' = Announcing /\ Titled' = Titled
      /\ Judged(desired)' = Judged(desired)
  BY <1>1, PlanStands
<1>4. /\ \A i : Kept(i)' = Kept(i) /\ Alone(i)' = Alone(i)
      /\ \A i, do : Left(i, do)' = Left(i, do)
      /\ \A id : Goes(id)' = Goes(id)
      /\ \A c, k : LeavesBy(c, k)' = LeavesBy(c, k) /\ EntersBy(c, k)' = EntersBy(c, k)
  BY <1>1, <1>3 DEF Kept, Alone, Left, Goes, LeavesBy, EntersBy, Covers
<1>5. ActsFit' /\ KeptFit' /\ WaitFit' /\ MembershipsFit'
  BY <1>1, <1>2, <1>3, <1>4 DEF ActsFit, KeptFit, WaitFit, MembershipsFit
<1>6. ShieldsFit'
  <2>1. \A i : Shed(i)' = Shed(i) /\ Outside(i)' = Outside(i) /\ Astray(i)' = Astray(i)
    BY <1>1, <1>3, <1>4 DEF Shed, Outside, Astray, Settled, Covers
  <2>2. \A r \in rows : Foreign(r) => Foreign(r)'
    BY <1>1, <1>4 DEF Foreign, OwnedIds
  <2>3. \A i : Barred(i) => Barred(i)'
    BY <1>1, <1>3, <2>1, <2>2 DEF Barred, Covers
  <2> QED BY <1>1, <1>2, <1>3, <1>4, <2>1, <2>3 DEF ShieldsFit
<1> QED
  BY <1>1, <1>3, <1>5, <1>6
  DEF CalmInv, Undisturbed, WriteShows, Rested, UnfinishedWaits, KeptAreCovered, NoShieldOutlives, MembershipsWanted, OnePlanner

(* An undisturbed cycle ends: nothing is left to wait for. *)
LEMMA EndKeepsCalm ==
  ASSUME OwnInv, CalmInv, SaveScheduled, calm'
  PROVE  CalmInv'
<1>1. /\ UNCHANGED <<operator, server, protectedFile, made, calm>> /\ pc = "saving" /\ pc' = "idle"
      /\ scheduledFile' = scheduled /\ protected' = protectedFile' /\ scheduled' = scheduledFile' /\ desired' = desired
  BY DEF SaveScheduled, Mishap, Smooth, Finish
<1>2. /\ ActsFit /\ KeptFit /\ WaitFit /\ MembershipsFit /\ ShieldsFit /\ ruled \cap Titled = {}
      /\ todo = {} /\ protectedFile = protected
  BY <1>1 DEF CalmInv, Undisturbed
<1>3. UNCHANGED <<rows, members, setting, ruled, protected, protectedFile, scheduled>> /\ scheduledFile' = scheduled
  BY <1>1, <1>2 DEF server
<1>4. /\ UNCHANGED <<keys, unfinished, desired>>
      /\ \A i : Target(i)' = Target(i) /\ Place(i)' = Place(i)
      /\ Deleting' = Deleting /\ Announcing' = Announcing /\ Titled' = Titled
      /\ Judged(desired)' = Judged(desired)
  BY <1>1, <1>3, PlanStands
<1>5. /\ \A i, do : ~Left(i, do)
      /\ \A id : ~Goes(id)
      /\ \A c, k : ~LeavesBy(c, k)
      /\ \A i : Kept(i) => Covered(Target(i))'
      /\ \A i : i \notin desired.shared => Alone(i)
  BY <1>2, <1>3, <1>4 DEF Left, Goes, LeavesBy, Kept, Covered, Covers, Alone
<1>6. UnfinishedWaits'
  BY <1>2, <1>3, <1>4, <1>5 DEF UnfinishedWaits, WaitFit
<1>7. KeptAreCovered'
  BY <1>2, <1>4, <1>5 DEF KeptAreCovered, KeptFit
<1>8. NoShieldOutlives'
  <2> SUFFICES ASSUME NEW i \in Item \ (desired.protect \cup desired.unresolved), NEW r \in rows, r[1] \in protected[i].ids
               PROVE  /\ i \in desired.evict
                      /\ i \in Takers(desired)' /\ Settled(i)' /\ i \notin desired.shared => ~Covers(r, Target(i))
    <3>1. NoShieldOutlives' =
            (Rested' => \A i \in Item \ (desired'.protect \cup desired'.unresolved) : \A r \in rows' :
               r[1] \in protectedFile'[i].ids =>
                 /\ i \in desired'.evict
                 /\ i \in Takers(desired)' /\ Settled(i)' /\ i \notin desired'.shared => ~Covers(r, Target(i)'))
      BY DEF NoShieldOutlives, Covers
    <3> QED BY <1>2, <1>3, <1>4, <3>1
  <2>1. i \in desired.evict
    BY <1>2, <1>5 DEF ShieldsFit
  <2>2. ASSUME i \in Takers(desired)', Settled(i)', i \notin desired.shared, Covers(r, Target(i)) PROVE FALSE
    <3>1. /\ i \in Judged(desired) /\ ~OperatorOwned(Target(i), protected)' /\ ~desired.refused
          /\ ~Stray(i, scheduled)' /\ Place(i) # None
      BY <1>4, <2>2 DEF Takers
    <3>2. ~Shed(i)
      BY <1>5, <2>2 DEF Shed
    <3>3. ~Outside(i)
      BY <1>3, <1>4, <2>2 DEF Outside, Settled
    <3>4. ~\E q \in rows : Covers(q, Target(i)) /\ Foreign(q)
      BY <1>3, <1>4, <3>1 DEF OperatorOwned, Foreign, OwnedIds, Covers
    <3>5. ~Astray(i)
      BY <1>3, <1>4, <3>1 DEF Astray, Stray
    <3> QED BY <1>2, <1>5, <2>1, <2>2, <3>1, <3>2, <3>3, <3>4, <3>5 DEF ShieldsFit, Barred
  <2> QED BY <1>4, <2>1, <2>2
<1>9. MembershipsWanted'
  <2> SUFFICES ASSUME NEW i \in Item, <<scheduled[i].collection, scheduled[i].key>> \in members
               PROVE  i \in desired.evict /\ (i \in unfinished => scheduled[i].collection \in Announcing)
    BY <1>3, <1>4 DEF MembershipsWanted
  <2>1. scheduled[i].key \in Key
    BY DEF OwnInv, SyncTypes
  <2>2. scheduled[i] # NotScheduled
    BY <2>1, SyncAssumption DEF NotScheduled
  <2> QED BY <1>2, <2>2 DEF MembershipsFit
<1>10. OnePlanner'
  <2> SUFFICES ASSUME NEW c \in ruled PROVE Titles[c] = {} \/ setting[c] = "renamed"
    BY <1>3 DEF OnePlanner
  <2>1. c \in Collection
    BY DEF OwnInv, SyncTypes
  <2>2. Titles[c] \subseteq Route /\ c \notin Titled
    BY <1>2, <2>1, SyncAssumption
  <2> QED BY <2>1, <2>2 DEF Titled, Named, Route
<1> QED
  BY <1>1, <1>6, <1>7, <1>8, <1>9, <1>10 DEF CalmInv, Undisturbed

-----------------------------------------------------------------------------
(* What a plan is worth when it is drawn up. *)
LEMMA PlannedIsPlan ==
  ASSUME SyncTypes, NEW want, Want(want), NEW act, Planned(want, act)
  PROVE  act \in PlanSync(want)
<1> DEFINE A == {Act("unschedule", i, scheduled[i].key, scheduled[i].collection, 0) : i \in TakenBack(want)}
           B == {Protect(i) : i \in Held(want) \cup Unprotected(want)}
           C == UNION {Release(i, protected[i].key) : i \in Released(want)}
           D == UNION {HandOver(want, i) : i \in Item}
<1>1. PlanSync(want) = A \cup B \cup C \cup D
  BY DEF PlanSync
<1>2. CASE \E i \in TakenBack(want) : act = Act("unschedule", i, scheduled[i].key, scheduled[i].collection, 0)
  <2>1. act \in A
    BY <1>2
  <2> QED BY <1>1, <2>1
<1>3. CASE \E i \in Held(want) \cup Unprotected(want) : act = Act("protect", i, Target(i), None, 0)
  <2>1. act \in B
    BY <1>3 DEF Protect
  <2> QED BY <1>1, <2>1
<1>4. ASSUME NEW i \in Released(want), NEW r \in OwnRows(i, protected[i].key), act = Act("release", i, protected[i].key, None, r[1])
      PROVE  act \in PlanSync(want)
  <2>1. act \in Release(i, protected[i].key)
    BY <1>4 DEF Release
  <2>2. act \in C
    BY <2>1
  <2> QED BY <1>1, <2>2
<1>5. \A i \in Placed(want) : i \in Item
  BY PlannedCards
<1>6. ASSUME NEW i \in Placed(want), NEW r \in OwnRows(i, Target(i)), act = Act("release", i, Target(i), None, r[1])
      PROVE  act \in PlanSync(want)
  <2>1. act \in Release(i, Target(i))
    BY <1>6 DEF Release
  <2>2. act \in HandOver(want, i)
    BY <2>1 DEF HandOver
  <2>3. act \in D
    BY <1>5, <2>2
  <2> QED BY <1>1, <2>3
<1>7. ASSUME NEW i \in Placed(want), ~Settled(i), act = Act("schedule", i, Target(i), Place(i), 0)
      PROVE  act \in PlanSync(want)
  <2>1. act \in HandOver(want, i)
    BY <1>7 DEF HandOver
  <2>2. act \in D
    BY <1>5, <2>1
  <2> QED BY <1>1, <2>2
<1> HIDE DEF A, B, C, D
<1> QED BY <1>2, <1>3, <1>4, <1>6, <1>7 DEF Planned

(* Nobody has, or is recorded under, a key of a card that shares none. *)
LEMMA UnsharedKeys ==
  ASSUME NEW i \in Item, i \notin Shared, NEW k \in keys[i], NEW j \in Item \ {i}
  PROVE  k \notin keys[j] /\ k # protected[j].key /\ k # scheduled[j].key
  BY DEF Shared

(* A plan releases only rows recorded as the card's own. *)
LEMMA PlannedReleases ==
  ASSUME OwnInv, NEW want, Want(want), NEW act \in PlanSync(want), act.do = "release"
  PROVE  /\ act.card \in Item /\ act.card \in Released(want) \cup Placed(want)
         /\ act.id \in protected[act.card].ids
         /\ \A r \in rows : r[1] = act.id => r[2] = protected[act.card].key /\ r[2] \in Key
<1>1. SyncTypes
  BY DEF OwnInv
<1>2. PICK i \in Released(want) \cup Placed(want), r \in rows :
        r[1] \in protected[i].ids /\ act.card = i /\ act.id = r[1]
  <2>1. Planned(want, act)
    BY PlanIsPlanned
  <2> QED BY <2>1 DEF Planned, Act, OwnRows, RowsOf
<1>3. i \in Item
  BY <1>1, PlannedCards DEF Released
<1>4. act.card = i /\ act.id = r[1] /\ r[1] \in protected[i].ids
  BY <1>2
<1>5. protected[i].key \in Key
  BY <1>1, <1>3, <1>4 DEF FilesTyped, SyncTypes, NoEntry, Entry
<1> QED BY <1>2, <1>3, <1>4, <1>5 DEF OwnInv, Claims

(* What covers a card that shares no Plex item goes only by an act of its own. *)
LEMMA CoverStays ==
  ASSUME OwnInv, NEW want, Want(want), NEW i \in Item, i \notin Shared, keys[i] # {},
         NEW r \in rows, Covers(r, Target(i)),
         NEW act \in PlanSync(want), act.do = "release", act.id = r[1]
  PROVE  act.card = i
<1>1. act.card \in Item /\ r[2] = protected[act.card].key /\ r[2] \in Key
  BY PlannedReleases
<1>2. Target(i) \in keys[i] /\ Target(i) \in Key
  BY TargetIsAKey DEF OwnInv, SyncTypes
<1>3. r[2] = Target(i)
  BY <1>1, <1>2, SyncAssumption DEF Covers
<1> QED BY <1>1, <1>2, <1>3, UnsharedKeys

(* The acts of a new plan do not get in each other's way. *)
LEMMA PlanActsFit ==
  ASSUME OwnInv, NEW want, Want(want), NEW act \in PlanSync(want)
  PROVE  /\ act.do = "protect" =>
              /\ act.key = Target(act.card) /\ act.card \in Held(want) \cup Unprotected(want)
              /\ \A other \in PlanSync(want) : other.card = act.card => other = act \/ other.do = "unschedule"
         /\ act.do = "release" =>
              \A r \in rows : r[1] = act.id =>
                r[2] \in Key /\ \A i \in Item \ {act.card} : i \notin Shared => r[2] \notin keys[i]
         /\ act.do = "schedule" =>
              /\ act.card \in Placed(want) /\ act.key = Target(act.card) /\ act.collection = Place(act.card)
              /\ ~Settled(act.card)
              /\ act.card \in unfinished => act.collection \in Announcing
         /\ act.do = "unschedule" =>
              /\ act.card \in TakenBack(want)
              /\ act.key = scheduled[act.card].key /\ act.collection = scheduled[act.card].collection
         /\ act.do \in {"schedule", "unschedule"} =>
              \A i \in Item \ {act.card} : i \notin Shared => act.key \notin keys[i]
<1> USE DEF OwnInv
<1>1. Planned(want, act) /\ \A other \in PlanSync(want) : Planned(want, other)
  BY PlanIsPlanned
<1>2. CASE act.do = "protect"
  <2>1. act.card \in Held(want) \cup Unprotected(want) /\ act = Act("protect", act.card, Target(act.card), None, 0)
    BY <1>1, <1>2 DEF Planned, Act
  <2>2. act.card \notin Released(want) \cup Placed(want)
    <3>1. Held(want) \cap Takers(want) = {}
      BY DEF Held, Takers
    <3>2. CASE act.card \in Held(want)
      BY <3>1, <3>2, PlannedCards DEF Released
    <3>3. CASE act.card \in Unprotected(want)
      BY <3>3, PlannedCards DEF Released
    <3> QED BY <2>1, <3>2, <3>3
  <2>3. ASSUME NEW other \in PlanSync(want), other.card = act.card PROVE other = act \/ other.do = "unschedule"
    BY <1>1, <2>1, <2>2, <2>3 DEF Planned, Act
  <2>4. act.key = Target(act.card)
    BY <2>1 DEF Act
  <2> QED BY <1>2, <2>1, <2>3, <2>4
<1>3. CASE act.do = "release"
  BY <1>3, PlannedReleases, UnsharedKeys
<1>4. CASE act.do = "schedule"
  <2>1. act.card \in Placed(want) /\ ~Settled(act.card) /\ act = Act("schedule", act.card, Target(act.card), Place(act.card), 0)
    BY <1>1, <1>4 DEF Planned, Act
  <2>2. act.card \in Item /\ Place(act.card) \in Resolve(RouteOf(act.card)) /\ act.key \in keys[act.card]
    BY <2>1, PlannedCards DEF Act
  <2>3. act.card \in unfinished => Place(act.card) \in Announcing
    BY <2>2 DEF RouteOf, Resolve, Announcing, Deleting
  <2>4. \A i \in Item \ {act.card} : i \notin Shared => act.key \notin keys[i]
    BY <2>2, UnsharedKeys
  <2> QED BY <1>4, <2>1, <2>3, <2>4 DEF Act
<1>5. CASE act.do = "unschedule"
  <2>1. act.card \in TakenBack(want) /\ act.key = scheduled[act.card].key /\ act.collection = scheduled[act.card].collection
    BY <1>1, <1>5 DEF Planned, Act
  <2>2. act.card \in Item
    BY <2>1 DEF TakenBack
  <2> QED BY <1>5, <2>1, <2>2, UnsharedKeys
<1>6. act.do \in {"protect", "release", "schedule", "unschedule"}
  BY <1>1 DEF Planned, Act
<1> QED BY <1>2, <1>3, <1>4, <1>5, <1>6

(* Every promise of a new plan is met or waits for an act of it. *)
LEMMA PlanKeeps ==
  ASSUME OwnInv, NEW want, Want(want), NEW i \in want.protect \ want.unresolved, i \notin Shared
  PROVE  /\ keys[i] # {} /\ \A act \in PlanSync(want) : ~(act.card = i /\ act.do = "release")
         /\ \/ \E act \in PlanSync(want) : act.card = i /\ act.do = "protect"
            \/ \E r \in rows : /\ Covers(r, Target(i))
                               /\ \A act \in PlanSync(want) : ~(act.do = "release" /\ act.id = r[1])
<1>1. i \in Item /\ keys[i] # {} /\ SyncTypes
  BY DEF Want, OwnInv, SyncTypes
<1>2. \A act \in PlanSync(want) : ~(act.card = i /\ act.do = "release")
  <2>1. i \notin Released(want) \cup Placed(want)
    BY <1>1, PlannedCards DEF Released
  <2> QED BY <2>1, PlannedReleases
<1>3. CASE Covered(Target(i))
  BY <1>1, <1>2, <1>3, CoverStays DEF Covered
<1>4. CASE ~Covered(Target(i))
  <2>1. i \in Unprotected(want)
    BY <1>4 DEF Unprotected, OperatorOwned, Covered
  <2>2. Planned(want, Act("protect", i, Target(i), None, 0))
    BY <2>1 DEF Planned
  <2>3. Act("protect", i, Target(i), None, 0) \in PlanSync(want)
    BY <1>1, <2>2, PlannedIsPlan
  <2> QED BY <1>1, <1>2, <2>3 DEF Act
<1> QED BY <1>3, <1>4

LEMMA PlanTakesBack ==
  ASSUME OwnInv, NEW want, Want(want), NEW i \in TakenBack(want)
  PROVE  \E act \in PlanSync(want) : /\ act.do = "unschedule" /\ act.card = i
                                     /\ act.collection = scheduled[i].collection /\ act.key = scheduled[i].key
<1>1. Planned(want, Act("unschedule", i, scheduled[i].key, scheduled[i].collection, 0))
  BY DEF Planned
<1>2. Act("unschedule", i, scheduled[i].key, scheduled[i].collection, 0) \in PlanSync(want)
  BY <1>1, PlannedIsPlan DEF OwnInv
<1> QED BY <1>2 DEF Act

LEMMA PlanWaits ==
  ASSUME OwnInv, NEW want, Want(want), ~want.refused,
         NEW i \in Judged(want) \cap unfinished, i \notin Shared,
         NEW c \in Deleting, <<c, Target(i)>> \in members
  PROVE  \/ \E r \in rows : /\ Covers(r, Target(i))
                            /\ \A act \in PlanSync(want) : ~(act.do = "release" /\ act.id = r[1])
         \/ \E act \in PlanSync(want) : act.card = i /\ act.do = "protect"
         \/ \E act \in PlanSync(want) : act.do = "unschedule" /\ act.collection = c /\ act.key = Target(i)
<1>1. SyncTypes /\ i \in Item /\ keys[i] # {} /\ i \in want.evict \ (want.protect \cup want.unresolved)
  BY PlannedCards DEF OwnInv
<1>2. CASE OperatorOwned(Target(i), protected)
  <2>1. PICK r \in rows : Covers(r, Target(i)) /\ r[1] \notin OwnedIds(protected)
    BY <1>2 DEF OperatorOwned
  <2>2. \A act \in PlanSync(want) : ~(act.do = "release" /\ act.id = r[1])
    BY <2>1, PlannedReleases DEF OwnedIds
  <2> QED BY <2>1, <2>2
<1>3. CASE ~OperatorOwned(Target(i), protected) /\ Stray(i, scheduled)
  <2>1. CASE ~Covered(Target(i))
    <3>1. i \in Held(want)
      BY <1>3, <2>1 DEF Held
    <3>2. Planned(want, Act("protect", i, Target(i), None, 0))
      BY <3>1 DEF Planned
    <3>3. Act("protect", i, Target(i), None, 0) \in PlanSync(want)
      BY <1>1, <3>2, PlannedIsPlan
    <3> QED BY <3>3 DEF Act
  <2>2. CASE Covered(Target(i))
    <3>1. i \notin Released(want) \cup Placed(want)
      BY <1>1, <1>3, PlannedCards DEF Released, Takers
    <3>2. PICK r \in rows : Covers(r, Target(i))
      BY <2>2 DEF Covered
    <3>3. \A act \in PlanSync(want) : ~(act.do = "release" /\ act.id = r[1])
      BY <1>1, <3>1, <3>2, CoverStays, PlannedReleases
    <3> QED BY <3>2, <3>3
  <2> QED BY <2>1, <2>2
<1>4. CASE ~Stray(i, scheduled)
  <2>1. scheduled[i] = [key |-> Target(i), collection |-> c]
    BY <1>4 DEF Stray
  <2>2. i \in TakenBack(want)
    BY <1>1, <2>1 DEF TakenBack, Announcing
  <2> QED BY <2>1, <2>2, PlanTakesBack
<1> QED BY <1>2, <1>3, <1>4

(* The cards the plan may evict, one by one: kept from leaving, led out of   *)
(* their own exclusions, or outside.                                        *)
LEMMA PlanShields ==
  ASSUME OwnInv, NEW want, Want(want), ~want.refused,
         NEW i \in Judged(want), i \notin Shared, ~OperatorOwned(Target(i), protected), Place(i) # None
  PROVE  \/ /\ Stray(i, scheduled) /\ \A act \in PlanSync(want) : ~(act.card = i /\ act.do = "schedule")
            /\ \E c \in Deleting : /\ <<c, Target(i)>> \in members /\ scheduled[i] # [key |-> Target(i), collection |-> c]
                                   /\ \A act \in PlanSync(want) : ~(act.do = "unschedule" /\ act.collection = c /\ act.key = Target(i))
         \/ /\ \A act \in PlanSync(want) : ~(act.card = i /\ act.do = "protect")
            /\ \A r \in rows : r[1] \in protected[i].ids /\ Covers(r, Target(i)) =>
                 \E act \in PlanSync(want) : act.do = "release" /\ act.id = r[1]
         \/ /\ ~Settled(i)
            /\ \A act \in PlanSync(want) : ~(act.do = "schedule" /\ act.collection = Place(i) /\ act.key = Target(i))
<1>1. /\ SyncTypes /\ i \in Item /\ Target(i) \in keys[i] /\ Target(i) \in Key
      /\ i \in want.evict \ (want.protect \cup want.unresolved)
  BY PlannedCards DEF OwnInv
<1>2. CASE Stray(i, scheduled)
  <2>1. \A act \in PlanSync(want) : ~(act.card = i /\ act.do = "schedule")
    BY <1>1, <1>2, PlanActsFit, PlannedCards DEF Takers
  <2>2. PICK c \in Deleting : <<c, Target(i)>> \in members /\ scheduled[i] # [key |-> Target(i), collection |-> c]
    BY <1>2 DEF Stray
  <2>3. ASSUME NEW act \in PlanSync(want), act.do = "unschedule", act.collection = c, act.key = Target(i)
        PROVE  FALSE
    <3>1. /\ act.card \in TakenBack(want) /\ act.card \in Item
          /\ act.key = scheduled[act.card].key /\ act.collection = scheduled[act.card].collection
      BY <2>3, PlanActsFit DEF TakenBack
    <3>2. act.card = i
      BY <1>1, <2>3, <3>1, UnsharedKeys
    <3>3. scheduled[i] \in {NotScheduled} \cup Membership
      BY <1>1 DEF SyncTypes, FilesTyped
    <3> QED BY <2>2, <2>3, <3>1, <3>2, <3>3 DEF NotScheduled, Membership
  <2> QED BY <1>2, <2>1, <2>2, <2>3
<1>3. CASE i \in Placed(want)
  <2>1. ~Stray(i, scheduled)
    BY <1>1, <1>3, PlannedCards DEF Takers
  <2>2. \A act \in PlanSync(want) : ~(act.card = i /\ act.do = "protect")
    BY <1>1, <2>1, PlanActsFit, PlannedCards DEF Held
  <2>3. ASSUME NEW r \in rows, r[1] \in protected[i].ids, Covers(r, Target(i))
        PROVE  \E act \in PlanSync(want) : act.do = "release" /\ act.id = r[1]
    <3>1. r \in OwnRows(i, Target(i))
      BY <1>1, <2>3 DEF OwnRows, RowsOf, Covers
    <3>2. Planned(want, Act("release", i, Target(i), None, r[1]))
      BY <1>3, <3>1 DEF Planned
    <3>3. Act("release", i, Target(i), None, r[1]) \in PlanSync(want)
      BY <1>1, <3>2, PlannedIsPlan
    <3> QED BY <3>3 DEF Act
  <2> QED BY <2>2, <2>3
<1>4. CASE ~Stray(i, scheduled) /\ i \notin Placed(want)
  <2>1. i \in Takers(want)
    BY <1>4 DEF Takers
  <2>2. ~Settled(i)
    BY <1>4, <2>1 DEF Placed
  <2>3. ASSUME NEW act \in PlanSync(want), act.do = "schedule", act.key = Target(i)
        PROVE  FALSE
    <3>1. act.card \in Placed(want) /\ act.card \in Item /\ act.key \in keys[act.card]
      BY <1>1, <2>3, PlanActsFit, PlannedCards
    <3> QED BY <1>1, <1>4, <2>3, <3>1, UnsharedKeys
  <2> QED BY <2>2, <2>3
<1> QED BY <1>2, <1>3, <1>4

(* Every record that is no longer wanted is released. *)
LEMMA PlanReleases ==
  ASSUME OwnInv, NEW want, Want(want), NEW i \in Item \ (want.protect \cup want.unresolved \cup want.evict),
         NEW r \in rows, r[1] \in PruneProtected(i).ids
  PROVE  \E act \in PlanSync(want) : act.do = "release" /\ act.id = r[1]
<1>1. r[1] \in protected[i].ids /\ r[1] \in Ids(RowsOf(protected[i].key)) /\ protected[i] # NoEntry
  BY DEF PruneProtected, NoEntry, OwnInv, SyncTypes, FilesTyped, Entry
<1>2. r \in OwnRows(i, protected[i].key)
  BY <1>1 DEF Ids, OwnRows, RowsOf, OwnInv, OneRowEach
<1>3. Planned(want, Act("release", i, protected[i].key, None, r[1]))
  BY <1>1, <1>2 DEF Planned, Released
<1>4. Act("release", i, protected[i].key, None, r[1]) \in PlanSync(want)
  BY <1>3, PlannedIsPlan DEF OwnInv
<1> QED BY <1>4 DEF Act

(* A cycle begins with a plan that fits. *)
LEMMA ObserveKeepsCalm ==
  ASSUME OwnInv, Observe
  PROVE  CalmInv'
<1> DEFINE want == desired'
           plan == PlanSync(want)
<1>1. /\ UNCHANGED <<keys, unfinished, rows, members, setting, ruled, stalled>>
      /\ protected' = [i \in Item |-> PruneProtected(i)] /\ scheduled' = [i \in Item |-> PruneScheduled(i)]
      /\ pc = "idle" /\ pc' = "rules" /\ calm'
  BY DEF Observe, operator, server
<1>2. Want(want) /\ todo' = plan /\ SyncTypes
  BY ObserveWants DEF OwnInv
<1>3. stalled' = {}
  BY <1>1 DEF OwnInv, SyncTypes, PlanTyped
<1>4. /\ \A i : Target(i)' = Target(i) /\ Place(i)' = Place(i)
      /\ Deleting' = Deleting /\ Announcing' = Announcing /\ Titled' = Titled
      /\ Judged(desired)' = Judged(want)
  <2>1. Judged(desired)' = Judged(want)
    BY <1>1 DEF Judged, WrongCopy
  <2> QED BY <1>1, <2>1, SamePlan
<1>5. \A i : Alone(i)' <=> i \notin Shared
  BY <1>2 DEF Alone, Want
<1>6. /\ \A i, do : Left(i, do)' <=> \E act \in plan : act.card = i /\ act.do = do
      /\ \A id : Goes(id)' <=> \E act \in plan : act.do = "release" /\ act.id = id
      /\ \A c, k : LeavesBy(c, k)' <=> \E act \in plan : act.do = "unschedule" /\ act.collection = c /\ act.key = k
      /\ \A c, k : EntersBy(c, k)' <=> \E act \in plan : act.do = "schedule" /\ act.collection = c /\ act.key = k
  BY <1>2 DEF Left, Goes, LeavesBy, EntersBy
<1>7. \A i : Kept(i)' <=> \E r \in rows : Covers(r, Target(i)) /\ ~Goes(r[1])'
  BY <1>1, <1>4 DEF Kept, Covers
<1>8. /\ Held(want) \subseteq want.evict /\ Unprotected(want) \subseteq want.protect /\ Placed(want) \subseteq want.evict
  BY <1>2, PlannedCards
<1> HIDE DEF plan
<1>9. ActsFit'
  <2> SUFFICES ASSUME NEW act \in plan
               PROVE  /\ act.do = "protect" =>
                          /\ act.key = Target(act.card) /\ act.card \in want.evict \cup want.protect
                          /\ \A other \in plan : other.card = act.card => other = act \/ other.do = "unschedule"
                      /\ act.do = "release" =>
                          \A r \in rows : r[1] = act.id =>
                            r[2] \in Key /\ \A i \in Item \ {act.card} : i \notin Shared => r[2] \notin keys[i]
                      /\ act.do = "schedule" =>
                          /\ act.card \in want.evict
                          /\ act.card \in unfinished => act.collection \in Announcing
                      /\ act.do \in {"schedule", "unschedule"} =>
                          \A i \in Item \ {act.card} : i \notin Shared => act.key \notin keys[i]
    BY <1>1, <1>2, <1>3, <1>4, <1>5 DEF ActsFit
  <2> QED BY <1>2, <1>8, PlanActsFit DEF plan
<1>10. KeptFit'
  <2> SUFFICES ASSUME NEW i \in want.protect \ want.unresolved, i \notin Shared
               PROVE  /\ keys[i] # {} /\ ~Left(i, "release")'
                      /\ Left(i, "protect")' \/ Kept(i)'
    BY <1>1, <1>5 DEF KeptFit
  <2> QED BY <1>2, <1>6, <1>7, PlanKeeps DEF plan
<1>11. WaitFit'
  <2> SUFFICES ASSUME ~want.refused, NEW i \in Judged(want) \cap unfinished, i \notin Shared,
                      NEW c \in Deleting, <<c, Target(i)>> \in members
               PROVE  Kept(i)' \/ Left(i, "protect")' \/ LeavesBy(c, Target(i))'
    BY <1>1, <1>4, <1>5 DEF WaitFit
  <2> QED BY <1>2, <1>4, <1>6, <1>7, PlanWaits DEF plan
<1>12. MembershipsFit'
  <2> SUFFICES ASSUME NEW i \in Item, scheduled'[i] # NotScheduled
               PROVE  \/ i \in want.evict /\ (i \in unfinished => scheduled'[i].collection \in Announcing)
                      \/ \E act \in plan : /\ act.do = "unschedule" /\ act.card = i
                                           /\ act.collection = scheduled'[i].collection /\ act.key = scheduled'[i].key
    BY <1>1, <1>2, <1>4 DEF MembershipsFit
  <2>1. scheduled'[i] = scheduled[i] /\ <<scheduled[i].collection, scheduled[i].key>> \in members
    BY <1>1 DEF PruneScheduled
  <2>2. CASE i \in want.evict /\ (i \in unfinished => scheduled[i].collection \in Announcing)
    BY <2>1, <2>2
  <2>3. CASE ~(i \in want.evict /\ (i \in unfinished => scheduled[i].collection \in Announcing))
    <3>1. i \in TakenBack(want)
      <4>1. i \notin want.evict => i \notin Evicting(want)
        BY DEF Evicting, Judged
      <4> QED BY <2>1, <2>3, <4>1 DEF TakenBack
    <3> QED BY <1>2, <2>1, <3>1, PlanTakesBack DEF plan
  <2> QED BY <2>2, <2>3
<1>13. \A i \in Item : PruneProtected(i).ids \subseteq protected[i].ids
  BY DEF PruneProtected, NoEntry, OwnInv, SyncTypes, FilesTyped, Entry
<1>14. \A r \in rows : r[1] \notin OwnedIds(protected) => Foreign(r)'
  <2> SUFFICES ASSUME NEW r \in rows, r[1] \notin OwnedIds(protected) PROVE r[1] \notin OwnedIds(protected)' /\ ~Goes(r[1])'
    BY <1>1 DEF Foreign
  <2>1. ~Goes(r[1])'
    BY <1>2, <1>6, PlannedReleases DEF OwnedIds, plan
  <2> QED BY <1>1, <1>13, <2>1 DEF OwnedIds
<1>15. ShieldsFit'
  <2>1. ASSUME NEW i \in Item \ (want.protect \cup want.unresolved \cup want.evict), NEW r \in rows, r[1] \in protected'[i].ids
        PROVE  Goes(r[1])'
    BY <1>1, <1>2, <1>6, <2>1, PlanReleases DEF plan
  <2>2. ASSUME NEW i \in want.evict \ (want.protect \cup want.unresolved), i \notin Shared,
               i \in Judged(want), ~want.refused, Place(i) # None
        PROVE  Shed(i)' \/ Outside(i)' \/ (\E r \in rows : Covers(r, Target(i)) /\ Foreign(r)') \/ Astray(i)'
    <3>0. i \in Item /\ Target(i) \in Key
      BY <1>2, <2>2, PlannedCards
    <3>1. CASE OperatorOwned(Target(i), protected)
      BY <1>14, <3>1 DEF OperatorOwned
    <3>2. CASE /\ Stray(i, scheduled) /\ \A act \in plan : ~(act.card = i /\ act.do = "schedule")
               /\ \E c \in Deleting : /\ <<c, Target(i)>> \in members /\ scheduled[i] # [key |-> Target(i), collection |-> c]
                                      /\ \A act \in plan : ~(act.do = "unschedule" /\ act.collection = c /\ act.key = Target(i))
      <4>1. scheduled'[i] \in {scheduled[i], NotScheduled} /\ NotScheduled.key # Target(i)
        BY <1>1, <3>0, SyncAssumption DEF PruneScheduled, NotScheduled
      <4>2. \A c : scheduled[i] # [key |-> Target(i), collection |-> c] => scheduled'[i] # [key |-> Target(i), collection |-> c]
        BY <4>1
      <4>3. i \in unfinished
        BY <3>2 DEF Stray
      <4>4. ~Left(i, "schedule")'
        BY <1>6, <3>2
      <4>5. \E c \in Deleting : /\ <<c, Target(i)>> \in members /\ ~LeavesBy(c, Target(i))'
                                /\ scheduled'[i] # [key |-> Target(i), collection |-> c]
        <5>1. PICK c \in Deleting : /\ <<c, Target(i)>> \in members /\ scheduled[i] # [key |-> Target(i), collection |-> c]
                                    /\ \A act \in plan : ~(act.do = "unschedule" /\ act.collection = c /\ act.key = Target(i))
          BY <3>2
        <5>2. \A act \in plan : ~(act.do = "unschedule" /\ act.collection = c /\ act.key = Target(i)')
          BY <1>4, <5>1
        <5>3. ~LeavesBy(c, Target(i))'
          BY <1>2, <5>2 DEF LeavesBy
        <5> QED BY <4>2, <5>1, <5>3
      <4>6. Astray(i)' <=> /\ i \in unfinished' /\ ~Left(i, "schedule")'
                           /\ \E c \in Deleting' : /\ <<c, Target(i)'>> \in members' /\ ~LeavesBy(c, Target(i))'
                                                   /\ scheduled'[i] # [key |-> Target(i)', collection |-> c]
        BY DEF Astray
      <4> QED BY <1>1, <1>4, <4>3, <4>4, <4>5, <4>6
    <3>3. CASE /\ \A act \in plan : ~(act.card = i /\ act.do = "protect")
               /\ \A r \in rows : r[1] \in protected[i].ids /\ Covers(r, Target(i)) =>
                    \E act \in plan : act.do = "release" /\ act.id = r[1]
      <4>1. \A r \in rows : r[1] \in protected'[i].ids /\ Covers(r, Target(i)) => Goes(r[1])'
        BY <1>1, <1>6, <1>13, <3>0, <3>3
      <4> QED BY <1>1, <1>4, <1>6, <3>3, <4>1 DEF Shed, Covers
    <3>4. CASE /\ ~Settled(i)
               /\ \A act \in plan : ~(act.do = "schedule" /\ act.collection = Place(i) /\ act.key = Target(i))
      <4>1. ~Settled(i)'
        BY <1>1, <1>4, <3>4 DEF Settled
      <4>2. ~EntersBy(Place(i), Target(i))'
        <5>1. \A act \in plan : ~(act.do = "schedule" /\ act.collection = Place(i)' /\ act.key = Target(i)')
          BY <1>4, <3>4
        <5> QED BY <1>2, <5>1 DEF EntersBy
      <4> QED BY <4>1, <4>2 DEF Outside
    <3> QED BY <1>2, <2>2, <3>1, <3>2, <3>3, <3>4, PlanShields DEF plan
  <2>3. \A i : Barred(i)' <=> \/ i \notin Judged(want) \/ want.refused \/ Place(i) = None
                              \/ \E r \in rows : Covers(r, Target(i)) /\ Foreign(r)'
                              \/ Astray(i)'
    BY <1>1, <1>4 DEF Barred, Covers
  <2>4. ShieldsFit' <=>
          /\ \A i \in Item \ (want.protect \cup want.unresolved \cup want.evict) :
               \A r \in rows : r[1] \in protected'[i].ids => Goes(r[1])'
          /\ \A i \in want.evict \ (want.protect \cup want.unresolved) :
               Alone(i)' => Shed(i)' \/ Outside(i)' \/ Barred(i)'
    BY <1>1 DEF ShieldsFit
  <2>5. \A i \in want.evict \ (want.protect \cup want.unresolved) : i \notin Shared => Shed(i)' \/ Outside(i)' \/ Barred(i)'
    BY <2>2, <2>3
  <2> QED BY <1>5, <2>1, <2>4, <2>5
<1> QED
  BY <1>1, <1>9, <1>10, <1>11, <1>12, <1>15
  DEF CalmInv, Undisturbed, WriteShows, Rested, UnfinishedWaits, KeptAreCovered, NoShieldOutlives, MembershipsWanted, OnePlanner

LEMMA StutterKeepsCalm ==
  ASSUME CalmInv, UNCHANGED vars
  PROVE  CalmInv'
<1>1. UNCHANGED <<operator, rows, members, setting, ruled, files, pc, protected, scheduled, desired, todo, before, stalled, calm>>
  BY DEF vars, server
<1>2. /\ UNCHANGED <<keys, unfinished, desired, protectedFile, scheduledFile>>
      /\ \A i : Target(i)' = Target(i) /\ Place(i)' = Place(i)
      /\ Deleting' = Deleting /\ Announcing' = Announcing /\ Titled' = Titled
      /\ Judged(desired)' = Judged(desired)
  BY <1>1, PlanStands DEF files
<1>3. /\ \A i : Kept(i)' = Kept(i) /\ Alone(i)' = Alone(i) /\ Settled(i)' = Settled(i)
      /\ \A i, do : Left(i, do)' = Left(i, do)
      /\ \A id : Goes(id)' = Goes(id)
      /\ \A c, k : LeavesBy(c, k)' = LeavesBy(c, k) /\ EntersBy(c, k)' = EntersBy(c, k)
      /\ Undisturbed' = Undisturbed /\ Rested' = Rested
  BY <1>1, <1>2 DEF Kept, Alone, Settled, Left, Goes, LeavesBy, EntersBy, Covers, Undisturbed, Rested
<1>4. ActsFit' = ActsFit /\ KeptFit' = KeptFit /\ WaitFit' = WaitFit /\ MembershipsFit' = MembershipsFit
  BY <1>1, <1>2, <1>3 DEF ActsFit, KeptFit, WaitFit, MembershipsFit
<1>5. Current' = Current
  BY <1>1, SameCurrent
<1>6. ShieldsFit' = ShieldsFit
  <2>1. \A r : Foreign(r)' = Foreign(r)
    BY <1>1, <1>3, <1>5 DEF Foreign, OwnedIds, RowsOf
  <2>2. \A i : Shed(i)' = Shed(i) /\ Outside(i)' = Outside(i) /\ Astray(i)' = Astray(i)
    BY <1>1, <1>2, <1>3 DEF Shed, Outside, Astray, Settled, Covers
  <2>3. \A i : Barred(i)' = Barred(i)
    BY <1>1, <1>2, <2>1, <2>2 DEF Barred, Covers
  <2> QED BY <1>1, <1>2, <1>3, <2>2, <2>3 DEF ShieldsFit
<1>7. WriteShows' = WriteShows
  <2>1. Kept(Current.card)' = Kept(Current.card) /\ Alone(Current.card)' = Alone(Current.card)
    BY <1>1, <1>2, <1>3, <1>5 DEF Kept, Alone, Covers, Target
  <2> QED BY <1>1, <1>5, <2>1 DEF WriteShows, Ids
<1>8. Takers(desired)' = Takers(desired)
  BY <1>1, <1>2 DEF Takers, OperatorOwned, OwnedIds, Stray, Covers
<1>9. /\ UnfinishedWaits' = UnfinishedWaits /\ KeptAreCovered' = KeptAreCovered /\ NoShieldOutlives' = NoShieldOutlives
      /\ MembershipsWanted' = MembershipsWanted /\ OnePlanner' = OnePlanner
  BY <1>1, <1>2, <1>3, <1>8
  DEF UnfinishedWaits, KeptAreCovered, NoShieldOutlives, MembershipsWanted, OnePlanner, Covered, Covers
<1> QED BY <1>1, <1>2, <1>3, <1>4, <1>6, <1>7, <1>9 DEF CalmInv

(* A disturbed cycle promises nothing. *)
LEMMA DisturbedKeepsCalm ==
  ASSUME ~calm'
  PROVE  CalmInv'
  BY DEF CalmInv, Undisturbed, Rested, UnfinishedWaits, KeptAreCovered, NoShieldOutlives, MembershipsWanted, OnePlanner

(* No act of an undisturbed cycle is passed over. *)
LEMMA NothingSkipped ==
  ASSUME OwnInv, CalmInv, Skip, calm
  PROVE  FALSE
<1>1. pc = "acting" /\ todo # {} /\ Current.card \in stalled
  BY DEF Skip
<1>2. Current \in todo
  BY <1>1, CurrentIsFirst DEF OwnInv, SyncTypes
<1> QED BY <1>1, <1>2 DEF CalmInv, Undisturbed, ActsFit

(* What a cycle of FLINCH's leaves behind is promised from the moment its    *)
(* plan is drawn up: every promise is met, or waits for an act that is left, *)
(* whatever confusion Maintainerr and the files were in (plan.rs, execute.rs *)
(* run_steps).                                                              *)
THEOREM CalmCyclesKeepFaith ==
  ASSUME ~Races
  PROVE  Spec => []CalmInv
<1>1. Init => CalmInv
  BY DEF Init, CalmInv, Undisturbed, Rested, UnfinishedWaits, KeptAreCovered, NoShieldOutlives, MembershipsWanted, OnePlanner
<1>2. OwnInv /\ CalmInv /\ [Next]_vars => CalmInv'
  <2> SUFFICES ASSUME OwnInv, CalmInv, [Next]_vars, calm' PROVE CalmInv'
    BY DisturbedKeepsCalm
  <2>1. ~Mishap
    BY DEF Mishap
  <2>2. CASE UNCHANGED vars
    BY <2>2, StutterKeepsCalm
  <2>3. CASE Observe
    BY <2>3, ObserveKeepsCalm
  <2>4. CASE TurnOffRules \/ SaveProtected
    BY <2>1, <2>4, TurnOffKeepsCalm DEF SaveProtected
  <2>5. CASE Skip
    BY <2>5, NothingSkipped DEF Skip, Smooth
  <2>6. CASE LookBefore \/ Write \/ ReadBack
    BY <2>6, LookKeepsCalm, WriteKeepsCalm, ReadBackKeepsCalm
  <2>7. CASE SaveScheduled
    BY <2>7, EndKeepsCalm
  <2>8. ~Stop /\ ~Others
    BY <2>1 DEF Stop, Others, Interfere, Exclude, Unexclude, PutIn, TakeOut, Configure, Watch, Rekey, Handle
  <2> QED BY <2>2, <2>3, <2>4, <2>5, <2>6, <2>7, <2>8 DEF Next, Daemon
<1> QED BY OwnRowsAreOwn, <1>1, <1>2, PTL DEF Spec

(* An unfinished card that a cycle would evict is left in no collection it   *)
(* could leave from unwarned, unless an exclusion holds it (plan.rs:27-30).  *)
THEOREM UnfinishedWaitsHolds ==
  ASSUME ~Races
  PROVE  Spec => []UnfinishedWaits
<1>1. CalmInv => UnfinishedWaits
  BY DEF CalmInv
<1> QED BY CalmCyclesKeepFaith, <1>1, PTL

(* Keep wins: what a cycle protects is covered when it ends, by FLINCH's     *)
(* exclusion or the operator's (plan.rs sync_protections).                  *)
THEOREM KeptAreCoveredHolds ==
  ASSUME ~Races
  PROVE  Spec => []KeptAreCovered
<1>1. CalmInv => KeptAreCovered
  BY DEF CalmInv
<1> QED BY CalmCyclesKeepFaith, <1>1, PTL

(* No exclusion of FLINCH's outlives its reason (plan.rs:31-34, 6-7).        *)
THEOREM NoShieldOutlivesHolds ==
  ASSUME ~Races
  PROVE  Spec => []NoShieldOutlives
<1>1. CalmInv => NoShieldOutlives
  BY DEF CalmInv
<1> QED BY CalmCyclesKeepFaith, <1>1, PTL

(* The memberships FLINCH keeps are of cards it still evicts, announced      *)
(* while nobody finished them (plan.rs:12-18).                              *)
THEOREM MembershipsWantedHolds ==
  ASSUME ~Races
  PROVE  Spec => []MembershipsWanted
<1>1. CalmInv => MembershipsWanted
  BY DEF CalmInv
<1> QED BY CalmCyclesKeepFaith, <1>1, PTL

(* One planner per collection: after a cycle no rule of Maintainerr's fills  *)
(* a collection FLINCH hands cards to (own_rules.rs turn_off).               *)
THEOREM OnePlannerHolds ==
  ASSUME ~Races
  PROVE  Spec => []OnePlanner
<1>1. CalmInv => OnePlanner
  BY DEF CalmInv
<1> QED BY CalmCyclesKeepFaith, <1>1, PTL
=============================================================================
