--------------------------- MODULE MaintainerrSync ---------------------------
(***************************************************************************)
(* FLINCH deleting through Maintainerr (`executor: maintainerr`).  A cycle *)
(* reads Maintainerr, turns off rules that compete with it, plans, and     *)
(* sends one write after another, each read back before it is recorded;    *)
(* then protected.json and scheduled.json are saved.  The operator, the    *)
(* household, Plex and Maintainerr itself move between any two of those    *)
(* calls; an answer may be lost, and the daemon may stop anywhere.         *)
(***************************************************************************)
EXTENDS Integers, Sequences, FiniteSets, SequencesExt

CONSTANTS
  Item,        \* cards of one kind
  Key,         \* Plex ratingKeys of those cards
  Above,       \* the key Maintainerr lists a key's exclusions by: its show's, or its own
  Collection,
  Titles,      \* the routes a collection's title names
  Bound,       \* the Plex section a collection is bound to
  Home,        \* the Plex section of a card
  Bytes,
  MaxItems, MaxBytes,  \* Caps
  None,        \* no key, no collection, no record
  Start,       \* the libraries and the ratingKeys a run may begin with
  Races,       \* whether others may act between the calls of one write
  MaxEvents    \* bound: what others do, lost calls, restarts, by size of the library

Route == {"delete", "soon"}
Anchor == Key \cup {Above[k] : k \in Key}

ASSUME SyncAssumption ==
  /\ Above \in [Key -> Anchor] /\ \A k \in Key : Above[k] \in Key => Above[k] = k
  /\ Titles \in [Collection -> SUBSET Route]
  /\ DOMAIN Bound = Collection /\ DOMAIN Home = Item
  /\ Bytes \in [Item -> Nat]
  /\ MaxItems \in Nat /\ MaxBytes \in Nat
  /\ MaxEvents \in [0..Cardinality(Item) -> Nat]
  /\ Races \in BOOLEAN
  /\ None \notin Key \cup Collection
  /\ IsFiniteSet(Item) /\ IsFiniteSet(Key)
  /\ Start \subseteq [Item -> SUBSET Key]

VARIABLES
  (* Plex, the household and the operator *)
  library,     \* cards in the library
  keys,        \* the ratingKeys of each card's copies in Plex
  kept,        \* pinned cards: never evicted, always protected
  unfinished,  \* cards nobody finished: announced when they go
  (* Maintainerr *)
  rows,        \* exclusions: <<id, key>>
  members,     \* <<collection, key>>
  setting,     \* a collection is "ok", warns nobody, is "off", or was "renamed"
  ruled,       \* collections a rule group still fills
  (* the files *)
  protectedFile, scheduledFile,
  (* the daemon's cycle *)
  pc, protected, scheduled, desired, todo, before, stalled,
  (* history *)
  made,        \* ids of the present rows FLINCH's calls made
  calm,        \* nothing went wrong and nobody interfered since the cycle began
  events

operator == <<library, keys, kept, unfinished>>
server   == <<rows, members, setting, ruled>>
files    == <<protectedFile, scheduledFile>>
vars     == <<operator, server, files, pc, protected, scheduled, desired, todo, before, stalled,
              made, calm, events>>

-----------------------------------------------------------------------------
NoEntry == [key |-> None, ids |-> {}]
NotScheduled == [key |-> None, collection |-> None]
Idle == [protect |-> {}, evict |-> {}, order |-> <<>>, unresolved |-> {}, shared |-> {}, refused |-> FALSE]

OneOf(S) == CHOOSE x \in S : TRUE

OwnedIds(prot) == UNION {prot[i].ids : i \in Item}
Ids(S) == {r[1] : r \in S}

(* Maintainerr gives each row a new id.  Ids are only compared, so one that  *)
(* nothing refers to any more serves as new, and RowId bounds their number. *)
RowId == 1..(Cardinality(Anchor) + 2 * Cardinality(Item) + 4)
FreshIds ==
  RowId \ (Ids(rows) \cup OwnedIds(protected) \cup OwnedIds(protectedFile) \cup before \cup {act.id : act \in todo})
FreshId == OneOf(FreshIds)

(* MaintainerrTarget: the item key of the copy the join named. *)
Target(i) == IF keys[i] = {} THEN None ELSE OneOf(keys[i])

Covers(r, k) == r[2] = k \/ r[2] = Above[k]
Covered(k) == \E r \in rows : Covers(r, k)

(* Exclusions are read by the show's key: the rows of every season of it. *)
RowsOf(k) == {r \in rows : r[2] = Above[k] \/ (r[2] \in Key /\ Above[r[2]] = Above[k])}

-----------------------------------------------------------------------------
(* validate.rs: which collections a route may use. *)

Named(route) == {c \in Collection : route \in Titles[c] /\ setting[c] # "renamed"}
(* Wrong: the Leaving Soon collection is not looked at. *)
TitledDelete == Named("delete")

Titled == Named("delete") \cup Named("soon")
Valid(c, route) == setting[c] = "ok" \/ (setting[c] = "silent" /\ route = "delete")

(* One invalid collection makes the whole route misconfigured. *)
Resolve(route) == IF \A c \in Named(route) : Valid(c, route) THEN Named(route) ELSE {}

RouteOf(i) == IF i \in unfinished THEN "soon" ELSE "delete"

(* for_section: the one collection of the card's section, or none. *)
Place(i) ==
  LET matching == {c \in Resolve(RouteOf(i)) : Bound[c] = Home[i]}
  IN  IF Cardinality(matching) = 1 THEN OneOf(matching) ELSE None

(* A member of these leaves unwarned. *)
Deleting == Named("delete") \ Resolve("soon")

(* Where an unfinished card's membership may stay. *)
Announcing == Named("soon") \ Deleting

-----------------------------------------------------------------------------
(* plan.rs `plan_sync`. *)

OperatorOwned(k, prot) == \E r \in rows : Covers(r, k) /\ r[1] \notin OwnedIds(prot)

(* Another copy than the one judged might go. *)
WrongCopy(i, protect) ==
  \/ \E p \in protect : keys[i] \cap keys[p] # {}
  \/ Cardinality(keys[i]) > 1

(* Wrong: a record of the card's counts, whatever key it was made under. *)
StrayByCard(i, sched) ==
  /\ i \in unfinished
  /\ \E c \in Deleting : <<c, Target(i)>> \in members /\ sched[i].collection # c

(* Unfinished, and in a delete collection by a membership without a record. *)
Stray(i, sched) ==
  /\ i \in unfinished
  /\ \E c \in Deleting : <<c, Target(i)>> \in members /\ sched[i] # [key |-> Target(i), collection |-> c]

Judged(want) == {i \in want.evict \ (want.protect \cup want.unresolved) : ~WrongCopy(i, want.protect)}

(* Cards whose membership stays unless it moves or is unwarned. *)
Evicting(want) ==
  ((want.evict \ want.protect) \cap want.unresolved)
  \cup {i \in Judged(want) : ~OperatorOwned(Target(i), protected)}

Takers(want) ==
  {i \in Judged(want) : /\ ~OperatorOwned(Target(i), protected)
                        /\ ~want.refused
                        /\ ~Stray(i, scheduled)
                        /\ Place(i) # None}

Held(want) ==
  {i \in Judged(want) : /\ ~OperatorOwned(Target(i), protected)
                        /\ ~want.refused
                        /\ Stray(i, scheduled)
                        /\ ~Covered(Target(i))}

Settled(i) == <<Place(i), Target(i)>> \in members

(* Caps::admits, over the cards in eviction order. *)
Admits(taken, i) ==
  /\ Cardinality(taken) < MaxItems /\ MaxBytes > 0
  /\ taken = {} \/ MapThenSumSet(LAMBDA j : Bytes[j], taken \cup {i}) <= MaxBytes

Waiting(want) == {i \in Takers(want) : ~Settled(i)}
Handed(want) ==
  Waiting(want) \cap
    FoldLeft(LAMBDA taken, i : IF i \in Waiting(want) /\ Admits(taken, i) THEN taken \cup {i} ELSE taken, {}, want.order)

Placed(want) == {i \in Takers(want) : Settled(i)} \cup Handed(want)

(* Wrong: an unfinished card's add that waits leaves it where it was. *)
TakenBackMoved(want) ==
  {i \in Item :
     LET entry == scheduled[i] IN
     /\ <<entry.collection, entry.key>> \in members
     /\ i \notin Evicting(want) \/ (i \in Placed(want) /\ Place(i) # entry.collection)}

(* Memberships taken back: the card is evicted no more, or moved, or waits  *)
(* unfinished outside Leaving Soon.                                         *)
TakenBack(want) ==
  {i \in Item :
     LET entry == scheduled[i] IN
     /\ <<entry.collection, entry.key>> \in members
     /\ \/ i \notin Evicting(want)
        \/ i \in Placed(want) /\ Place(i) # entry.collection
        \/ i \in want.evict \cap unfinished /\ entry.collection \notin Announcing}

(* Wrong: any row listed with the card's counts as covering it. *)
UnprotectedListed(want) ==
  {i \in want.protect \ want.unresolved : ~OperatorOwned(Target(i), protected) /\ RowsOf(Target(i)) = {}}

Unprotected(want) ==
  {i \in want.protect \ want.unresolved : ~OperatorOwned(Target(i), protected) /\ ~Covered(Target(i))}

(* Wrong: every row listed for a card FLINCH protected is taken for its own. *)
OwnRowsListed(i, k) == IF protected[i] = NoEntry THEN {} ELSE RowsOf(k)

(* FLINCH's own rows on a card, among those listed for a key. *)
OwnRows(i, k) == {r \in RowsOf(k) : r[1] \in protected[i].ids}

Released(want) == {i \in Item \ (want.protect \cup want.evict \cup want.unresolved) : protected[i] # NoEntry}

Act(do, i, k, c, id) == [do |-> do, card |-> i, key |-> k, collection |-> c, id |-> id]
Release(i, k) == {Act("release", i, k, None, r[1]) : r \in OwnRows(i, k)}
Protect(i) == Act("protect", i, Target(i), None, 0)
(* Wrong: a card already in its collection keeps its exclusion. *)
HandOverNew(want, i) ==
  IF i \notin Placed(want) \/ Settled(i) THEN {}
  ELSE Release(i, Target(i)) \cup {Act("schedule", i, Target(i), Place(i), 0)}

HandOver(want, i) ==
  IF i \notin Placed(want) THEN {}
  ELSE Release(i, Target(i)) \cup (IF Settled(i) THEN {} ELSE {Act("schedule", i, Target(i), Place(i), 0)})

PlanSync(want) ==
  {Act("unschedule", i, scheduled[i].key, scheduled[i].collection, 0) : i \in TakenBack(want)}
  \cup {Protect(i) : i \in Held(want) \cup Unprotected(want)}
  \cup (UNION {Release(i, protected[i].key) : i \in Released(want)})
  \cup (UNION {HandOver(want, i) : i \in Item})

(* The order of the writes: un-schedules, holds, protections, releases, then *)
(* the evictions in turn, the releases of each before its add.              *)
Turn(i) == OneOf({n \in DOMAIN desired.order : desired.order[n] = i})
Rank(act) ==
  CASE act.do = "unschedule" -> 0
    [] act.do = "protect" -> IF act.card \in desired.evict THEN 1 ELSE 2
    [] act.do = "release" -> IF act.card \in desired.evict THEN 2 + 2 * Turn(act.card) ELSE 3
    [] act.do = "schedule" -> 3 + 2 * Turn(act.card)

(* OwnedState::prune: what Maintainerr was seen to hold no more. *)
PruneProtected(i) ==
  LET left == protected[i].ids \cap Ids(RowsOf(protected[i].key))
  IN  IF protected[i] = NoEntry \/ left = {} THEN NoEntry ELSE [protected[i] EXCEPT !.ids = left]
PruneScheduled(i) ==
  IF <<scheduled[i].collection, scheduled[i].key>> \in members THEN scheduled[i] ELSE NotScheduled

-----------------------------------------------------------------------------
Init ==
  /\ keys \in Start /\ library = {i \in Item : keys[i] # {}}
  /\ kept = {} /\ unfinished \in SUBSET library
  /\ rows = {} /\ members = {}
  /\ setting = [c \in Collection |-> "ok"]
  /\ ruled = Collection
  /\ protected = [i \in Item |-> NoEntry] /\ protectedFile = protected
  /\ scheduled = [i \in Item |-> NotScheduled] /\ scheduledFile = scheduled
  /\ pc = "idle" /\ desired = Idle /\ todo = {} /\ before = {} /\ stalled = {}
  /\ made = {} /\ calm = FALSE /\ events = MaxEvents[Cardinality(library)]

Smooth == UNCHANGED <<calm, events>>
Mishap == events > 0 /\ events' = events - 1 /\ calm' = FALSE

(* Between cycles only the files and the outcome of a calm cycle are left.   *)
Finish ==
  /\ pc' = "idle"
  /\ protected' = protectedFile' /\ scheduled' = scheduledFile'
  /\ desired' = IF calm' THEN desired ELSE Idle
  /\ todo' = {} /\ before' = {} /\ stalled' = {}

(* The operator's own rows keep their cards out of the plan. *)
OperatorKeeps == {i \in library : keys[i] # {} /\ OperatorOwned(Target(i), protected)}

(* Cards whose Plex item another card has too, or is recorded under. *)
Shared ==
  {i \in Item : \E j \in Item \ {i} :
     keys[i] \cap (keys[j] \cup {protected[j].key, scheduled[j].key}) # {}}

(* The files are read, Maintainerr is observed in full, and the whole cycle *)
(* is planned from that one view; a cycle that cannot read all of it plans  *)
(* and sends nothing.                                                       *)
Observe ==
  /\ pc = "idle"
  /\ \E evict \in SUBSET (library \ (kept \cup OperatorKeeps)), refused \in BOOLEAN :
       \E order \in Bijection(1..Cardinality(evict), evict), partway \in SUBSET (library \ evict) :
         LET want == [protect |-> ((kept \cup OperatorKeeps) \cap library) \cup partway, evict |-> evict, order |-> order,
                      unresolved |-> {i \in library : keys[i] = {}}, shared |-> Shared, refused |-> refused]
         IN  /\ refused => evict # {}
             /\ desired' = want
             /\ todo' = PlanSync(want)
  /\ protected' = [i \in Item |-> PruneProtected(i)]
  /\ scheduled' = [i \in Item |-> PruneScheduled(i)]
  /\ calm' = TRUE
  /\ pc' = "rules"
  /\ UNCHANGED <<operator, server, files, before, stalled, made, events>>

(* own_rules.rs `turn_off`: each group is backed up, switched off and read   *)
(* back; without a backup nothing is sent, and any of it may fail.          *)
TurnOffRules ==
  /\ pc = "rules"
  /\ LET competing == ruled \cap Titled IN
     \E off \in SUBSET competing :
       /\ ruled' = ruled \ off
       /\ IF off = competing THEN Smooth ELSE Mishap
  /\ pc' = "acting"
  /\ UNCHANGED <<operator, rows, members, setting, files, protected, scheduled,
                 desired, todo, before, stalled, made>>

-----------------------------------------------------------------------------
(* execute.rs: one write at a time; a card whose step did not complete is   *)
(* left alone for the rest of the cycle.                                    *)

Current == OneOf({act \in todo : \A other \in todo : Rank(act) <= Rank(other)})
Rest == todo \ {Current}

Stall ==
  /\ stalled' = stalled \cup {Current.card}
  /\ todo' = Rest
  /\ pc' = "acting"

Skip ==
  /\ pc = "acting" /\ todo # {} /\ Current.card \in stalled
  /\ Stall
  /\ Smooth
  /\ UNCHANGED <<operator, server, files, protected, scheduled, desired, before, made>>

(* Rows that were there before a protection is posted are never claimed. *)
LookBefore ==
  /\ pc = "acting" /\ todo # {} /\ Current.card \notin stalled
  /\ Current.do = "protect"
  /\ \/ /\ before' = Ids(RowsOf(Current.key)) /\ pc' = "looked"
        /\ Smooth /\ UNCHANGED <<todo, stalled>>
     \/ Stall /\ Mishap /\ UNCHANGED before
  /\ UNCHANGED <<operator, server, files, protected, scheduled, desired, made>>

Apply(act) ==
  LET membership == <<act.collection, act.key>> IN
  CASE act.do = "release" ->
         /\ rows' = {r \in rows : r[1] # act.id} /\ made' = made \ {act.id}
         /\ UNCHANGED members
    [] act.do = "schedule" ->
         /\ members' = members \cup {membership}
         /\ UNCHANGED <<rows, made>>
    [] act.do = "unschedule" ->
         /\ members' = members \ {membership}
         /\ UNCHANGED <<rows, made>>
    [] act.do = "protect" ->
         /\ IF \E r \in rows : r[2] = act.key THEN UNCHANGED <<rows, made>>
            ELSE FreshIds # {} /\ rows' = rows \cup {<<FreshId, act.key>>} /\ made' = made \cup {FreshId}
         /\ UNCHANGED members

(* The write, which Maintainerr may refuse, or carry out without its answer *)
(* arriving.                                                                *)
Write ==
  /\ \/ pc = "acting" /\ todo # {} /\ Current.card \notin stalled /\ Current.do # "protect"
     \/ pc = "looked"
  /\ \/ Apply(Current) /\ pc' = "written" /\ Smooth /\ UNCHANGED <<todo, stalled>>
     \/ Apply(Current) /\ Stall /\ Mishap
     \/ Stall /\ Mishap /\ UNCHANGED <<rows, members, made>>
  /\ UNCHANGED <<operator, setting, ruled, files, protected, scheduled, desired, before>>

Shown(act) ==
  CASE act.do = "release" -> act.id \notin Ids(rows)
    [] act.do = "schedule" -> <<act.collection, act.key>> \in members
    [] act.do = "unschedule" -> <<act.collection, act.key>> \notin members
    [] act.do = "protect" -> \E r \in RowsOf(act.key) : r[1] \notin before /\ r[2] = act.key

Forgotten(entry, id) == IF entry.ids \subseteq {id} THEN NoEntry ELSE [entry EXCEPT !.ids = @ \ {id}]

RecordDone(act) ==
  CASE act.do = "release" ->
         /\ protected' = [protected EXCEPT ![act.card] = Forgotten(@, act.id)]
         /\ UNCHANGED scheduled
    [] act.do = "schedule" ->
         /\ protected' = [protected EXCEPT ![act.card] = NoEntry]
         /\ scheduled' = [scheduled EXCEPT ![act.card] = [key |-> act.key, collection |-> act.collection]]
    [] act.do = "unschedule" ->
         /\ scheduled' = [scheduled EXCEPT ![act.card] = NotScheduled]
         /\ UNCHANGED protected
    [] act.do = "protect" ->
         /\ protected' = [protected EXCEPT ![act.card] =
                            [key |-> act.key, ids |-> Ids(RowsOf(act.key)) \ before]]
         /\ UNCHANGED scheduled

(* The read-back: ownership is recorded only for what it shows. *)
ReadBack ==
  /\ pc = "written"
  /\ \/ /\ Shown(Current) /\ RecordDone(Current)
        /\ todo' = Rest /\ pc' = "acting" /\ Smooth /\ UNCHANGED stalled
     \/ ~Shown(Current) /\ Stall /\ Smooth /\ UNCHANGED <<protected, scheduled>>
     \/ Stall /\ Mishap /\ UNCHANGED <<protected, scheduled>>
  /\ before' = {}
  /\ UNCHANGED <<operator, server, files, desired, made>>

(* OwnedState::write: protected.json, then scheduled.json. *)
SaveProtected ==
  /\ pc = "acting" /\ todo = {}
  /\ \/ /\ Smooth /\ protectedFile' = protected /\ pc' = "saving"
        /\ UNCHANGED <<protected, scheduled, desired, todo, before, stalled>>
     \/ Mishap /\ UNCHANGED files /\ Finish
  /\ UNCHANGED <<operator, server, scheduledFile, made>>

SaveScheduled ==
  /\ pc = "saving"
  /\ \/ scheduledFile' = scheduled /\ Smooth
     \/ UNCHANGED scheduledFile /\ Mishap
  /\ UNCHANGED <<operator, server, protectedFile, made>>
  /\ Finish

(* The daemon stops and starts again. *)
Stop ==
  /\ pc # "idle"
  /\ Mishap
  /\ UNCHANGED <<operator, server, files, made>>
  /\ Finish

-----------------------------------------------------------------------------
(* Everybody else. *)

Interfere == Mishap /\ (Races \/ pc \notin {"looked", "written"})
DaemonStands ==
  /\ UNCHANGED <<files, pc, protected, scheduled, todo, before, stalled>>
  /\ desired' = IF pc = "idle" THEN Idle ELSE desired

Exclude(k) ==
  /\ Interfere
  /\ (\A r \in rows : r[2] # k) /\ FreshIds # {}
  /\ rows' = rows \cup {<<FreshId, k>>}
  /\ UNCHANGED <<operator, members, setting, ruled, made>> /\ DaemonStands

Unexclude(r) ==
  /\ Interfere
  /\ rows' = rows \ {r}
  /\ made' = made \ {r[1]}
  /\ UNCHANGED <<operator, members, setting, ruled>> /\ DaemonStands

(* By hand, or by a rule of Maintainerr's. *)
PutIn(c, k) ==
  /\ Interfere
  /\ <<c, k>> \notin members
  /\ members' = members \cup {<<c, k>>}
  /\ UNCHANGED <<operator, rows, setting, ruled, made>> /\ DaemonStands

TakeOut(m) ==
  /\ Interfere
  /\ members' = members \ {m}
  /\ UNCHANGED <<operator, rows, setting, ruled, made>> /\ DaemonStands

Configure(c) ==
  /\ Interfere
  /\ \E s \in {"ok", "silent", "off", "renamed"} \ {setting[c]} : setting' = [setting EXCEPT ![c] = s]
  /\ UNCHANGED <<operator, rows, members, ruled, made>> /\ DaemonStands

(* The household finishes a card or counts as unfinished; a pin is set or    *)
(* taken off.                                                               *)
Watch(i) ==
  /\ Interfere
  /\ i \in library
  /\ \/ kept' = (kept \ {i}) \cup ({i} \ kept) /\ UNCHANGED unfinished
     \/ unfinished' = (unfinished \ {i}) \cup ({i} \ unfinished) /\ UNCHANGED kept
  /\ UNCHANGED <<library, keys, server, made>> /\ DaemonStands

(* Plex gives an item other ratingKeys, merges copies or loses sight of it. *)
Rekey(i) ==
  /\ Interfere
  /\ i \in library
  /\ \E S \in (SUBSET Key) \ {keys[i]} : keys' = [keys EXCEPT ![i] = S]
  /\ UNCHANGED <<library, kept, unfinished, server, made>> /\ DaemonStands

(* Maintainerr deletes a member that no exclusion covers. *)
Handle(m) ==
  /\ Interfere
  /\ ~Covered(m[2])
  /\ members' = {n \in members : n[2] # m[2]}
  /\ keys' = [i \in Item |-> keys[i] \ {m[2]}]
  /\ library' = {i \in library : keys[i] # {m[2]}}
  /\ UNCHANGED <<kept, unfinished, rows, setting, ruled, made>> /\ DaemonStands

Others ==
  \/ \E k \in Anchor : Exclude(k)
  \/ \E r \in rows : Unexclude(r)
  \/ \E c \in Collection, k \in Key : PutIn(c, k)
  \/ \E m \in members : TakeOut(m) \/ Handle(m)
  \/ \E c \in Collection : Configure(c)
  \/ \E i \in Item : Watch(i) \/ Rekey(i)

Daemon ==
  \/ Observe \/ TurnOffRules
  \/ Skip \/ LookBefore \/ Write \/ ReadBack
  \/ SaveProtected \/ SaveScheduled

Next == Daemon \/ Stop \/ Others

Spec == Init /\ [][Next]_vars

-----------------------------------------------------------------------------
(* A cycle ended, and since it began nothing failed and nobody interfered.  *)
Rested == pc = "idle" /\ calm

(* What a cycle leaves behind, however confused Maintainerr and the files    *)
(* were when it began (plan.rs:27-30): an unfinished card it would evict is  *)
(* in no collection it could leave from unwarned, unless an exclusion holds  *)
(* it there.  (Cards that share one Plex item are judged as one by nobody.)  *)
UnfinishedWaits ==
  Rested /\ ~desired.refused =>
    \A i \in Judged(desired) \cap unfinished :
      i \notin desired.shared => \A c \in Deleting : <<c, Target(i)>> \in members => Covered(Target(i))

(* Keep wins: a protected card is covered by an exclusion when a cycle ends, *)
(* FLINCH's or the operator's, unless another card has or had its Plex item. *)
KeptAreCovered ==
  Rested =>
    \A i \in desired.protect \ desired.unresolved :
      i \notin desired.shared => Covered(Target(i))

(* No recorded exclusion outlives its reason: when a cycle ends, the rows    *)
(* FLINCH knows as its own shield only cards it protects, holds, or cannot   *)
(* judge, so the operator's own rules apply to every other (plan.rs:31-34),  *)
(* and none covers a card that sits where it is to leave from (plan.rs:6-7). *)
NoShieldOutlives ==
  Rested =>
    \A i \in Item \ (desired.protect \cup desired.unresolved) : \A r \in rows :
      r[1] \in protectedFile[i].ids =>
        /\ i \in desired.evict
        /\ i \in Takers(desired) /\ Settled(i) /\ i \notin desired.shared => ~Covers(r, Target(i))

(* Memberships FLINCH knows as its own are of cards it still evicts, in      *)
(* Leaving Soon while nobody finished them (plan.rs:12-18).                  *)
MembershipsWanted ==
  Rested =>
    \A i \in Item :
      LET entry == scheduledFile[i] IN
      <<entry.collection, entry.key>> \in members =>
        /\ i \in desired.evict
        /\ i \in unfinished => entry.collection \in Announcing

(* One planner per collection: no rule of Maintainerr's still fills a        *)
(* collection FLINCH hands cards to.                                         *)
OnePlanner == Rested => \A c \in ruled : Titles[c] = {} \/ setting[c] = "renamed"

(* A call of FLINCH's removes only exclusions a call of FLINCH's made: the   *)
(* operator's stay (plan.rs:20-21).                                          *)
OperatorRowsStay == [][Write => Ids(rows) \ Ids(rows') \subseteq made]_vars
=============================================================================
