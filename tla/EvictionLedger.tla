--------------------------- MODULE EvictionLedger ---------------------------
(***************************************************************************)
(* The eviction ledger (capacity/inflight.rs): what FLINCH deleted stays    *)
(* credited against its disk's goal until the disk shows the space back.    *)
(* A cycle reads the library, then the disks, advances the ledger, hands    *)
(* cards over (to Maintainerr, which deletes them days later, or deleting    *)
(* them itself), moves cards to the archive, and saves evictions.json.      *)
(* Between any two steps files are deleted, bins empty, torrents hold on,   *)
(* downloads come and go.                                                   *)
(***************************************************************************)
EXTENDS Integers, FiniteSets, FiniteSetsExt

CONSTANTS
  Item,         \* cards, numbered in the order their ids sort
  Size,         \* a card's bytes
  Volume,       \* the governed disks
  Home,         \* the disk a card starts on
  Archive,      \* the disk cards are moved to, None for no archive
  None,
  Recycle,      \* how long a card's *arr keeps a deletion in its bin
  Stale,        \* a card on disk this long after hand-over is dropped
  SettleGrace,  \* how long after its window a drop may still show
  HeldCredit,   \* how long held bytes stay credited
  Disturbance,  \* what else happens: "import", "redownload", "outside", "loss", "unlocated"
  MaxTime,      \* bound: the clock stops here
  MaxEvents     \* bound: downloads, failures and disturbances

ASSUME LedgerAssumption ==
  /\ IsFiniteSet(Item) /\ Item \subseteq Nat \ {0}
  /\ Size \in [Item -> Nat \ {0}]
  /\ Home \in [Item -> Volume]
  /\ None \notin Volume /\ Archive \in Volume \cup {None}
  /\ Recycle \in [Item -> Nat]
  /\ Stale \in Nat \ {0} /\ SettleGrace \in Nat /\ HeldCredit \in Nat \ {0}
  /\ Disturbance \subseteq {"import", "redownload", "outside", "loss", "unlocated"}
  /\ MaxTime \in Nat \ {0} /\ MaxEvents \in Nat

VARIABLES
  (* the world *)
  clock,
  disk, home,    \* cards on disk, and where
  left,          \* <<card, disk>>: bytes of a card that left and still occupy the disk
  noise,         \* per disk, bytes FLINCH cannot name: downloads, others' bins
  scheduled,     \* when FLINCH added the card to a collection that still holds it, 0 none
  (* the daemon *)
  file,          \* evictions.json
  ledger,        \* the ledger in memory
  seen,          \* the cycle's library, the cards on a measured disk, its time
  pc,
  settled,       \* history: bytes in `left` whose credit ended as freed
  watched,       \* history: how many watches of a disk have begun
  since,         \* history: per key, when its credit was first saved, 0 not credited
  (* the bound *)
  events

world == <<disk, home, left, noise, scheduled>>
history == <<settled, watched, since>>
vars  == <<clock, world, file, ledger, seen, pc, history, events>>

(* A card's entry is its number, its move to the archive the negative of it: *)
(* an "archive:" key is no card id and sorts before them.                    *)
Key == Item \cup {-i : i \in Item}
Card(k) == IF k < 0 THEN -k ELSE k
Moved(k) == k < 0

-----------------------------------------------------------------------------
(* The ledger. gone and held are 0 for not yet. *)

Untracked == [volume |-> None, handed |-> 0, gone |-> 0, held |-> 0]

Unread == [known |-> FALSE, at |-> 0]

NoWatch == [baseline |-> 0, low |-> 0, since |-> 0, anchored |-> FALSE]

Empty ==
  [entries |-> [k \in Key |-> Untracked],
   watches |-> [v \in Volume |-> NoWatch],
   last    |-> [v \in Volume |-> Unread]]

Eviction(volume, at) == [volume |-> volume, handed |-> at, gone |-> 0, held |-> 0]

(* `record`: a tracked card keeps its first hand-over. *)
Recorded(e, volume, at) == IF e = Untracked THEN Eviction(volume, at) ELSE e

(* `book`: one still on disk is credited where the card is now. *)
Booked(e, volume, at, now) ==
  IF now - at >= Stale THEN e
  ELSE IF e # Untracked /\ e.gone = 0 THEN [e EXCEPT !.volume = volume]
  ELSE Recorded(e, volume, at)

(* `record_move`: it left that disk now. *)
RecordedMove(volume, now) == [Eviction(volume, now) EXCEPT !.gone = now]

(* How long the bytes may stay after the card left: a move has no bin. *)
WindowOf(k) == IF Moved(k) THEN 0 ELSE Recycle[Card(k)]

-----------------------------------------------------------------------------
(* `observe`: a cycle at `now` with this library. *)

(* Wrong: a card is stamped gone anew in every cycle. *)
SightedAnew(E, k, library, now) ==
  IF E[k] = Untracked THEN Untracked
  ELSE IF k \in library THEN [E[k] EXCEPT !.gone = 0, !.held = 0]
  ELSE [E[k] EXCEPT !.gone = now]

(* Back on disk, or never deleted yet: no credit; else first seen gone now. *)
Sighted(E, k, library, now) ==
  IF E[k] = Untracked THEN Untracked
  ELSE IF k \in library THEN [E[k] EXCEPT !.gone = 0, !.held = 0]
  ELSE [E[k] EXCEPT !.gone = IF @ = 0 THEN now ELSE @]

GivenUp(e, k, now) ==
  IF e.gone = 0 THEN now - e.handed >= Stale
  ELSE \/ e.held # 0 /\ now - e.held >= HeldCredit
       \/ now - e.gone >= WindowOf(k) + SettleGrace + HeldCredit

Sight(E, library, now) ==
  [k \in Key |-> LET e == Sighted(E, k, library, now)
                 IN  IF e # Untracked /\ GivenUp(e, k, now) THEN Untracked ELSE e]

Gone(E, v) == {k \in Key : E[k].gone # 0 /\ E[k].volume = v}

Bytes(S) == MapThenSumSet(LAMBDA k : Size[Card(k)], S)

DueAt(E, k) == E[k].gone + WindowOf(k)

Before(E, a, b) ==
  \/ DueAt(E, a) < DueAt(E, b)
  \/ DueAt(E, a) = DueAt(E, b) /\ E[a].gone < E[b].gone
  \/ DueAt(E, a) = DueAt(E, b) /\ E[a].gone = E[b].gone /\ a < b

(* Wrong: an eviction is judged as soon as it is gone. *)
DueOnceGone(E, v, now) == Gone(E, v)

DueNow(E, v, now) == {k \in Gone(E, v) : now >= DueAt(E, k)}

(* Bytes on the disk that are neither library nor credited. *)
Other(E, v, used, library) == used - library - Bytes(Gone(E, v))

(* A watch starts at the reading before its first eviction left. *)
Begins(L, v) == L.watches[v] = NoWatch /\ Gone(L.entries, v) # {}
WatchOn(L, v, other, now) ==
  LET w == IF L.watches[v] # NoWatch THEN L.watches[v]
           ELSE LET start == IF L.last[v].known THEN L.last[v].at ELSE other
                IN  [baseline |-> start, low |-> start, since |-> now, anchored |-> L.last[v].known]
  IN  [w EXCEPT !.low = IF other < @ THEN other ELSE @]

(* Gone before the first reading: it may have freed its bytes unseen. *)
Unjudgeable(E, w, k) == ~w.anchored /\ E[k].gone <= w.since

(* Wrong: a drop is not spent on the eviction it frees. *)
SpendNothing(low, k) == low

Spend(low, k) == low + Size[Card(k)]

(* An eviction due is freed by a drop of half its size, which is then spent. *)
Paid(E, w, s, k) ==
  IF Unjudgeable(E, w, k) THEN [s EXCEPT !.unseen = @ \cup {k}]
  ELSE IF (w.baseline - s.low) * 2 >= Size[Card(k)]
       THEN [s EXCEPT !.freed = @ \cup {k}, !.low = Spend(s.low, k)]
       ELSE s

(* Those due are judged in the order their windows ended. *)
Earliest(E, due) == CHOOSE k \in due : \A j \in due \ {k} : Before(E, k, j)
Judge(E, w, due) ==
  LET walk[n \in 0..Cardinality(due)] ==
        IF n = 0 THEN [waiting |-> due, low |-> w.low, freed |-> {}, unseen |-> {}]
        ELSE LET k == Earliest(E, walk[n - 1].waiting)
             IN  [Paid(E, w, walk[n - 1], k) EXCEPT !.waiting = @ \ {k}]
  IN  walk[Cardinality(due)]

(* `settle` of one disk: what is freed, what is held from now on. *)
Settle(L, v, used, library, now) ==
  LET E       == L.entries
      other   == Other(E, v, used, library)
      watch   == WatchOn(L, v, other, now)
      due     == DueNow(E, v, now)
      verdict == Judge(E, watch, due)
      ended   == due \cap (verdict.freed \cup verdict.unseen)
  IN  IF Gone(E, v) = {}
      THEN [ended |-> {}, freed |-> {}, late |-> {}, watch |-> NoWatch, last |-> other]
      ELSE [ended |-> ended,
            freed |-> due \cap verdict.freed,
            late  |-> {k \in due \ ended : E[k].held = 0 /\ now - DueAt(E, k) >= SettleGrace},
            watch |-> IF Gone(E, v) \subseteq ended THEN NoWatch ELSE [watch EXCEPT !.low = verdict.low],
            last  |-> other + Bytes(ended)]

(* measured gives each disk read this cycle its used and library bytes. *)
Verdicts(L, measured, now) ==
  [v \in DOMAIN measured |-> Settle(L, v, measured[v].used, measured[v].library, now)]

Settled(L, verdicts, now) ==
  LET ended == UNION {verdicts[v].ended : v \in DOMAIN verdicts}
      late  == UNION {verdicts[v].late : v \in DOMAIN verdicts}
  IN  [entries |-> [k \in Key |-> IF k \in ended THEN Untracked
                                  ELSE IF k \in late THEN [L.entries[k] EXCEPT !.held = now]
                                  ELSE L.entries[k]],
       watches |-> [v \in Volume |-> IF v \in DOMAIN verdicts THEN verdicts[v].watch ELSE L.watches[v]],
       last    |-> [v \in Volume |-> IF v \in DOMAIN verdicts THEN [known |-> TRUE, at |-> verdicts[v].last]
                                     ELSE L.last[v]]]

Freed(E, verdicts) ==
  {<<Card(k), E[k].volume>> : k \in UNION {verdicts[v].freed : v \in DOMAIN verdicts}}

-----------------------------------------------------------------------------
Nothing == [library |-> {}, home |-> Home, located |-> {}, now |-> 0]

Init ==
  /\ clock = 1
  /\ disk = Item /\ home = Home /\ left = {}
  /\ noise = [v \in Volume |-> 0]
  /\ scheduled = [i \in Item |-> 0]
  /\ file \in {Empty, [Empty EXCEPT !.last = [v \in Volume |-> [known |-> TRUE, at |-> 0]]]}
  /\ ledger = file /\ seen = Nothing /\ pc = "idle"
  /\ settled = {} /\ watched = [v \in Volume |-> 0] /\ since = [k \in Key |-> 0]
  /\ events = MaxEvents

Smooth == events' = events
Mishap == events > 0 /\ events' = events - 1

LibraryOn(v) == {i \in seen.library : seen.home[i] = v}

Used(v) ==
  noise[v] + Bytes({i \in disk : home[i] = v}) + Bytes({i \in Item : <<i, v>> \in left})

(* The library is read first, the disks later: the world may move between.   *)
ReadLibrary ==
  /\ pc = "idle"
  /\ seen' = [Nothing EXCEPT !.library = disk, !.home = home]
  /\ pc' = "read"
  /\ UNCHANGED <<clock, world, file, ledger, history, events>>

(* storage.rs `govern`: the ledger advances against the disks that answered. *)
(* A disk two *arrs share answers for both, but the cards of one whose own    *)
(* reading failed are on no measured disk.                                   *)
Observe ==
  /\ pc = "read"
  /\ \E answered \in SUBSET Volume :
     \E located \in SUBSET UNION {LibraryOn(v) : v \in answered} :
       LET on(v)    == Bytes(LibraryOn(v) \cap located)
           measured == [v \in answered |-> [used |-> Used(v), library |-> on(v)]]
           sighted  == [file EXCEPT !.entries = Sight(file.entries, seen.library, clock)]
           verdicts == Verdicts(sighted, measured, clock)
       IN  /\ IF answered = Volume /\ located = seen.library THEN Smooth ELSE Mishap
           /\ "unlocated" \in Disturbance \/ located = UNION {LibraryOn(v) : v \in answered}
           /\ ledger' = Settled(sighted, verdicts, clock)
           /\ settled' = settled \cup (left \cap Freed(sighted.entries, verdicts))
           /\ watched' = [v \in Volume |-> watched[v] + IF v \in answered /\ Begins(sighted, v) THEN 1 ELSE 0]
           /\ seen' = [seen EXCEPT !.located = located, !.now = clock]
  /\ pc' = "acting"
  /\ UNCHANGED <<clock, world, file, since>>

(* handoff.rs `sync`: Maintainerr gives cards back and is given others, and   *)
(* every membership of a card on a measured disk is booked at its add.       *)
HandOff ==
  /\ pc = "acting"
  /\ \E back \in SUBSET {i \in Item : scheduled[i] # 0},
        added \in SUBSET {i \in seen.located : scheduled[i] = 0} :
       LET held(i) == IF i \in back THEN 0 ELSE IF i \in added THEN seen.now ELSE scheduled[i]
           kept(k) == IF k \in back THEN Untracked ELSE ledger.entries[k]
       IN  /\ scheduled' = [i \in Item |-> IF i \in disk THEN held(i) ELSE 0]
           /\ ledger' = [ledger EXCEPT !.entries =
                [k \in Key |-> IF k \in seen.located /\ held(k) # 0
                               THEN Booked(kept(k), seen.home[k], held(k), seen.now)
                               ELSE kept(k)]]
  /\ pc' = "moving"
  /\ Smooth
  /\ UNCHANGED <<clock, disk, home, left, noise, file, seen, history>>

(* Maintainerr cannot be read: nothing is synced. *)
Unreadable ==
  /\ pc = "acting" /\ Mishap
  /\ pc' = "moving"
  /\ UNCHANGED <<clock, world, file, ledger, seen, history>>

(* native/act.rs: a card FLINCH deletes itself is booked as it goes. *)
Evict(i) ==
  /\ pc = "acting" /\ i \in disk \cap seen.located /\ <<i, home[i]>> \notin left
  /\ disk' = disk \ {i}
  /\ left' = left \cup {<<i, home[i]>>}
  /\ scheduled' = [scheduled EXCEPT ![i] = 0]
  /\ ledger' = [ledger EXCEPT !.entries[i] = Recorded(@, seen.home[i], seen.now)]
  /\ Smooth
  /\ UNCHANGED <<clock, home, noise, file, seen, pc, history>>

(* archive.rs: the path changes at once, the copy frees the disk as it ends.  *)
(* A planned move is no planned eviction, so the hand-off took its card back. *)
MoveToArchive(i) ==
  /\ pc = "moving" /\ Archive # None /\ scheduled[i] = 0
  /\ i \in disk \cap seen.located /\ home[i] = seen.home[i] /\ home[i] # Archive /\ <<i, home[i]>> \notin left
  /\ home' = [home EXCEPT ![i] = Archive]
  /\ left' = left \cup {<<i, home[i]>>}
  /\ ledger' = [ledger EXCEPT !.entries[-i] = RecordedMove(seen.home[i], seen.now)]
  /\ since' = [since EXCEPT ![-i] = 0]
  /\ Smooth
  /\ UNCHANGED <<clock, disk, noise, scheduled, file, seen, pc, settled, watched>>

(* Credit in the file runs from the cycle that first wrote it. *)
Running == [k \in Key |-> IF file'.entries[k].gone = 0 THEN 0 ELSE IF since[k] # 0 THEN since[k] ELSE seen.now]

Save ==
  /\ pc = "moving"
  /\ \/ Smooth /\ file' = ledger
     \/ "loss" \in Disturbance /\ Mishap /\ UNCHANGED file
  /\ since' = Running
  /\ pc' = "idle" /\ ledger' = file' /\ seen' = Nothing
  /\ UNCHANGED <<clock, world, settled, watched>>

Stop ==
  /\ "loss" \in Disturbance /\ pc # "idle" /\ Mishap
  /\ pc' = "idle" /\ ledger' = file /\ seen' = Nothing
  /\ UNCHANGED <<clock, world, file, history>>

(* A missing or corrupt file reads as empty. *)
LoseFile ==
  /\ "loss" \in Disturbance /\ pc = "idle" /\ Mishap
  /\ file' = Empty /\ ledger' = Empty
  /\ since' = [k \in Key |-> 0]
  /\ UNCHANGED <<clock, world, seen, pc, settled, watched>>

-----------------------------------------------------------------------------
(* The world. One deletion of a card at a time occupies a disk. *)

daemon == <<file, ledger, seen, pc>>

(* Maintainerr deletes a card whose collection window ran out; with the      *)
(* "outside" disturbance anyone deletes any card.                            *)
Deleted(i) ==
  /\ i \in disk /\ <<i, home[i]>> \notin left
  /\ IF scheduled[i] # 0 THEN Smooth ELSE "outside" \in Disturbance /\ Mishap
  /\ disk' = disk \ {i}
  /\ left' = left \cup {<<i, home[i]>>}
  /\ scheduled' = [scheduled EXCEPT ![i] = 0]
  /\ UNCHANGED <<clock, home, noise, history, daemon>>

(* The bin empties, the copy ends or the torrent lets go: whenever. *)
Frees(i, v) ==
  /\ <<i, v>> \in left
  /\ left' = left \ {<<i, v>>}
  /\ settled' = settled \ {<<i, v>>}
  /\ UNCHANGED <<watched, since, clock, disk, home, noise, scheduled, daemon, events>>

Download(v) ==
  /\ Mishap
  /\ noise' = [noise EXCEPT ![v] = @ + 1]
  /\ UNCHANGED <<clock, disk, home, left, scheduled, history, daemon>>

Import(v) ==
  /\ "import" \in Disturbance /\ Smooth /\ noise[v] > 0
  /\ noise' = [noise EXCEPT ![v] = @ - 1]
  /\ UNCHANGED <<clock, disk, home, left, scheduled, history, daemon>>

Redownload(i) ==
  /\ "redownload" \in Disturbance /\ Mishap /\ i \notin disk
  /\ disk' = disk \cup {i}
  /\ UNCHANGED <<clock, home, left, noise, scheduled, history, daemon>>

Tick ==
  /\ clock < MaxTime
  /\ clock' = clock + 1
  /\ UNCHANGED <<world, history, daemon, events>>

Cycle ==
  \/ ReadLibrary \/ Observe \/ HandOff \/ Unreadable \/ Save
  \/ \E i \in Item : Evict(i) \/ MoveToArchive(i)

World ==
  \/ \E i \in Item : Deleted(i) \/ Redownload(i) \/ (\E v \in Volume : Frees(i, v))
  \/ \E v \in Volume : Download(v) \/ Import(v)

Next == Cycle \/ Stop \/ LoseFile \/ World \/ Tick

Spec == Init /\ [][Next]_vars

-----------------------------------------------------------------------------
(* What must hold. *)

(* A saved credit outlives every cycle until its recycle window has passed   *)
(* or its card is back: no bin time is ever evicted for twice.               *)
CreditKept ==
  [][\A k \in Key :
       file.entries[k].gone # 0 /\ pc # "idle" =>
         \/ file'.entries[k].gone = file.entries[k].gone /\ file'.entries[k].volume = file.entries[k].volume
         \/ seen.now >= DueAt(file.entries, k)
         \/ k \in seen.library]_vars

(* No credit lasts forever, on a disk that never answers again or of bytes a *)
(* torrent never lets go: counted from the first evictions.json that had it, *)
(* through stops, failed writes and however often it was judged since, it is *)
(* gone from every cycle once bin window, grace and held credit have passed. *)
CreditEnds ==
  pc = "acting" =>
    \A k \in Key :
      since[k] # 0 /\ ledger.entries[k].gone # 0 =>
        seen.now - since[k] < WindowOf(k) + SettleGrace + HeldCredit

(* Evictions of disk v whose bytes are free and that are still credited. *)
FreedOn(v) ==
  {k \in Key : ledger.entries[k].volume = v /\ <<Card(k), v>> \notin left /\ (k \in disk => home[k] # v)}

OccupyingOn(v) == {i \in Item : <<i, v>> \in settled}

(* "Bytes still in a recycle bin are credited": while nothing else frees     *)
(* space on a disk, credit that ended too early is made up for by credit     *)
(* that lasts too long, but for half an item every watch: a drop frees what  *)
(* is twice its size, and what a watch gave too early the next one forgets   *)
(* (inflight.rs:281-283, :324-326).                                          *)
LargestSize == Max({0} \cup {Size[i] : i \in Item})
CreditCovers ==
  \A v \in Volume : 2 * Bytes(OccupyingOn(v)) <= 2 * Bytes(FreedOn(v)) + watched[v] * LargestSize

=============================================================================
