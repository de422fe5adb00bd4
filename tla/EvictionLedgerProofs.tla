------------------------ MODULE EvictionLedgerProofs ------------------------
(* Proofs about the eviction ledger, for every library, set of disks,       *)
(* window and bound.                                                       *)
EXTENDS EvictionLedger, TLAPS, FiniteSetTheorems, WellFoundedInduction

Entry == [volume : Volume \cup {None}, handed : Nat, gone : Nat, held : Nat]

(* Held only once the window of what is gone has ended. *)
HeldAfterWindow(E) ==
  \A k \in Key : E[k].held # 0 => E[k].gone # 0 /\ E[k].held >= DueAt(E, k)

(* Entries a ledger can have at time t. *)
EntriesFit(E, t) ==
  /\ E \in [Key -> Entry]
  /\ \A k \in Key : E[k].gone <= t
  /\ HeldAfterWindow(E)

(* Entry k of E still stands in F, or its time is over, or its card is back. *)
Stands(E, F, k) ==
  \/ F[k].gone = E[k].gone /\ F[k].volume = E[k].volume
  \/ seen.now >= DueAt(E, k)
  \/ k \in seen.library

WorldFits ==
  /\ clock \in Nat \ {0}
  /\ disk \subseteq Item /\ home \in [Item -> Volume]
  /\ scheduled \in [Item -> Nat]
  /\ \A i \in Item : scheduled[i] # 0 => i \in disk

SeenFits ==
  /\ seen \in [library : SUBSET Item, home : [Item -> Volume], located : SUBSET Item, now : Nat]
  /\ seen.located \subseteq seen.library
  /\ seen.now <= clock
  /\ pc \in {"read", "acting"} => \A i \in Item : scheduled[i] # 0 => i \in seen.library

LedgersFit ==
  /\ DOMAIN file = {"entries", "watches", "last"}
  /\ DOMAIN ledger = {"entries", "watches", "last"}
  /\ EntriesFit(file.entries, clock)
  /\ EntriesFit(ledger.entries, clock)

(* Before the cycle's ledger is saved it still has what the saved one credits. *)
SavedStands ==
  pc \in {"acting", "moving"} =>
    \A k \in Key : file.entries[k].gone # 0 =>
      Stands(file.entries, ledger.entries, k) /\ file.entries[k].gone <= seen.now

(* What a cycle has judged is not old enough to be given up.                 *)
Young ==
  pc = "acting" =>
    \A k \in Key : ledger.entries[k].gone # 0 =>
      /\ seen.now - ledger.entries[k].gone < WindowOf(k) + SettleGrace + HeldCredit
      /\ ledger.entries[k].held # 0 => seen.now - ledger.entries[k].held < HeldCredit

IInv ==
  /\ pc \in {"idle", "read", "acting", "moving"}
  /\ WorldFits /\ SeenFits /\ LedgersFit /\ SavedStands /\ Young

-----------------------------------------------------------------------------
(* What the operators of the ledger preserve. *)

(* A key is a card's or its move's, with a window.                          *)
LEMMA WindowType ==
  ASSUME NEW k \in Key
  PROVE  Card(k) \in Item /\ WindowOf(k) \in Nat
  BY LedgerAssumption DEF Key, Card, WindowOf, Moved

(* Looking at the library keeps the ledger's entries well formed. *)
LEMMA SightFits ==
  ASSUME NEW t \in Nat \ {0}, NEW E, EntriesFit(E, t), NEW library
  PROVE  EntriesFit(Sight(E, library, t), t)
<1> DEFINE S == Sight(E, library, t)
<1>1. ASSUME NEW k \in Key
      PROVE  /\ S[k] \in Entry /\ S[k].gone <= t
             /\ S[k].held # 0 => S[k].gone # 0 /\ S[k].held >= S[k].gone + WindowOf(k)
  <2>1. /\ E[k] \in Entry /\ E[k].gone <= t
        /\ E[k].held # 0 => E[k].gone # 0 /\ E[k].held >= E[k].gone + WindowOf(k)
    BY DEF EntriesFit, HeldAfterWindow, DueAt
  <2> DEFINE e == Sighted(E, k, library, t)
  <2>2. S[k] = Untracked \/ S[k] = e
    BY DEF Sight
  <2>3. Untracked \in Entry /\ Untracked.gone = 0 /\ Untracked.held = 0
    BY DEF Untracked, Entry
  <2>4. WindowOf(k) \in Nat
    BY WindowType
  <2>5. CASE E[k] = Untracked
    <3>1. S[k] = Untracked
      BY <2>2, <2>5 DEF Sighted
    <3> HIDE DEF S
    <3> QED
      BY <2>3, <3>1
  <2>6. CASE E[k] # Untracked /\ k \in library
    <3>1. e = [E[k] EXCEPT !.gone = 0, !.held = 0]
      BY <2>6 DEF Sighted
    <3> HIDE DEF e
    <3>2. e \in Entry /\ e.gone = 0 /\ e.held = 0
      BY <2>1, <3>1 DEF Entry
    <3> HIDE DEF S
    <3> QED
      BY <2>2, <2>3, <3>2
  <2>7. CASE E[k] # Untracked /\ k \notin library
    <3>1. e = [E[k] EXCEPT !.gone = IF @ = 0 THEN t ELSE @]
      BY <2>7 DEF Sighted
    <3> HIDE DEF e
    <3>2. e \in Entry /\ e.held = E[k].held /\ e.gone = IF E[k].gone = 0 THEN t ELSE E[k].gone
      BY <2>1, <3>1 DEF Entry
    <3> HIDE DEF S
    <3> QED
      BY <2>1, <2>2, <2>3, <2>4, <3>2 DEF Entry
  <2> QED
    BY <2>5, <2>6, <2>7
<1>2. S \in [Key -> Entry]
  BY <1>1 DEF Sight
<1> QED
  BY <1>1, <1>2 DEF EntriesFit, HeldAfterWindow, DueAt

(* Looking at the library forgets no credit before its window ends. *)
LEMMA SightKeeps ==
  ASSUME NEW t \in Nat \ {0}, NEW E, EntriesFit(E, t), NEW library,
         NEW k \in Key, E[k].gone # 0, k \notin library
  PROVE  Sight(E, library, t)[k] = E[k] \/ t >= DueAt(E, k)
<1>1. /\ E[k] \in Entry /\ E[k].gone <= t
      /\ E[k].held # 0 => E[k].held >= E[k].gone + WindowOf(k)
      /\ WindowOf(k) \in Nat
  BY WindowType DEF EntriesFit, HeldAfterWindow, DueAt
<1>2. Sighted(E, k, library, t) = E[k]
  BY <1>1 DEF Sighted, Untracked, Entry
<1>3. GivenUp(E[k], k, t) => t >= DueAt(E, k)
  BY <1>1, LedgerAssumption DEF GivenUp, DueAt, Entry
<1> QED
  BY <1>2, <1>3 DEF Sight

(* What is credited after a look is not old enough to be given up. *)
LEMMA SightEnds ==
  ASSUME NEW t \in Nat \ {0}, NEW E, EntriesFit(E, t), NEW library,
         NEW k \in Key, Sight(E, library, t)[k].gone # 0
  PROVE  /\ t - Sight(E, library, t)[k].gone < WindowOf(k) + SettleGrace + HeldCredit
         /\ Sight(E, library, t)[k].held # 0 => t - Sight(E, library, t)[k].held < HeldCredit
<1> DEFINE e == Sight(E, library, t)[k]
<1>1. e \in Entry /\ WindowOf(k) \in Nat
  BY SightFits, WindowType DEF EntriesFit
<1>2. ~GivenUp(e, k, t)
  BY DEF Sight, Untracked
<1> QED
  BY <1>1, <1>2, LedgerAssumption DEF GivenUp, Entry

(* What settling a disk ends or holds was due. *)
LEMMA SettleDue ==
  ASSUME NEW L, NEW v, NEW used, NEW library, NEW t,
         NEW k \in Settle(L, v, used, library, t).ended \cup Settle(L, v, used, library, t).late
  PROVE  /\ k \in Key /\ L.entries[k].gone # 0 /\ t >= DueAt(L.entries, k)
         /\ k \in Settle(L, v, used, library, t).late => t - DueAt(L.entries, k) >= SettleGrace
  BY DEF Settle, DueNow, Gone

(* What a cycle's verdicts end or hold was due.                             *)
LEMMA VerdictsDue ==
  ASSUME NEW L, NEW measured, NEW t, NEW v \in DOMAIN Verdicts(L, measured, t),
         NEW k \in Verdicts(L, measured, t)[v].ended \cup Verdicts(L, measured, t)[v].late
  PROVE  /\ k \in Key /\ L.entries[k].gone # 0 /\ t >= DueAt(L.entries, k)
         /\ k \in Verdicts(L, measured, t)[v].late => t - DueAt(L.entries, k) >= SettleGrace
  BY SettleDue DEF Verdicts

(* Settling leaves an entry, ends it once due, or holds what is due. *)
LEMMA SettledEntry ==
  ASSUME NEW L, NEW measured, NEW t, NEW k \in Key
  PROVE  LET now == Settled(L, Verdicts(L, measured, t), t).entries[k]
         IN  \/ now = L.entries[k]
             \/ now = Untracked /\ L.entries[k].gone # 0 /\ t >= DueAt(L.entries, k)
             \/ /\ now = [L.entries[k] EXCEPT !.held = t]
                /\ L.entries[k].gone # 0 /\ t >= DueAt(L.entries, k)
<1> DEFINE V == Verdicts(L, measured, t)
           ended == UNION {V[v].ended : v \in DOMAIN V}
           late == UNION {V[v].late : v \in DOMAIN V}
<1>1. k \in ended \cup late => L.entries[k].gone # 0 /\ t >= DueAt(L.entries, k)
  BY VerdictsDue
<1>2. Settled(L, V, t).entries[k] = IF k \in ended THEN Untracked
                                    ELSE IF k \in late THEN [L.entries[k] EXCEPT !.held = t]
                                    ELSE L.entries[k]
  BY DEF Settled
<1> QED
  BY <1>1, <1>2

(* Settling keeps the ledger's entries well formed. *)
LEMMA SettledFits ==
  ASSUME NEW t \in Nat \ {0}, NEW L, EntriesFit(L.entries, t), NEW measured
  PROVE  EntriesFit(Settled(L, Verdicts(L, measured, t), t).entries, t)
<1> DEFINE S == Settled(L, Verdicts(L, measured, t), t).entries
<1>1. ASSUME NEW k \in Key
      PROVE  /\ S[k] \in Entry /\ S[k].gone <= t
             /\ S[k].held # 0 => S[k].gone # 0 /\ S[k].held >= S[k].gone + WindowOf(k)
  <2>1. /\ L.entries[k] \in Entry /\ L.entries[k].gone <= t
        /\ L.entries[k].held # 0 =>
             L.entries[k].gone # 0 /\ L.entries[k].held >= L.entries[k].gone + WindowOf(k)
    BY DEF EntriesFit, HeldAfterWindow, DueAt
  <2>2. \/ S[k] = L.entries[k]
        \/ S[k] = Untracked
        \/ /\ S[k] = [L.entries[k] EXCEPT !.held = t]
           /\ L.entries[k].gone # 0 /\ t >= L.entries[k].gone + WindowOf(k)
    BY SettledEntry DEF DueAt
  <2>3. Untracked \in Entry /\ Untracked.gone = 0 /\ Untracked.held = 0
    BY DEF Untracked, Entry
  <2> HIDE DEF S
  <2> QED
    BY <2>1, <2>2, <2>3 DEF Entry
<1>2. S = [k \in Key |-> S[k]]
  BY DEF Settled
<1> HIDE DEF S
<1>3. S \in [Key -> Entry]
  BY <1>1, <1>2
<1> QED
  BY <1>1, <1>3 DEF S, EntriesFit, HeldAfterWindow, DueAt

(* Booking or recording an entry that is not gone leaves it not gone. *)
LEMMA RecordFits ==
  ASSUME NEW e \in Entry, NEW v \in Volume, NEW at \in Nat
  PROVE  /\ Recorded(e, v, at) = e \/ (Recorded(e, v, at).gone = 0 /\ Recorded(e, v, at).held = 0)
         /\ Recorded(e, v, at) \in Entry
  BY DEF Recorded, Eviction, Entry

(* `book` keeps an entry, or leaves one that is not gone.                   *)
LEMMA BookFits ==
  ASSUME NEW e \in Entry, NEW v \in Volume, NEW at \in Nat, NEW t \in Nat,
         e.held # 0 => e.gone # 0
  PROVE  /\ Booked(e, v, at, t) = e \/ (Booked(e, v, at, t).gone = 0 /\ Booked(e, v, at, t).held = 0)
         /\ Booked(e, v, at, t) \in Entry
<1>1. CASE e.gone = 0
  <2>1. [e EXCEPT !.volume = v] \in Entry /\ [e EXCEPT !.volume = v].gone = 0
        /\ [e EXCEPT !.volume = v].held = 0
    BY <1>1 DEF Entry
  <2> QED
    BY <2>1, RecordFits DEF Booked
<1>2. CASE e.gone # 0
  BY <1>2, RecordFits DEF Booked
<1> QED
  BY <1>1, <1>2

(* Changing entries to ones that are not gone keeps them well formed. *)
LEMMA FitsWhere ==
  ASSUME NEW t \in Nat, NEW E, EntriesFit(E, t), NEW F \in [Key -> Entry],
         \A k \in Key : F[k] = E[k] \/ (F[k].gone = 0 /\ F[k].held = 0)
  PROVE  EntriesFit(F, t)
  BY DEF EntriesFit, HeldAfterWindow, DueAt, Entry

(* Time passing leaves a ledger well formed.                                *)
LEMMA FitsLater ==
  ASSUME NEW t \in Nat, NEW u \in Nat, t <= u, NEW E, EntriesFit(E, t)
  PROVE  EntriesFit(E, u)
<1>1. \A k \in Key : E[k].gone \in Nat
  BY DEF EntriesFit, Entry
<1> QED
  BY <1>1 DEF EntriesFit

(* A ledger that reads as empty is well formed.                             *)
LEMMA EmptyFits ==
  ASSUME NEW t \in Nat
  PROVE  EntriesFit(Empty.entries, t) /\ DOMAIN Empty = {"entries", "watches", "last"}
<1>1. Empty.entries = [k \in Key |-> Untracked]
  BY DEF Empty
<1>2. Untracked \in Entry /\ Untracked.gone = 0 /\ Untracked.held = 0
  BY DEF Untracked, Entry
<1>3. DOMAIN Empty = {"entries", "watches", "last"}
  BY DEF Empty
<1> QED
  BY <1>1, <1>2, <1>3 DEF EntriesFit, HeldAfterWindow

-----------------------------------------------------------------------------
(* The inductive invariant. *)

(* The strengthened invariant holds at the start.                           *)
LEMMA InitInv == Init => IInv
<1> SUFFICES ASSUME Init PROVE IInv
  OBVIOUS
<1>1. WorldFits /\ SeenFits
  BY LedgerAssumption DEF Init, WorldFits, SeenFits, Nothing
<1>2. file.entries = Empty.entries /\ DOMAIN file = {"entries", "watches", "last"}
  BY DEF Init, Empty
<1>3. clock \in Nat /\ ledger = file /\ pc = "idle"
  BY DEF Init
<1>4. LedgersFit
  BY <1>2, <1>3, EmptyFits DEF LedgersFit
<1> QED
  BY <1>1, <1>3, <1>4 DEF IInv, SavedStands, Young

(* Reading the library keeps the strengthened invariant.                    *)
LEMMA ReadLibraryInv == IInv /\ ReadLibrary => IInv'
<1> SUFFICES ASSUME IInv, ReadLibrary PROVE IInv'
  OBVIOUS
<1>1. seen' = [library |-> disk, home |-> home, located |-> {}, now |-> 0] /\ pc' = "read"
  BY DEF ReadLibrary, Nothing
<1>2. WorldFits' /\ SeenFits'
  <2>1. clock' = clock /\ disk' = disk /\ home' = home /\ scheduled' = scheduled
    BY DEF ReadLibrary, world
  <2>2. seen'.library = disk /\ seen'.located = {} /\ seen'.now = 0
    BY <1>1
  <2> QED
    BY <1>1, <2>1, <2>2 DEF IInv, WorldFits, SeenFits
<1>3. LedgersFit'
  BY DEF IInv, LedgersFit, EntriesFit, HeldAfterWindow, DueAt, ReadLibrary
<1> QED
  BY <1>1, <1>2, <1>3 DEF IInv, SavedStands, Young

(* A reading of the disks keeps it: what is no longer credited was due.     *)
LEMMA ObserveInv == IInv /\ Observe => IInv'
<1> SUFFICES ASSUME IInv, Observe PROVE IInv'
  OBVIOUS
<1>1. PICK answered \in SUBSET Volume :
      \E located \in SUBSET UNION {LibraryOn(v) : v \in answered} :
        LET on(v)    == Bytes(LibraryOn(v) \cap located)
            measured == [v \in answered |-> [used |-> Used(v), library |-> on(v)]]
            sighted  == [file EXCEPT !.entries = Sight(file.entries, seen.library, clock)]
        IN  /\ ledger' = Settled(sighted, Verdicts(sighted, measured, clock), clock)
            /\ seen' = [seen EXCEPT !.located = located, !.now = clock]
  BY DEF Observe
<1>2. PICK located, measured :
        LET sighted == [file EXCEPT !.entries = Sight(file.entries, seen.library, clock)]
        IN  /\ located \in SUBSET UNION {LibraryOn(v) : v \in answered}
            /\ ledger' = Settled(sighted, Verdicts(sighted, measured, clock), clock)
            /\ seen' = [seen EXCEPT !.located = located, !.now = clock]
  BY <1>1
<1> DEFINE sighted == [file EXCEPT !.entries = Sight(file.entries, seen.library, clock)]
<1>3. /\ pc = "read" /\ pc' = "acting"
      /\ UNCHANGED <<clock, world, file>>
  BY DEF Observe
<1>4. sighted.entries = Sight(file.entries, seen.library, clock)
  BY DEF IInv, LedgersFit
<1>5. clock \in Nat \ {0} /\ EntriesFit(file.entries, clock)
  BY DEF IInv, WorldFits, LedgersFit
<1>6. EntriesFit(sighted.entries, clock)
  BY <1>4, <1>5, SightFits
<1>7. ledger' = Settled(sighted, Verdicts(sighted, measured, clock), clock)
  BY <1>2
<1> HIDE DEF sighted
<1>8. located \in SUBSET seen.library
  BY <1>2 DEF LibraryOn
<1>9. seen' = [seen EXCEPT !.located = located, !.now = clock]
  BY <1>2
<1>10. /\ seen.library \in SUBSET Item /\ seen'.library = seen.library
       /\ seen'.located = located /\ seen'.now = clock /\ seen'.home = seen.home
       /\ seen' \in [library : SUBSET Item, home : [Item -> Volume], located : SUBSET Item, now : Nat]
  BY <1>5, <1>8, <1>9 DEF IInv, SeenFits
<1>11. WorldFits' /\ SeenFits'
  BY <1>3, <1>5, <1>8, <1>10 DEF IInv, WorldFits, SeenFits, world
<1>12. LedgersFit'
  <2>1. EntriesFit(ledger'.entries, clock)
    BY <1>5, <1>6, <1>7, SettledFits
  <2>2. DOMAIN ledger' = {"entries", "watches", "last"}
    BY <1>7 DEF Settled
  <2> QED
    BY <1>3, <2>1, <2>2 DEF IInv, LedgersFit, EntriesFit, HeldAfterWindow, DueAt
<1>13. SavedStands'
  <2> SUFFICES ASSUME NEW k \in Key, file.entries[k].gone # 0, k \notin seen.library
               PROVE  /\ file.entries[k].gone <= clock
                      /\ \/ /\ ledger'.entries[k].gone = file.entries[k].gone
                            /\ ledger'.entries[k].volume = file.entries[k].volume
                         \/ clock >= DueAt(file.entries, k)
    BY <1>3, <1>5, <1>10 DEF SavedStands, Stands, DueAt, EntriesFit
  <2>1. file.entries[k].gone <= clock /\ file.entries[k] \in Entry
    BY <1>5 DEF EntriesFit
  <2>2. sighted.entries[k] = file.entries[k] \/ clock >= DueAt(file.entries, k)
    BY <1>4, <1>5, SightKeeps
  <2>3. \/ ledger'.entries[k] = sighted.entries[k]
        \/ clock >= sighted.entries[k].gone + WindowOf(k)
    BY <1>7, SettledEntry DEF DueAt
  <2> QED
    BY <2>1, <2>2, <2>3 DEF DueAt
<1>14. Young'
  <2> SUFFICES ASSUME NEW k \in Key, ledger'.entries[k].gone # 0
               PROVE  /\ clock - ledger'.entries[k].gone < WindowOf(k) + SettleGrace + HeldCredit
                      /\ ledger'.entries[k].held # 0 => clock - ledger'.entries[k].held < HeldCredit
    BY <1>10 DEF Young
  <2>1. sighted.entries[k] \in Entry
    BY <1>6 DEF EntriesFit
  <2>2. sighted.entries[k].gone # 0 =>
          /\ clock - sighted.entries[k].gone < WindowOf(k) + SettleGrace + HeldCredit
          /\ sighted.entries[k].held # 0 => clock - sighted.entries[k].held < HeldCredit
    BY <1>4, <1>5, SightEnds
  <2>3. \/ ledger'.entries[k] = sighted.entries[k]
        \/ ledger'.entries[k] = Untracked
        \/ ledger'.entries[k] = [sighted.entries[k] EXCEPT !.held = clock]
    BY <1>7, SettledEntry
  <2> QED
    BY <1>5, <2>1, <2>2, <2>3, LedgerAssumption DEF Entry, Untracked
<1> QED
  BY <1>3, <1>11, <1>12, <1>13, <1>14 DEF IInv

(* The hand-off to Maintainerr keeps it.                                    *)
LEMMA HandOffInv == IInv /\ HandOff => IInv'
<1> SUFFICES ASSUME IInv, HandOff PROVE IInv'
  OBVIOUS
<1>1. PICK back \in SUBSET {i \in Item : scheduled[i] # 0},
           added \in SUBSET {i \in seen.located : scheduled[i] = 0} :
        LET held(i) == IF i \in back THEN 0 ELSE IF i \in added THEN seen.now ELSE scheduled[i]
            kept(k) == IF k \in back THEN Untracked ELSE ledger.entries[k]
        IN  /\ scheduled' = [i \in Item |-> IF i \in disk THEN held(i) ELSE 0]
            /\ ledger' = [ledger EXCEPT !.entries =
                 [k \in Key |-> IF k \in seen.located /\ held(k) # 0
                                THEN Booked(kept(k), seen.home[k], held(k), seen.now)
                                ELSE kept(k)]]
  BY DEF HandOff
<1> DEFINE held(i) == IF i \in back THEN 0 ELSE IF i \in added THEN seen.now ELSE scheduled[i]
           kept(k) == IF k \in back THEN Untracked ELSE ledger.entries[k]
           entries == [k \in Key |-> IF k \in seen.located /\ held(k) # 0
                                     THEN Booked(kept(k), seen.home[k], held(k), seen.now)
                                     ELSE kept(k)]
<1>2. /\ pc = "acting" /\ pc' = "moving"
      /\ clock' = clock /\ disk' = disk /\ home' = home /\ file' = file /\ seen' = seen
      /\ scheduled' = [i \in Item |-> IF i \in disk THEN held(i) ELSE 0]
      /\ ledger' = [ledger EXCEPT !.entries = entries]
  BY <1>1 DEF HandOff
<1>3. /\ seen.now \in Nat /\ seen.located \subseteq Item /\ seen.located \subseteq seen.library
      /\ seen.home \in [Item -> Volume] /\ scheduled \in [Item -> Nat]
      /\ back \subseteq seen.library /\ back \subseteq Item
  BY <1>2 DEF IInv, SeenFits, WorldFits
<1>4. ledger'.entries = entries /\ DOMAIN ledger' = {"entries", "watches", "last"}
  BY <1>2 DEF IInv, LedgersFit
<1>5. ASSUME NEW k \in Key
      PROVE  /\ entries[k] \in Entry
             /\ entries[k] = ledger.entries[k] \/ (entries[k].gone = 0 /\ entries[k].held = 0)
             /\ k \notin seen.library => entries[k] = ledger.entries[k]
  <2>1. ledger.entries[k] \in Entry /\ (ledger.entries[k].held # 0 => ledger.entries[k].gone # 0)
    BY DEF IInv, LedgersFit, EntriesFit, HeldAfterWindow
  <2>2. Untracked \in Entry /\ Untracked.gone = 0 /\ Untracked.held = 0
    BY DEF Untracked, Entry
  <2>3. kept(k) \in Entry /\ (kept(k).held # 0 => kept(k).gone # 0)
    BY <2>1, <2>2
  <2>4. CASE k \in seen.located /\ held(k) # 0
    <3>1. seen.home[k] \in Volume /\ held(k) \in Nat
      BY <1>3, <2>4
    <3>2. entries[k] = Booked(kept(k), seen.home[k], held(k), seen.now)
      BY <2>4
    <3> HIDE DEF entries, kept, held
    <3>3. entries[k] \in Entry
          /\ (entries[k] = kept(k) \/ (entries[k].gone = 0 /\ entries[k].held = 0))
      BY <1>3, <2>3, <3>1, <3>2, BookFits
    <3> QED
      BY <1>3, <2>2, <2>4, <3>3 DEF kept
  <2>5. CASE ~(k \in seen.located /\ held(k) # 0)
    <3>1. entries[k] = kept(k)
      BY <2>5
    <3> HIDE DEF entries, held
    <3> QED
      BY <1>3, <2>1, <2>2, <3>1
  <2> QED
    BY <2>4, <2>5
<1>6. entries \in [Key -> Entry]
  BY <1>5
<1> HIDE DEF entries
<1>7. clock \in Nat /\ EntriesFit(ledger.entries, clock)
  BY DEF IInv, WorldFits, LedgersFit
<1>8. EntriesFit(entries, clock)
  BY <1>5, <1>6, <1>7, FitsWhere
<1>9. LedgersFit'
  BY <1>2, <1>4, <1>8 DEF IInv, LedgersFit, EntriesFit, HeldAfterWindow, DueAt
<1>10. WorldFits' /\ SeenFits'
  BY <1>2, <1>3 DEF IInv, WorldFits, SeenFits
<1>11. SavedStands'
  BY <1>2, <1>4, <1>5 DEF IInv, SavedStands, Stands, DueAt
<1> QED
  BY <1>2, <1>9, <1>10, <1>11 DEF IInv, Young

(* A card FLINCH deletes keeps it.                                          *)
LEMMA EvictInv == ASSUME NEW i \in Item PROVE IInv /\ Evict(i) => IInv'
<1> SUFFICES ASSUME IInv, Evict(i) PROVE IInv'
  OBVIOUS
<1> DEFINE entry == Recorded(ledger.entries[i], seen.home[i], seen.now)
           entries == [ledger.entries EXCEPT ![i] = entry]
<1>1. /\ pc = "acting" /\ pc' = pc /\ i \in disk /\ i \in seen.located
      /\ clock' = clock /\ home' = home /\ file' = file /\ seen' = seen
      /\ disk' = disk \ {i} /\ scheduled' = [scheduled EXCEPT ![i] = 0]
      /\ ledger' = [ledger EXCEPT !.entries = entries]
  BY DEF Evict
<1>2. i \in Key /\ i \in seen.library /\ seen.home[i] \in Volume /\ seen.now \in Nat
  BY <1>1 DEF Key, IInv, SeenFits
<1>3. ledger'.entries = entries /\ DOMAIN ledger' = {"entries", "watches", "last"}
  BY <1>1 DEF IInv, LedgersFit
<1>4. clock \in Nat /\ EntriesFit(ledger.entries, clock) /\ ledger.entries \in [Key -> Entry]
  BY DEF IInv, WorldFits, LedgersFit, EntriesFit
<1>5. /\ entry \in Entry
      /\ entry = ledger.entries[i] \/ (entry.gone = 0 /\ entry.held = 0)
  BY <1>2, <1>4, RecordFits
<1> HIDE DEF entry
<1>6. /\ entries \in [Key -> Entry]
      /\ \A k \in Key : entries[k] = ledger.entries[k] \/ (entries[k].gone = 0 /\ entries[k].held = 0)
      /\ \A k \in Key : k # i => entries[k] = ledger.entries[k]
  BY <1>2, <1>4, <1>5
<1> HIDE DEF entries
<1>7. EntriesFit(entries, clock)
  BY <1>4, <1>6, FitsWhere
<1>8. LedgersFit'
  BY <1>1, <1>3, <1>7 DEF IInv, LedgersFit, EntriesFit, HeldAfterWindow, DueAt
<1>9. WorldFits' /\ SeenFits'
  BY <1>1 DEF IInv, WorldFits, SeenFits
<1>10. SavedStands'
  BY <1>1, <1>2, <1>3, <1>6 DEF IInv, SavedStands, Stands, DueAt
<1>11. Young'
  BY <1>1, <1>3, <1>6 DEF IInv, Young
<1> QED
  BY <1>1, <1>8, <1>9, <1>10, <1>11 DEF IInv

(* A move overwrites an older one of its card, whose window has ended. *)
LEMMA MoveInv == ASSUME NEW i \in Item PROVE IInv /\ MoveToArchive(i) => IInv'
<1> SUFFICES ASSUME IInv, MoveToArchive(i) PROVE IInv'
  OBVIOUS
<1> DEFINE entry == RecordedMove(seen.home[i], seen.now)
           entries == [ledger.entries EXCEPT ![-i] = entry]
<1>1. /\ pc = "moving" /\ pc' = pc
      /\ clock' = clock /\ disk' = disk /\ scheduled' = scheduled /\ file' = file /\ seen' = seen
      /\ home' = [home EXCEPT ![i] = Archive] /\ Archive \in Volume
      /\ ledger' = [ledger EXCEPT !.entries = entries]
  BY LedgerAssumption DEF MoveToArchive
<1>2. /\ seen.home[i] \in Volume /\ seen.now \in Nat /\ seen.now <= clock
      /\ clock \in Nat /\ EntriesFit(ledger.entries, clock) /\ ledger.entries \in [Key -> Entry]
  BY DEF IInv, SeenFits, WorldFits, LedgersFit, EntriesFit
<1>3. -i \in Key /\ WindowOf(-i) = 0
  BY LedgerAssumption DEF Key, WindowOf, Moved
<1>4. ledger'.entries = entries /\ DOMAIN ledger' = {"entries", "watches", "last"}
  BY <1>1 DEF IInv, LedgersFit
<1>5. entry \in Entry /\ entry.gone = seen.now /\ entry.held = 0
  BY <1>2 DEF RecordedMove, Eviction, Entry
<1> HIDE DEF entry
<1>6. /\ entries \in [Key -> Entry]
      /\ \A k \in Key : k # -i => entries[k] = ledger.entries[k]
      /\ entries[-i] = entry
  BY <1>2, <1>3, <1>5
<1> HIDE DEF entries
<1>7. EntriesFit(entries, clock)
  BY <1>2, <1>5, <1>6 DEF EntriesFit, HeldAfterWindow, DueAt
<1>8. LedgersFit'
  BY <1>1, <1>4, <1>7 DEF IInv, LedgersFit, EntriesFit, HeldAfterWindow, DueAt
<1>9. WorldFits' /\ SeenFits'
  BY <1>1 DEF IInv, WorldFits, SeenFits
<1>10. SavedStands'
  <2> SUFFICES ASSUME NEW k \in Key, file.entries[k].gone # 0
               PROVE  Stands(file.entries, entries, k) /\ file.entries[k].gone <= seen.now
    BY <1>1, <1>4 DEF SavedStands, Stands, DueAt
  <2>1. Stands(file.entries, ledger.entries, k) /\ file.entries[k].gone <= seen.now
    BY <1>1 DEF IInv, SavedStands
  <2>2. CASE k = -i
    <3>1. file.entries[k].gone \in Nat
      BY DEF IInv, LedgersFit, EntriesFit, Entry
    <3> QED
      BY <1>2, <1>3, <2>1, <2>2, <3>1 DEF Stands, DueAt
  <2>3. CASE k # -i
    BY <1>6, <2>1, <2>3 DEF Stands
  <2> QED
    BY <2>2, <2>3
<1> QED
  BY <1>1, <1>8, <1>9, <1>10 DEF IInv, Young

(* Saving, stopping, or losing the file leaves a ledger that fits. *)
LEMMA FileInv ==
  ASSUME IInv, UNCHANGED <<clock, world>>, pc' = "idle",
         file' = file \/ file' = ledger \/ file' = Empty, ledger' = file',
         seen' = Nothing \/ seen' = seen
  PROVE  IInv'
<1>1. clock \in Nat /\ clock' = clock
  BY DEF IInv, WorldFits
<1>2. EntriesFit(file'.entries, clock) /\ DOMAIN file' = {"entries", "watches", "last"}
  BY <1>1, EmptyFits DEF IInv, LedgersFit
<1>3. LedgersFit'
  BY <1>1, <1>2 DEF LedgersFit, EntriesFit, HeldAfterWindow, DueAt
<1>4. /\ Nothing \in [library : SUBSET Item, home : [Item -> Volume], located : SUBSET Item, now : Nat]
      /\ Nothing.located = {} /\ Nothing.now = 0
  BY LedgerAssumption DEF Nothing
<1>5. WorldFits' /\ SeenFits'
  BY <1>1, <1>4 DEF IInv, WorldFits, SeenFits, world
<1> QED
  BY <1>3, <1>5 DEF IInv, SavedStands, Young

(* People, other software and time touch neither ledger nor cycle, and only  *)
(* take memberships away.                                                    *)
LEMMA OthersInv ==
  ASSUME IInv, UNCHANGED daemon,
         clock' \in Nat, clock' >= clock,
         disk' \subseteq Item, home' = home,
         scheduled' \in [Item -> Nat],
         \A i \in Item : scheduled'[i] # 0 => scheduled[i] # 0 /\ i \in disk'
  PROVE  IInv'
<1>1. /\ file' = file /\ ledger' = ledger /\ seen' = seen /\ pc' = pc
      /\ clock \in Nat \ {0}
  BY DEF daemon, IInv, WorldFits
<1>2. EntriesFit(file.entries, clock') /\ EntriesFit(ledger.entries, clock')
  BY <1>1, FitsLater DEF IInv, LedgersFit
<1>3. LedgersFit'
  BY <1>1, <1>2 DEF IInv, LedgersFit, EntriesFit, HeldAfterWindow, DueAt
<1>4. WorldFits' /\ SeenFits'
  BY <1>1 DEF IInv, WorldFits, SeenFits
<1>5. SavedStands'
  BY <1>1 DEF IInv, SavedStands, Stands, DueAt
<1>6. Young'
  BY <1>1 DEF IInv, Young
<1> QED
  BY <1>1, <1>3, <1>4, <1>5, <1>6 DEF IInv

(* What happens outside the daemon keeps it.                                *)
LEMMA WorldInv == IInv /\ World => IInv'
<1> SUFFICES ASSUME IInv, World PROVE IInv'
  OBVIOUS
<1>1. /\ clock \in Nat /\ disk \subseteq Item /\ scheduled \in [Item -> Nat]
      /\ \A i \in Item : scheduled[i] # 0 => i \in disk
  BY DEF IInv, WorldFits
<1>2. ASSUME NEW i \in Item, Deleted(i) PROVE IInv'
  <2>1. /\ UNCHANGED daemon /\ clock' = clock /\ home' = home
        /\ disk' = disk \ {i} /\ scheduled' = [scheduled EXCEPT ![i] = 0]
    BY <1>2 DEF Deleted
  <2> QED
    BY <1>1, <2>1, OthersInv
<1>3. ASSUME NEW i \in Item, Redownload(i) PROVE IInv'
  BY <1>1, <1>3, OthersInv DEF Redownload
<1>4. ASSUME NEW i \in Item, NEW v \in Volume, Frees(i, v) PROVE IInv'
  BY <1>1, <1>4, OthersInv DEF Frees
<1>5. ASSUME NEW v \in Volume, Download(v) \/ Import(v) PROVE IInv'
  BY <1>1, <1>5, OthersInv DEF Download, Import
<1> QED
  BY <1>2, <1>3, <1>4, <1>5 DEF World

(* A step of nothing keeps it.                                              *)
LEMMA StutterInv == IInv /\ UNCHANGED vars => IInv'
<1> SUFFICES ASSUME IInv, UNCHANGED vars PROVE IInv'
  OBVIOUS
<1>1. /\ clock \in Nat /\ disk \subseteq Item /\ scheduled \in [Item -> Nat]
      /\ \A i \in Item : scheduled[i] # 0 => i \in disk
  BY DEF IInv, WorldFits
<1> QED
  BY <1>1, OthersInv DEF vars, world, daemon

(* Every step keeps it.                                                     *)
LEMMA NextInv == IInv /\ [Next]_vars => IInv'
<1> SUFFICES ASSUME IInv, [Next]_vars PROVE IInv'
  OBVIOUS
<1>1. CASE ReadLibrary
  BY <1>1, ReadLibraryInv
<1>2. CASE Observe
  BY <1>2, ObserveInv
<1>3. CASE HandOff
  BY <1>3, HandOffInv
<1>4. CASE Unreadable
  <2>1. /\ pc = "acting" /\ pc' = "moving" /\ clock' = clock /\ file' = file /\ ledger' = ledger
        /\ seen' = seen /\ disk' = disk /\ home' = home /\ scheduled' = scheduled
    BY <1>4 DEF Unreadable, world
  <2>2. LedgersFit'
    BY <2>1 DEF IInv, LedgersFit, EntriesFit, HeldAfterWindow, DueAt
  <2>3. WorldFits' /\ SeenFits'
    BY <2>1 DEF IInv, WorldFits, SeenFits
  <2>4. SavedStands'
    BY <2>1 DEF IInv, SavedStands, Stands, DueAt
  <2> QED
    BY <2>1, <2>2, <2>3, <2>4 DEF IInv, Young
<1>5. ASSUME NEW i \in Item, Evict(i) \/ MoveToArchive(i) PROVE IInv'
  BY <1>5, EvictInv, MoveInv
<1>6. CASE Save
  BY <1>6, FileInv DEF Save, world
<1>7. CASE Stop
  BY <1>7, FileInv DEF Stop, world
<1>8. CASE LoseFile
  BY <1>8, FileInv DEF LoseFile, world
<1>9. CASE World
  BY <1>9, WorldInv
<1>10. CASE Tick
  <2>1. /\ clock \in Nat \ {0} /\ disk \subseteq Item /\ scheduled \in [Item -> Nat]
        /\ \A i \in Item : scheduled[i] # 0 => i \in disk
    BY DEF IInv, WorldFits
  <2>2. /\ UNCHANGED daemon /\ clock' = clock + 1
        /\ disk' = disk /\ home' = home /\ scheduled' = scheduled
    BY <1>10 DEF Tick, world
  <2> QED
    BY <2>1, <2>2, OthersInv
<1>11. CASE UNCHANGED vars
  BY <1>11, StutterInv
<1> QED
  BY <1>1, <1>2, <1>3, <1>4, <1>5, <1>6, <1>7, <1>8, <1>9, <1>10, <1>11 DEF Next, Cycle

-----------------------------------------------------------------------------
(* The results. *)

(* The strengthened invariant holds in every behaviour.                     *)
THEOREM LedgerInvariant == Spec => []IInv
  BY InitInv, NextInv, PTL DEF Spec

(* When the credit of a key was first saved its card had been stamped gone,  *)
(* and no cycle since has stamped it later.                                  *)
SinceFits ==
  /\ since \in [Key -> Nat]
  /\ \A k \in Key : since[k] # 0 => file.entries[k].gone # 0 /\ file.entries[k].gone <= since[k]
  /\ pc \in {"acting", "moving"} =>
       \A k \in Key :
         /\ ledger.entries[k].gone <= seen.now
         /\ since[k] # 0 /\ ledger.entries[k].gone # 0 => ledger.entries[k].gone <= since[k]

(* A cycle's reading stamps no credit of the file again.                     *)
LEMMA ObserveGone ==
  ASSUME IInv, Observe
  PROVE  /\ \A k \in Key : file.entries[k].gone # 0 => ledger'.entries[k].gone \in {0, file.entries[k].gone}
         /\ seen'.now = clock
<1>1. PICK answered \in SUBSET Volume :
      \E located \in SUBSET UNION {LibraryOn(v) : v \in answered} :
        LET on(v)    == Bytes(LibraryOn(v) \cap located)
            measured == [v \in answered |-> [used |-> Used(v), library |-> on(v)]]
            sighted  == [file EXCEPT !.entries = Sight(file.entries, seen.library, clock)]
        IN  /\ ledger' = Settled(sighted, Verdicts(sighted, measured, clock), clock)
            /\ seen' = [seen EXCEPT !.located = located, !.now = clock]
  BY DEF Observe
<1>2. PICK located, measured :
        LET sighted == [file EXCEPT !.entries = Sight(file.entries, seen.library, clock)]
        IN  /\ ledger' = Settled(sighted, Verdicts(sighted, measured, clock), clock)
            /\ seen' = [seen EXCEPT !.located = located, !.now = clock]
  BY <1>1
<1> DEFINE sighted == [file EXCEPT !.entries = Sight(file.entries, seen.library, clock)]
<1>3. sighted.entries = Sight(file.entries, seen.library, clock)
  BY DEF IInv, LedgersFit
<1>4. ledger' = Settled(sighted, Verdicts(sighted, measured, clock), clock)
  BY <1>2
<1>5. clock \in Nat \ {0} /\ EntriesFit(file.entries, clock)
  BY DEF IInv, WorldFits, LedgersFit
<1>6. EntriesFit(sighted.entries, clock)
  BY <1>3, <1>5, SightFits
<1> HIDE DEF sighted
<1>7. ASSUME NEW k \in Key, file.entries[k].gone # 0
      PROVE  ledger'.entries[k].gone \in {0, file.entries[k].gone}
  <2>1. file.entries[k] \in Entry /\ sighted.entries[k] \in Entry
    BY <1>5, <1>6 DEF EntriesFit
  <2>2. sighted.entries[k].gone \in {0, file.entries[k].gone}
    <3>1. Sighted(file.entries, k, seen.library, clock).gone \in {0, file.entries[k].gone}
      BY <1>7, <2>1 DEF Sighted, Untracked, Entry
    <3> QED
      BY <1>3, <3>1 DEF Sight, Untracked
  <2>3. \/ ledger'.entries[k] = sighted.entries[k]
        \/ ledger'.entries[k] = Untracked
        \/ ledger'.entries[k] = [sighted.entries[k] EXCEPT !.held = clock]
    BY <1>4, SettledEntry
  <2> QED
    BY <2>1, <2>2, <2>3 DEF Entry, Untracked
<1>8. seen'.now = clock
  BY <1>2 DEF IInv, SeenFits
<1> QED
  BY <1>7, <1>8

(* Nor does the hand-off, which takes credit back or moves what has none.    *)
LEMMA HandOffGone ==
  ASSUME IInv, HandOff
  PROVE  \A k \in Key : ledger'.entries[k].gone \in {0, ledger.entries[k].gone}
<1>1. PICK back \in SUBSET {i \in Item : scheduled[i] # 0},
           added \in SUBSET {i \in seen.located : scheduled[i] = 0} :
        LET held(i) == IF i \in back THEN 0 ELSE IF i \in added THEN seen.now ELSE scheduled[i]
            kept(k) == IF k \in back THEN Untracked ELSE ledger.entries[k]
        IN  ledger' = [ledger EXCEPT !.entries =
              [k \in Key |-> IF k \in seen.located /\ held(k) # 0
                             THEN Booked(kept(k), seen.home[k], held(k), seen.now)
                             ELSE kept(k)]]
  BY DEF HandOff
<1> SUFFICES ASSUME NEW k \in Key PROVE ledger'.entries[k].gone \in {0, ledger.entries[k].gone}
  OBVIOUS
<1>2. PICK e, volume, at :
        /\ e \in {Untracked, ledger.entries[k]}
        /\ ledger'.entries[k] = e \/ ledger'.entries[k] = Booked(e, volume, at, seen.now)
  <2> DEFINE held(i) == IF i \in back THEN 0 ELSE IF i \in added THEN seen.now ELSE scheduled[i]
             kept(j) == IF j \in back THEN Untracked ELSE ledger.entries[j]
  <2>1. ledger'.entries = [j \in Key |-> IF j \in seen.located /\ held(j) # 0
                                         THEN Booked(kept(j), seen.home[j], held(j), seen.now)
                                         ELSE kept(j)]
    BY <1>1 DEF IInv, LedgersFit
  <2>2. kept(k) \in {Untracked, ledger.entries[k]}
    OBVIOUS
  <2> HIDE DEF held, kept
  <2>3. ledger'.entries[k] = kept(k) \/ ledger'.entries[k] = Booked(kept(k), seen.home[k], held(k), seen.now)
    BY <2>1
  <2> QED
    BY <2>2, <2>3
<1>3. e \in Entry /\ e.gone \in {0, ledger.entries[k].gone}
  BY <1>2 DEF IInv, LedgersFit, EntriesFit, Untracked, Entry
<1> QED
  BY <1>2, <1>3 DEF Booked, Recorded, Eviction, Entry

(* Every step keeps it: only a save starts the count of a key.               *)
LEMMA SinceStep == IInv /\ SinceFits /\ [Next]_vars => SinceFits'
<1> SUFFICES ASSUME IInv, SinceFits, [Next]_vars PROVE SinceFits'
  OBVIOUS
<1>1. /\ EntriesFit(file.entries, clock) /\ EntriesFit(ledger.entries, clock)
      /\ clock \in Nat /\ seen.now \in Nat
      /\ \A k \in Key : file.entries[k].gone \in Nat /\ ledger.entries[k].gone \in Nat
  BY DEF IInv, WorldFits, SeenFits, LedgersFit, EntriesFit, Entry
<1>2. CASE ReadLibrary
  BY <1>2 DEF SinceFits, ReadLibrary, history
<1>3. CASE Observe
  <2>1. /\ pc' = "acting" /\ file' = file /\ since' = since /\ clock' = clock
    BY <1>3 DEF Observe
  <2>2. /\ \A k \in Key : file.entries[k].gone # 0 => ledger'.entries[k].gone \in {0, file.entries[k].gone}
        /\ seen'.now = clock
    BY <1>3, ObserveGone
  <2>3. \A k \in Key : ledger'.entries[k].gone <= clock
    BY <1>3, <2>1, ObserveInv DEF IInv, LedgersFit, EntriesFit
  <2> QED
    BY <2>1, <2>2, <2>3 DEF SinceFits
<1>4. CASE HandOff
  <2>1. /\ pc = "acting" /\ file' = file /\ since' = since /\ seen' = seen
    BY <1>4 DEF HandOff, history
  <2>2. \A k \in Key : ledger'.entries[k].gone \in {0, ledger.entries[k].gone}
    BY <1>4, HandOffGone
  <2> QED
    BY <1>1, <2>1, <2>2 DEF SinceFits
<1>5. CASE Unreadable
  BY <1>5 DEF SinceFits, Unreadable, history
<1>6. ASSUME NEW i \in Item, Evict(i) PROVE SinceFits'
  <2>1. /\ pc = "acting" /\ file' = file /\ since' = since /\ seen' = seen
        /\ ledger' = [ledger EXCEPT !.entries[i] = Recorded(@, seen.home[i], seen.now)]
    BY <1>6 DEF Evict, history
  <2>2. \A k \in Key : ledger.entries[k] \in Entry
    BY <1>1 DEF EntriesFit
  <2>3. \A k \in Key : ledger'.entries[k].gone \in {0, ledger.entries[k].gone}
    BY <1>1, <2>1, <2>2 DEF IInv, LedgersFit, EntriesFit, Recorded, Eviction, Entry
  <2> QED
    BY <1>1, <2>1, <2>3 DEF SinceFits
<1>7. ASSUME NEW i \in Item, MoveToArchive(i) PROVE SinceFits'
  <2>1. /\ pc = "moving" /\ file' = file /\ since' = [since EXCEPT ![-i] = 0] /\ seen' = seen
        /\ ledger' = [ledger EXCEPT !.entries[-i] = RecordedMove(seen.home[i], seen.now)]
    BY <1>7 DEF MoveToArchive
  <2>2. RecordedMove(seen.home[i], seen.now).gone = seen.now
    BY <1>1 DEF RecordedMove, Eviction
  <2>3. \A k \in Key : ledger'.entries[k].gone = IF k = -i THEN seen.now ELSE ledger.entries[k].gone
    BY <1>1, <2>1, <2>2 DEF IInv, LedgersFit, EntriesFit
  <2> QED
    <3>1. since \in [Key -> Nat] /\ -i \in Key
      BY DEF SinceFits, Key
    <3>2. since' \in [Key -> Nat] /\ \A k \in Key : since'[k] = IF k = -i THEN 0 ELSE since[k]
      BY <2>1, <3>1
    <3>3. \A k \in Key : since'[k] # 0 => file'.entries[k].gone # 0 /\ file'.entries[k].gone <= since'[k]
      BY <2>1, <3>2 DEF SinceFits
    <3>4. \A k \in Key :
            /\ ledger'.entries[k].gone <= seen'.now
            /\ since'[k] # 0 /\ ledger'.entries[k].gone # 0 => ledger'.entries[k].gone <= since'[k]
      BY <1>1, <2>1, <2>3, <3>2 DEF SinceFits
    <3> QED
      BY <3>2, <3>3, <3>4 DEF SinceFits
<1>8. CASE Save
  <2>1. /\ pc = "moving" /\ pc' = "idle" /\ file' \in {file, ledger} /\ since' = Running
    BY <1>8 DEF Save
  <2>2. \A k \in Key : /\ file.entries[k].gone # 0 => file.entries[k].gone <= seen.now
                       /\ ledger.entries[k].gone <= seen.now
    BY <2>1 DEF IInv, SavedStands, SinceFits
  <2>3. since' \in [Key -> Nat]
    BY <1>1, <2>1 DEF Running, SinceFits
  <2>4. ASSUME NEW k \in Key, since'[k] # 0
        PROVE  file'.entries[k].gone # 0 /\ file'.entries[k].gone <= since'[k]
    BY <1>1, <2>1, <2>2, <2>4 DEF Running, SinceFits
  <2> QED
    BY <2>1, <2>3, <2>4 DEF SinceFits
<1>9. CASE Stop
  BY <1>9 DEF SinceFits, Stop, history
<1>10. CASE LoseFile
  BY <1>10 DEF SinceFits, LoseFile
<1>11. ASSUME UNCHANGED <<daemon, since>> PROVE SinceFits'
  BY <1>11 DEF SinceFits, daemon
<1>12. World \/ Tick \/ UNCHANGED vars => UNCHANGED <<daemon, since>>
  BY DEF World, Deleted, Redownload, Frees, Download, Import, Tick, history, daemon, vars
<1> QED
  BY <1>2, <1>3, <1>4, <1>5, <1>6, <1>7, <1>8, <1>9, <1>10, <1>11, <1>12 DEF Next, Cycle

(* No credit lasts forever (`observe`): counted from the first file that had *)
(* it, every credit is over once its window, the grace and the held time     *)
(* have passed, also on a disk that has not answered since: its card was     *)
(* gone by then, and `observe` stamps it once.                               *)
THEOREM CreditEndsHolds == Spec => []CreditEnds
<1>1. Init => SinceFits
  BY DEF Init, SinceFits
<1>2. IInv /\ SinceFits => CreditEnds
  <2> SUFFICES ASSUME IInv, SinceFits, pc = "acting", NEW k \in Key, since[k] # 0,
                      ledger.entries[k].gone # 0
               PROVE  seen.now - since[k] < WindowOf(k) + SettleGrace + HeldCredit
    BY DEF CreditEnds
  <2>1. /\ seen.now - ledger.entries[k].gone < WindowOf(k) + SettleGrace + HeldCredit
        /\ ledger.entries[k].gone <= since[k]
    BY DEF IInv, Young, SinceFits
  <2>2. /\ ledger.entries[k].gone \in Nat /\ since[k] \in Nat /\ seen.now \in Nat
        /\ WindowOf(k) + SettleGrace + HeldCredit \in Int
    BY WindowType, LedgerAssumption DEF IInv, SinceFits, SeenFits, LedgersFit, EntriesFit, Entry
  <2> QED
    BY <2>1, <2>2
<1> QED
  BY <1>1, <1>2, LedgerInvariant, SinceStep, PTL DEF Spec

(* A step of a cycle that changes evictions.json is a save, and a save keeps *)
(* each credit until its recycle window has passed or its card is back.      *)
LEMMA StepKeepsCredit ==
  ASSUME IInv, [Next]_vars
  PROVE  [\A k \in Key :
            file.entries[k].gone # 0 /\ pc # "idle" =>
              \/ file'.entries[k].gone = file.entries[k].gone /\ file'.entries[k].volume = file.entries[k].volume
              \/ seen.now >= DueAt(file.entries, k)
              \/ k \in seen.library]_vars
<1>1. CASE Save
  BY <1>1 DEF Save, IInv, SavedStands, Stands
<1>2. CASE LoseFile
  BY <1>2 DEF LoseFile
<1>3. CASE ~Save /\ ~LoseFile
  <2>1. file' = file
    BY <1>3 DEF Next, Cycle, World, ReadLibrary, Observe, HandOff, Unreadable, Evict, MoveToArchive,
                Stop, Deleted, Redownload, Frees, Download, Import, Tick, daemon, vars
  <2> QED
    BY <2>1
<1> QED
  BY <1>1, <1>2, <1>3

(* What FLINCH deleted is credited against its disk's goal, in every saved   *)
(* ledger, until its recycle window has passed or its card is back.          *)
THEOREM CreditKeptHolds == Spec => CreditKept
  BY LedgerInvariant, StepKeepsCredit, PTL DEF Spec, CreditKept
-----------------------------------------------------------------------------
(* Sums over finite sets.                                                   *)

(* A set of numbers has a smallest one.                                     *)
LEMMA Smallest ==
  ASSUME NEW T \in SUBSET Nat, T # {}
  PROVE  \E n \in T : \A m \in T : n <= m
<1>1. PICK n \in T : \A m \in T : <<m, n>> \notin OpToRel(<, Nat)
  BY NatLessThanWellFounded, WFMin, Zenon
<1>2. n \in Nat /\ \A m \in T : m \in Nat /\ ~(m < n)
  BY <1>1 DEF OpToRel
<1> QED
  BY <1>2

(* Induction on finite sets: where not every subset is in Q, one is not that *)
(* would be but for a single element.                                       *)
LEMMA SmallestSubset ==
  ASSUME NEW S, IsFiniteSet(S), NEW Q, (SUBSET S) \ Q # {}
  PROVE  \E T \in (SUBSET S) \ Q : \A x \in T : T \ {x} \in Q
<1> DEFINE sizes == {Cardinality(T) : T \in (SUBSET S) \ Q}
<1>1. \A T \in SUBSET S : IsFiniteSet(T) /\ Cardinality(T) \in Nat
  BY FS_Subset, FS_CardinalityType
<1>2. sizes \in SUBSET Nat /\ sizes # {}
  BY <1>1
<1>3. PICK n \in sizes : \A m \in sizes : n <= m
  <2> HIDE DEF sizes
  <2> QED BY <1>2, Smallest
<1>4. PICK T \in (SUBSET S) \ Q : n = Cardinality(T)
  OBVIOUS
<1>5. ASSUME NEW x \in T, T \ {x} \notin Q PROVE FALSE
  <2>1. Cardinality(T \ {x}) = n - 1 /\ T \ {x} \in SUBSET S
    BY <1>1, <1>4, FS_RemoveElement
  <2>2. n - 1 \in sizes /\ n \in Nat
    BY <1>1, <1>4, <1>5, <2>1
  <2> HIDE DEF sizes
  <2> QED BY <1>3, <2>2
<1> QED
  BY <1>4, <1>5

(* What holds the empty set, and with a set the one with one element more,  *)
(* holds every subset.                                                      *)
LEMMA EverySubset ==
  ASSUME NEW S, IsFiniteSet(S), NEW Q,
         {} \in Q, \A T \in SUBSET S : \A x \in S \ T : T \in Q => T \cup {x} \in Q
  PROVE  SUBSET S \subseteq Q
<1> SUFFICES ASSUME (SUBSET S) \ Q # {} PROVE FALSE
  OBVIOUS
<1>1. PICK T \in (SUBSET S) \ Q : \A x \in T : T \ {x} \in Q
  BY SmallestSubset
<1>2. PICK x \in T : TRUE
  BY <1>1
<1>3. (T \ {x}) \cup {x} = T /\ x \in S \ (T \ {x}) /\ T \ {x} \in SUBSET S
  BY <1>1, <1>2
<1> QED
  BY <1>1, <1>2, <1>3

(* Any element of a set, and the sum that takes one away at a time.         *)
Any(s) == CHOOSE x \in s : TRUE
Sums(g, S) == g = [s \in SUBSET S |-> IF s = {} THEN 0 ELSE Size[Card(Any(s))] + g[s \ {Any(s)}]]

(* There are finitely many entries.                                         *)
LEMMA KeyFinite == IsFiniteSet(Key) /\ \A S \in SUBSET Key : IsFiniteSet(S) /\ Cardinality(S) \in Nat
<1>1. IsFiniteSet({-i : i \in Item})
  <2> DEFINE f == [i \in Item |-> -i]
  <2>1. f \in Surjection(Item, {-i : i \in Item})
    BY DEF Surjection
  <2> QED BY <2>1, LedgerAssumption, FS_Surjection
<1>2. IsFiniteSet(Key)
  BY <1>1, LedgerAssumption, FS_Union DEF Key
<1> QED
  BY <1>2, FS_Subset, FS_CardinalityType

(* A sum by taking one element away at a time exists.                       *)
LEMMA SumExists ==
  ASSUME NEW S \in SUBSET Key
  PROVE  \E g : Sums(g, S)
<1> DEFINE At(g, s) == g[s] = IF s = {} THEN 0 ELSE Size[Card(Any(s))] + g[s \ {Any(s)}]
           Level == {n \in Nat : \E g : DOMAIN g = SUBSET S /\ g = [s \in SUBSET S |-> g[s]]
                                        /\ \A s \in SUBSET S : Cardinality(s) <= n => At(g, s)}
<1>1. \A s \in SUBSET S : IsFiniteSet(s) /\ Cardinality(s) \in Nat
  BY KeyFinite
<1>2. \A s \in SUBSET S : s # {} => Any(s) \in s /\ s \ {Any(s)} \in SUBSET S
                                    /\ Cardinality(s \ {Any(s)}) = Cardinality(s) - 1
  BY <1>1, FS_RemoveElement DEF Any
<1>3. \A s \in SUBSET S : Cardinality(s) <= 0 => s = {}
  BY <1>1, FS_EmptySet
<1>4. 0 \in Level
  <2> DEFINE g == [s \in SUBSET S |-> 0]
  <2>1. DOMAIN g = SUBSET S /\ g = [s \in SUBSET S |-> g[s]] /\ \A s \in SUBSET S : Cardinality(s) <= 0 => At(g, s)
    BY <1>3
  <2> QED BY <2>1
<1>5. ASSUME NEW n \in Level PROVE n + 1 \in Level
  <2>1. n \in Nat
    OBVIOUS
  <2>2. PICK g : DOMAIN g = SUBSET S /\ \A s \in SUBSET S : Cardinality(s) <= n => At(g, s)
    OBVIOUS
  <2> DEFINE h == [s \in SUBSET S |-> IF Cardinality(s) = n + 1 THEN Size[Card(Any(s))] + g[s \ {Any(s)}] ELSE g[s]]
  <2>3. ASSUME NEW s \in SUBSET S, Cardinality(s) <= n + 1 PROVE At(h, s)
    <3>1. CASE s = {}
      <4>1. Cardinality(s) = 0
        BY <3>1, FS_EmptySet
      <4>2. h[s] = g[s] /\ At(g, s)
        BY <2>1, <2>2, <4>1
      <4> QED BY <3>1, <4>2
    <3>2. CASE s # {}
      <4>1. Cardinality(s) \in Nat /\ s \ {Any(s)} \in SUBSET S /\ Cardinality(s \ {Any(s)}) = Cardinality(s) - 1
        BY <1>1, <1>2, <3>2
      <4>2. h[s \ {Any(s)}] = g[s \ {Any(s)}]
        BY <2>1, <2>3, <4>1
      <4>3. h[s] = Size[Card(Any(s))] + g[s \ {Any(s)}]
        <5>1. CASE Cardinality(s) = n + 1
          BY <5>1
        <5>2. CASE Cardinality(s) # n + 1
          <6>1. Cardinality(s) <= n
            BY <2>1, <2>3, <4>1, <5>2
          <6> QED BY <2>2, <3>2, <5>2, <6>1
        <5> QED BY <5>1, <5>2
      <4> HIDE DEF h
      <4> QED BY <3>2, <4>2, <4>3
    <3> QED BY <3>1, <3>2
  <2>4. DOMAIN h = SUBSET S /\ h = [s \in SUBSET S |-> h[s]]
    OBVIOUS
  <2>5. \A s \in SUBSET S : Cardinality(s) <= n + 1 => At(h, s)
    BY <2>3
  <2>6. n + 1 \in Nat
    BY <2>1
  <2> HIDE DEF h, At
  <2> QED BY <2>4, <2>5, <2>6
<1>6. Cardinality(S) \in Level
  <2> DEFINE T == Nat \ Level
  <2> SUFFICES ASSUME T # {} PROVE FALSE
    BY <1>1
  <2>1. PICK n \in T : \A m \in T : n <= m
    BY Smallest
  <2>2. n # 0 /\ n - 1 \in Nat /\ n - 1 \in Level
    <3> HIDE DEF Level
    <3> QED BY <1>4, <2>1
  <2>3. (n - 1) + 1 \in Level
    <3> HIDE DEF Level
    <3> QED BY <1>5, <2>2
  <2> HIDE DEF Level
  <2> QED BY <2>1, <2>3
<1>7. PICK g : /\ g = [s \in SUBSET S |-> g[s]]
               /\ \A s \in SUBSET S : Cardinality(s) <= Cardinality(S) => At(g, s)
  BY <1>6
<1>8. \A s \in SUBSET S : Cardinality(s) <= Cardinality(S)
  BY KeyFinite, FS_Subset
<1>9. \A s \in SUBSET S : At(g, s)
  BY <1>7, <1>8
<1> QED
  BY <1>7, <1>9 DEF Sums

(* The bytes of a set are such a sum.                                       *)
LEMMA BytesSum ==
  ASSUME NEW S \in SUBSET Key
  PROVE  \E g : Sums(g, S) /\ Bytes(S) = g[S]
<1> DEFINE g == CHOOSE g : g = [s \in SUBSET S |-> IF s = {} THEN 0 ELSE Size[Card(CHOOSE x \in s : TRUE)]
                                                                         + g[s \ {CHOOSE x \in s : TRUE}]]
<1>1. Bytes(S) = g[S]
  BY Zenon DEF Bytes, MapThenSumSet, MapThenFoldSet
<1>2. Sums(g, S)
  BY SumExists, Zenon DEF Sums, Any
<1> QED
  BY <1>1, <1>2, Zenon

(* Every entry has a size.                                                  *)
LEMMA SizeType == \A k \in Key : Card(k) \in Item /\ Size[Card(k)] \in Nat \ {0}
  BY WindowType, LedgerAssumption

(* A sum is its next element's bytes and the sum of the others.             *)
LEMMA SumsStep ==
  ASSUME NEW S \in SUBSET Key, NEW g, Sums(g, S), NEW T \in SUBSET S, T # {}
  PROVE  /\ Any(T) \in T /\ T \ {Any(T)} \in SUBSET S
         /\ g[T] = Size[Card(Any(T))] + g[T \ {Any(T)}]
<1>1. Any(T) \in T
  BY DEF Any
<1>2. g[T] = IF T = {} THEN 0 ELSE Size[Card(Any(T))] + g[T \ {Any(T)}]
  BY DEF Sums
<1> QED
  BY <1>1, <1>2

(* The sum of nothing is nothing.                                           *)
LEMMA SumsEmpty ==
  ASSUME NEW S \in SUBSET Key, NEW g, Sums(g, S)
  PROVE  g[{}] = 0
<1>1. g[{}] = IF {} = {} THEN 0 ELSE Size[Card(Any({}))] + g[{} \ {Any({})}]
  BY Zenon DEF Sums
<1> QED
  BY <1>1

(* Sums are numbers.                                                        *)
LEMMA SumsNat ==
  ASSUME NEW S \in SUBSET Key, NEW g, Sums(g, S)
  PROVE  \A T \in SUBSET S : g[T] \in Nat
<1> DEFINE Q == {T \in SUBSET S : g[T] \in Nat}
<1> SUFFICES ASSUME (SUBSET S) \ Q # {} PROVE FALSE
  OBVIOUS
<1>1. PICK T \in (SUBSET S) \ Q : \A x \in T : T \ {x} \in Q
  <2> HIDE DEF Q
  <2> QED BY KeyFinite, SmallestSubset
<1>2. T # {}
  <2>1. {} \in Q
    BY SumsEmpty
  <2> QED BY <1>1, <2>1
<1>3. Any(T) \in T /\ g[T] = Size[Card(Any(T))] + g[T \ {Any(T)}]
  BY <1>1, <1>2, SumsStep
<1>4. T \ {Any(T)} \in Q /\ Size[Card(Any(T))] \in Nat
  BY <1>1, <1>3, SizeType
<1> QED
  BY <1>1, <1>3, <1>4

(* The sum of a set is the same in any larger one.                          *)
LEMMA SumsAgree ==
  ASSUME NEW S \in SUBSET Key, NEW g, Sums(g, S), NEW T \in SUBSET S, NEW h, Sums(h, T)
  PROVE  \A U \in SUBSET T : g[U] = h[U]
<1> DEFINE Q == {U \in SUBSET T : g[U] = h[U]}
<1> SUFFICES ASSUME (SUBSET T) \ Q # {} PROVE FALSE
  OBVIOUS
<1>0. T \in SUBSET Key
  OBVIOUS
<1>1. PICK U \in (SUBSET T) \ Q : \A x \in U : U \ {x} \in Q
  <2> HIDE DEF Q
  <2> QED BY <1>0, KeyFinite, SmallestSubset
<1>2. U # {}
  BY <1>0, <1>1, SumsEmpty
<1>3. /\ Any(U) \in U /\ g[U] = Size[Card(Any(U))] + g[U \ {Any(U)}]
      /\ h[U] = Size[Card(Any(U))] + h[U \ {Any(U)}]
  BY <1>0, <1>1, <1>2, SumsStep
<1>4. g[U \ {Any(U)}] = h[U \ {Any(U)}]
  BY <1>1, <1>3
<1> QED
  BY <1>1, <1>3, <1>4

(* The order in which elements are taken does not matter.                   *)
LEMMA SumsAdd ==
  ASSUME NEW S \in SUBSET Key, NEW g, Sums(g, S)
  PROVE  \A T \in SUBSET S : \A x \in S \ T : g[T \cup {x}] = Size[Card(x)] + g[T]
<1>0. ASSUME NEW V \in SUBSET S, V # {}
      PROVE  Any(V) \in V /\ g[V] = Size[Card(Any(V))] + g[V \ {Any(V)}]
  BY <1>0, SumsStep
<1> DEFINE Q == {T \in SUBSET S : \A x \in S \ T : g[T \cup {x}] = Size[Card(x)] + g[T]}
<1> SUFFICES ASSUME (SUBSET S) \ Q # {} PROVE FALSE
  OBVIOUS
<1>1. PICK T \in (SUBSET S) \ Q : \A x \in T : T \ {x} \in Q
  <2> HIDE DEF Q
  <2> QED BY KeyFinite, SmallestSubset
<1>2. PICK x \in S \ T : g[T \cup {x}] # Size[Card(x)] + g[T]
  BY <1>1
<1> DEFINE U == T \cup {x}
           y == Any(U)
<1>3. U \in SUBSET S /\ U # {} /\ T \in SUBSET S
  BY <1>1
<1>4. y \in U /\ g[U] = Size[Card(y)] + g[U \ {y}]
  <2> HIDE DEF U
  <2> QED BY <1>0, <1>3
<1>5. y # x /\ y \in T /\ y \in S
  <2>1. CASE y = x
    <3>1. U \ {y} = T
      BY <2>1
    <3> HIDE DEF U, y
    <3> QED BY <1>2, <1>4, <2>1, <3>1 DEF U
  <2> QED BY <1>3, <1>4, <2>1
<1> DEFINE R == T \ {y}
<1>6. R \in Q /\ R \in SUBSET S
  BY <1>1, <1>5
<1>7. R \cup {y} = T /\ R \cup {x} = U \ {y} /\ x \in S \ R /\ y \in S \ R
  BY <1>5
<1>8. \A z \in S \ R : g[R \cup {z}] = Size[Card(z)] + g[R]
  BY <1>6
<1>9. g[T] = Size[Card(y)] + g[R] /\ g[U \ {y}] = Size[Card(x)] + g[R]
  <2> HIDE DEF R, U, y, Q
  <2> QED BY <1>7, <1>8
<1>10. g[R] \in Nat /\ Size[Card(x)] \in Nat /\ Size[Card(y)] \in Nat
  BY <1>5, <1>6, SumsNat, SizeType
<1>11. g[U] # Size[Card(x)] + g[T]
  BY <1>2
<1> HIDE DEF R, U, y, Q
<1> QED
  BY <1>4, <1>9, <1>10, <1>11

(* Nothing has no bytes.                                                    *)
LEMMA BytesEmpty == Bytes({}) = 0
  BY BytesSum, SumsEmpty

(* Bytes are a number.                                                      *)
LEMMA BytesNat == \A S \in SUBSET Key : Bytes(S) \in Nat
  BY BytesSum, SumsNat

(* One more entry adds its bytes.                                           *)
LEMMA BytesAdd ==
  ASSUME NEW S \in SUBSET Key, NEW x \in Key \ S
  PROVE  Bytes(S \cup {x}) = Size[Card(x)] + Bytes(S)
<1> DEFINE T == S \cup {x}
<1>1. T \in SUBSET Key /\ S \in SUBSET T /\ x \in T \ S
  OBVIOUS
<1>2. PICK g : Sums(g, T) /\ Bytes(T) = g[T]
  BY <1>1, BytesSum
<1>3. PICK h : Sums(h, S) /\ Bytes(S) = h[S]
  BY BytesSum
<1>4. g[S] = h[S]
  BY <1>1, <1>2, <1>3, SumsAgree
<1>5. g[T] = Size[Card(x)] + g[S]
  BY <1>1, <1>2, SumsAdd
<1> QED
  BY <1>2, <1>3, <1>4, <1>5

(* Two sets with nothing in common weigh together what they weigh.          *)
LEMMA BytesUnion ==
  ASSUME NEW S \in SUBSET Key, NEW T \in SUBSET Key, S \cap T = {}
  PROVE  Bytes(S \cup T) = Bytes(S) + Bytes(T)
<1> DEFINE Q == {R \in SUBSET T : Bytes(S \cup R) = Bytes(S) + Bytes(R)}
<1>1. {} \in Q
  <2>1. S \cup {} = S /\ Bytes(S) \in Nat
    BY BytesNat
  <2> QED BY <2>1, BytesEmpty
<1>2. ASSUME NEW R \in SUBSET T, NEW x \in T \ R, R \in Q PROVE R \cup {x} \in Q
  <2>1. R \in SUBSET Key /\ S \cup R \in SUBSET Key /\ x \in Key \ R /\ x \in Key \ (S \cup R)
    OBVIOUS
  <2>2. /\ Bytes(R \cup {x}) = Size[Card(x)] + Bytes(R)
        /\ Bytes((S \cup R) \cup {x}) = Size[Card(x)] + Bytes(S \cup R)
    BY <2>1, BytesAdd
  <2>3. (S \cup R) \cup {x} = S \cup (R \cup {x})
    OBVIOUS
  <2>4. Bytes(R) \in Nat /\ Bytes(S) \in Nat /\ Size[Card(x)] \in Nat /\ Bytes(S \cup R) = Bytes(S) + Bytes(R)
    BY <1>2, <2>1, BytesNat, SizeType
  <2>5. Bytes(S \cup (R \cup {x})) = Size[Card(x)] + (Bytes(S) + Bytes(R))
    BY <2>2, <2>3, <2>4, Zenon
  <2>6. Size[Card(x)] + (Bytes(S) + Bytes(R)) = Bytes(S) + (Size[Card(x)] + Bytes(R))
    BY <2>4
  <2>7. Bytes(S \cup (R \cup {x})) = Bytes(S) + Bytes(R \cup {x})
    BY <2>2, <2>5, <2>6, Zenon
  <2> QED BY <2>7
<1>3. IsFiniteSet(T)
  BY KeyFinite
<1> HIDE DEF Q
<1>4. SUBSET T \subseteq Q
  BY <1>1, <1>2, <1>3, EverySubset
<1> QED
  BY <1>4 DEF Q

(* The bytes of a set are those of a part of it and of the rest.            *)
LEMMA BytesWithout ==
  ASSUME NEW S \in SUBSET Key, NEW T \in SUBSET S
  PROVE  Bytes(S) = Bytes(T) + Bytes(S \ T)
<1>1. S = T \cup (S \ T) /\ T \in SUBSET Key /\ S \ T \in SUBSET Key /\ T \cap (S \ T) = {}
  OBVIOUS
<1> QED
  BY <1>1, BytesUnion

(* A card's bytes are its own, whichever of its entries holds them.         *)
LEMMA BytesCards ==
  ASSUME NEW S \in SUBSET Key, \A k, l \in S : Card(k) = Card(l) => k = l
  PROVE  {Card(k) : k \in S} \in SUBSET Item /\ Bytes({Card(k) : k \in S}) = Bytes(S)
<1> DEFINE Q == {R \in SUBSET S : Bytes({Card(k) : k \in R}) = Bytes(R)}
<1>0. \A k \in Key : Card(k) \in Item /\ Card(k) \in Key /\ Card(Card(k)) = Card(k)
  BY SizeType, LedgerAssumption DEF Key, Card
<1>1. {} \in Q
  <2>1. {Card(k) : k \in {}} = {}
    OBVIOUS
  <2> QED BY <2>1
<1>2. ASSUME NEW R \in SUBSET S, NEW x \in S \ R, R \in Q PROVE R \cup {x} \in Q
  <2> DEFINE C == {Card(k) : k \in R}
  <2>1. R \in SUBSET Key /\ x \in Key \ R /\ C \in SUBSET Key /\ Card(x) \in Key \ C
    BY <1>0
  <2>2. {Card(k) : k \in R \cup {x}} = C \cup {Card(x)}
    OBVIOUS
  <2>3. Bytes(R \cup {x}) = Size[Card(x)] + Bytes(R) /\ Bytes(C) = Bytes(R)
    BY <1>2, <2>1, BytesAdd
  <2> HIDE DEF C
  <2>4. Bytes(C \cup {Card(x)}) = Size[Card(Card(x))] + Bytes(C)
    BY <2>1, BytesAdd
  <2>5. Card(Card(x)) = Card(x)
    BY <1>0, <2>1
  <2> QED BY <2>2, <2>3, <2>4, <2>5
<1>3. IsFiniteSet(S)
  BY KeyFinite
<1>4. {Card(k) : k \in S} \in SUBSET Item
  BY <1>0
<1> HIDE DEF Q
<1>5. SUBSET S \subseteq Q
  BY <1>1, <1>2, <1>3, EverySubset
<1> QED
  BY <1>4, <1>5 DEF Q

(* No card is larger than the largest.                                      *)
LEMMA LargestBounds == LargestSize \in Nat /\ \A k \in Key : Size[Card(k)] <= LargestSize
<1> DEFINE Sizes(T) == {0} \cup {Size[i] : i \in T}
           Q == {T \in SUBSET Item : \E m \in Sizes(T) : \A n \in Sizes(T) : m >= n}
<1>1. \A T \in SUBSET Item : Sizes(T) \subseteq Nat
  BY LedgerAssumption
<1>2. {} \in Q
  OBVIOUS
<1>3. ASSUME NEW T \in SUBSET Item, NEW x \in Item \ T, T \in Q PROVE T \cup {x} \in Q
  <2>1. PICK m \in Sizes(T) : \A n \in Sizes(T) : m >= n
    BY <1>3
  <2>2. Sizes(T \cup {x}) = Sizes(T) \cup {Size[x]}
    OBVIOUS
  <2>3. m \in Nat /\ Size[x] \in Nat /\ Sizes(T) \subseteq Nat
    BY <1>1, LedgerAssumption
  <2> DEFINE top == IF m >= Size[x] THEN m ELSE Size[x]
  <2>4. top \in Sizes(T) \cup {Size[x]} /\ \A n \in Sizes(T) \cup {Size[x]} : top >= n
    <3> HIDE DEF Sizes
    <3> QED BY <2>1, <2>3
  <2> HIDE DEF top
  <2> QED BY <2>2, <2>4
<1>4. Item \in Q
  <2> HIDE DEF Q
  <2> QED BY <1>2, <1>3, LedgerAssumption, EverySubset
<1>5. LargestSize \in Sizes(Item) /\ \A n \in Sizes(Item) : LargestSize >= n
  BY <1>4 DEF LargestSize, Max
<1>6. \A k \in Key : Card(k) \in Item /\ Size[Card(k)] \in Sizes(Item)
  BY SizeType
<1>7. Sizes(Item) \subseteq Nat
  BY <1>1
<1> HIDE DEF Sizes
<1> QED
  BY <1>5, <1>6, <1>7
-----------------------------------------------------------------------------
(* What a disk's verdict does with a drop.                                  *)

(* Induction: a set that holds 0 and with a number the next one holds all.  *)
LEMMA FromZero ==
  ASSUME NEW S, 0 \in S, \A n \in S \cap Nat : n + 1 \in S
  PROVE  Nat \subseteq S
<1> SUFFICES ASSUME Nat \ S # {} PROVE FALSE
  OBVIOUS
<1>1. PICK n \in Nat \ S : \A m \in Nat \ S : n <= m
  BY Smallest
<1>2. n # 0 /\ n - 1 \in Nat /\ n - 1 \in S
  BY <1>1
<1> QED
  BY <1>2

(* Up to N. *)
LEMMA UpTo ==
  ASSUME NEW N \in Nat, NEW S, 0 \in S, \A n \in 1..N : n - 1 \in S => n \in S
  PROVE  0..N \subseteq S
<1> DEFINE T == {n \in Nat : n <= N => n \in S}
<1>1. 0 \in T
  OBVIOUS
<1>2. \A n \in T \cap Nat : n + 1 \in T
  OBVIOUS
<1> HIDE DEF T
<1>3. Nat \subseteq T
  BY <1>1, <1>2, FromZero
<1> QED
  BY <1>3 DEF T

(* A walk of N steps over St. *)
Walks(u, N, base, step) == u = [n \in 0..N |-> IF n = 0 THEN base ELSE step[<<n, u[n - 1]>>]]

(* A walk with a base and a step exists.                                    *)
LEMMA WalkExists ==
  ASSUME NEW N \in Nat, NEW St, NEW base \in St, NEW step \in [(1..N) \X St -> St]
  PROVE  \E u \in [0..N -> St] : Walks(u, N, base, step)
<1> DEFINE Run(n, u) == u[0] = base /\ \A k \in 1..n : u[k] = step[<<k, u[k - 1]>>]
           S == {n \in Nat : n <= N => \E u \in [0..n -> St] : Run(n, u)}
<1>1. 0 \in S
  <2>1. [n \in 0..0 |-> base] \in [0..0 -> St] /\ Run(0, [n \in 0..0 |-> base])
    OBVIOUS
  <2> QED
    BY <2>1
<1>2. \A n \in 1..N : n - 1 \in S => n \in S
  <2> SUFFICES ASSUME NEW n \in 1..N, n - 1 \in S PROVE n \in S
    OBVIOUS
  <2>1. PICK u \in [0..(n - 1) -> St] : Run(n - 1, u)
    OBVIOUS
  <2> DEFINE w == [k \in 0..n |-> IF k = n THEN step[<<n, u[n - 1]>>] ELSE u[k]]
  <2>2. w \in [0..n -> St]
    OBVIOUS
  <2>3. \A k \in 0..(n - 1) : w[k] = u[k]
    OBVIOUS
  <2>4. w[n] = step[<<n, w[n - 1]>>]
    <3>1. n \in 0..n /\ n - 1 \in 0..(n - 1) /\ w[n] = step[<<n, u[n - 1]>>]
      OBVIOUS
    <3> QED
      BY <2>3, <3>1
  <2> HIDE DEF w
  <2>5. ASSUME NEW k \in 1..n
        PROVE  w[k] = step[<<k, w[k - 1]>>]
    <3>1. CASE k = n
      BY <2>4, <3>1
    <3>2. CASE k # n
      <4>1. k \in 1..(n - 1) /\ k \in 0..(n - 1) /\ k - 1 \in 0..(n - 1)
        BY <3>2
      <4> QED
        BY <2>1, <2>3, <4>1
    <3> QED
      BY <3>1, <3>2
  <2>6. Run(n, w)
    BY <2>1, <2>3, <2>5
  <2> QED
    BY <2>2, <2>6
<1> HIDE DEF S
<1>3. N \in S
  BY <1>1, <1>2, UpTo
<1>4. PICK u \in [0..N -> St] : Run(N, u)
  BY <1>3 DEF S
<1>5. \A n \in 0..N : u[n] = IF n = 0 THEN base ELSE step[<<n, u[n - 1]>>]
  BY <1>4
<1>6. u = [n \in 0..N |-> u[n]]
  OBVIOUS
<1>7. Walks(u, N, base, step)
  BY <1>5, <1>6 DEF Walks
<1> QED
  BY <1>7

(* Of evictions due there is a first to judge.                              *)
LEMMA EarliestIn ==
  ASSUME NEW E, \A k \in Key : E[k].gone \in Nat, NEW S \in SUBSET Key, S # {}
  PROVE  Earliest(E, S) \in S
<1> DEFINE First(k, T) == \A j \in T \ {k} : Before(E, k, j)
           Q == {T \in SUBSET Key : T = {} \/ \E k \in T : First(k, T)}
<1>1. \A k \in Key : k \in Int /\ E[k].gone \in Nat /\ DueAt(E, k) \in Nat
  BY WindowType, LedgerAssumption DEF Key, DueAt
<1>2. \A a, b \in Key : a # b => Before(E, a, b) \/ Before(E, b, a)
  <2>1. ASSUME NEW a \in Key, NEW b \in Key, a # b PROVE Before(E, a, b) \/ Before(E, b, a)
    <3>1. a \in Int /\ b \in Int /\ E[a].gone \in Nat /\ E[b].gone \in Nat /\ DueAt(E, a) \in Nat /\ DueAt(E, b) \in Nat
      BY <1>1
    <3> QED BY <2>1, <3>1 DEF Before
  <2> QED BY <2>1
<1>3. \A a, b, c \in Key : Before(E, a, b) /\ Before(E, b, c) => Before(E, a, c)
  <2>1. ASSUME NEW a \in Key, NEW b \in Key, NEW c \in Key, Before(E, a, b), Before(E, b, c) PROVE Before(E, a, c)
    <3>1. /\ a \in Int /\ b \in Int /\ c \in Int /\ E[a].gone \in Nat /\ E[b].gone \in Nat /\ E[c].gone \in Nat
          /\ DueAt(E, a) \in Nat /\ DueAt(E, b) \in Nat /\ DueAt(E, c) \in Nat
      BY <1>1
    <3> QED BY <2>1, <3>1 DEF Before
  <2> QED BY <2>1
<1>4. ASSUME NEW T \in SUBSET Key, NEW x \in Key \ T, T \in Q PROVE T \cup {x} \in Q
  <2>1. CASE T = {}
    <3>1. First(x, T \cup {x})
      BY <2>1
    <3> QED BY <3>1
  <2>2. CASE T # {}
    <3>1. PICK k \in T : First(k, T)
      BY <1>4, <2>2
    <3>2. CASE Before(E, k, x)
      <4>1. First(k, T \cup {x})
        BY <3>1, <3>2
      <4> QED BY <4>1
    <3>3. CASE Before(E, x, k)
      <4>1. ASSUME NEW j \in (T \cup {x}) \ {x} PROVE Before(E, x, j)
        <5>1. j = k \/ Before(E, k, j)
          BY <3>1, <4>1
        <5> QED BY <1>3, <3>3, <5>1
      <4> QED BY <4>1
    <3> QED BY <1>2, <3>1, <3>2, <3>3
  <2> QED BY <2>1, <2>2
<1>5. {} \in Q
  OBVIOUS
<1> HIDE DEF Q
<1>6. S \in Q
  BY <1>4, <1>5, KeyFinite, EverySubset
<1>7. \E k \in S : First(k, S)
  BY <1>6 DEF Q
<1> QED
  BY <1>7 DEF Earliest

Judgings(due) == [waiting : SUBSET due, low : Int, freed : SUBSET due, unseen : SUBSET due]
JudgedNext(E, w, s) == [Paid(E, w, s, Earliest(E, s.waiting)) EXCEPT !.waiting = @ \ {Earliest(E, s.waiting)}]
Unjudged(w, due) == [waiting |-> due, low |-> w.low, freed |-> {}, unseen |-> {}]

(* What a walk spent is what it freed, and it never spends more than half a *)
(* card past the drop.                                                      *)
Spent(w, due, s) ==
  /\ s \in Judgings(due) /\ s.freed \cap s.waiting = {} /\ s.unseen = {}
  /\ s.low = w.low + Bytes(s.freed) /\ 2 * s.low <= 2 * w.baseline + LargestSize

(* Judging the next leaves one fewer waiting.                               *)
LEMMA JudgedNextType ==
  ASSUME NEW E, \A k \in Key : E[k].gone \in Nat, NEW w, NEW due \in SUBSET Key,
         NEW s \in Judgings(due), s.waiting # {}
  PROVE  /\ Earliest(E, s.waiting) \in s.waiting /\ JudgedNext(E, w, s) \in Judgings(due)
         /\ JudgedNext(E, w, s).waiting = s.waiting \ {Earliest(E, s.waiting)}
<1> DEFINE k == Earliest(E, s.waiting)
<1>1. s.waiting \in SUBSET Key
  BY DEF Judgings
<1>2. k \in s.waiting /\ k \in due /\ Size[Card(k)] \in Nat
  BY <1>1, EarliestIn, SizeType DEF Judgings
<1> HIDE DEF k
<1>3. Paid(E, w, s, k) \in Judgings(due) /\ Paid(E, w, s, k).waiting = s.waiting
  <2>1. s.low \in Int /\ s.low + Size[Card(k)] \in Int
    BY <1>2 DEF Judgings
  <2>2. \A r \in {s, [s EXCEPT !.unseen = @ \cup {k}], [s EXCEPT !.freed = @ \cup {k}, !.low = s.low + Size[Card(k)]]} :
           r \in Judgings(due) /\ r.waiting = s.waiting
    <3>1. s.waiting \in SUBSET due /\ s.freed \cup {k} \in SUBSET due /\ s.unseen \cup {k} \in SUBSET due
      BY <1>2 DEF Judgings
    <3>2. [s EXCEPT !.unseen = @ \cup {k}] \in Judgings(due) /\ [s EXCEPT !.unseen = @ \cup {k}].waiting = s.waiting
      BY <3>1 DEF Judgings
    <3>3. /\ [s EXCEPT !.freed = @ \cup {k}, !.low = s.low + Size[Card(k)]] \in Judgings(due)
          /\ [s EXCEPT !.freed = @ \cup {k}, !.low = s.low + Size[Card(k)]].waiting = s.waiting
      <4> DEFINE low == s.low + Size[Card(k)]
                 more == s.freed \cup {k}
      <4>1. low \in Int /\ more \in SUBSET due
        BY <2>1, <3>1
      <4> HIDE DEF low, more
      <4>2. [s EXCEPT !.freed = more, !.low = low] \in Judgings(due) /\ [s EXCEPT !.freed = more, !.low = low].waiting = s.waiting
        BY <4>1 DEF Judgings
      <4> QED BY <4>2 DEF low, more
    <3> QED BY <3>2, <3>3, Zenon
  <2>3. Paid(E, w, s, k) \in {s, [s EXCEPT !.unseen = @ \cup {k}], [s EXCEPT !.freed = @ \cup {k}, !.low = s.low + Size[Card(k)]]}
    BY Zenon DEF Paid, Spend
  <2> QED BY <2>2, <2>3
<1>4. /\ [Paid(E, w, s, k) EXCEPT !.waiting = @ \ {k}] \in Judgings(due)
      /\ [Paid(E, w, s, k) EXCEPT !.waiting = @ \ {k}].waiting = s.waiting \ {k}
  BY <1>3 DEF Judgings
<1> QED
  BY <1>2, <1>4 DEF JudgedNext, k

(* Counted.                                                                 *)
LEMMA JudgedNextCounts ==
  ASSUME NEW E, \A k \in Key : E[k].gone \in Nat, NEW w, NEW due \in SUBSET Key,
         NEW s \in Judgings(due), s.waiting # {}
  PROVE  Cardinality(JudgedNext(E, w, s).waiting) = Cardinality(s.waiting) - 1
<1> DEFINE k == Earliest(E, s.waiting)
<1>1. k \in s.waiting /\ JudgedNext(E, w, s).waiting = s.waiting \ {k} /\ IsFiniteSet(s.waiting)
  BY JudgedNextType, KeyFinite DEF Judgings
<1> HIDE DEF k
<1>2. Cardinality(s.waiting \ {k}) = Cardinality(s.waiting) - 1
  BY <1>1, FS_RemoveElement
<1> QED
  BY <1>1, <1>2

(* Judging the next spends what it frees.                                   *)
LEMMA JudgedNextSpends ==
  ASSUME NEW E, \A k \in Key : E[k].gone \in Nat, NEW due \in SUBSET Key,
         NEW w, w.baseline \in Int, w.low \in Int, w.anchored,
         NEW s, Spent(w, due, s), s.waiting # {}
  PROVE  Spent(w, due, JudgedNext(E, w, s))
<1> DEFINE k == Earliest(E, s.waiting)
<1>1. s \in Judgings(due) /\ s.freed \cap s.waiting = {} /\ s.unseen = {}
      /\ s.low = w.low + Bytes(s.freed) /\ 2 * s.low <= 2 * w.baseline + LargestSize
  BY DEF Spent
<1>2. k \in s.waiting /\ JudgedNext(E, w, s) \in Judgings(due) /\ JudgedNext(E, w, s).waiting = s.waiting \ {k}
  BY <1>1, JudgedNextType
<1>3. /\ k \in Key /\ k \notin s.freed /\ s.freed \in SUBSET Key /\ s.low \in Int
      /\ Size[Card(k)] \in Nat /\ Size[Card(k)] <= LargestSize /\ LargestSize \in Nat /\ Bytes(s.freed) \in Nat
  BY <1>1, <1>2, SizeType, LargestBounds, BytesNat DEF Judgings
<1>4. JudgedNext(E, w, s) = [Paid(E, w, s, k) EXCEPT !.waiting = @ \ {k}]
  BY DEF JudgedNext
<1>5. Paid(E, w, s, k) = IF (w.baseline - s.low) * 2 >= Size[Card(k)]
                         THEN [s EXCEPT !.freed = @ \cup {k}, !.low = s.low + Size[Card(k)]] ELSE s
  BY DEF Paid, Unjudgeable, Spend
<1> HIDE DEF k
<1>6. CASE (w.baseline - s.low) * 2 >= Size[Card(k)]
  <2>1. /\ JudgedNext(E, w, s).freed = s.freed \cup {k}
        /\ JudgedNext(E, w, s).unseen = s.unseen
        /\ JudgedNext(E, w, s).low = s.low + Size[Card(k)]
    BY <1>1, <1>4, <1>5, <1>6 DEF Judgings
  <2>2. Bytes(s.freed \cup {k}) = Size[Card(k)] + Bytes(s.freed)
    BY <1>3, BytesAdd
  <2>3. s.low + Size[Card(k)] = w.low + Bytes(s.freed \cup {k})
    BY <1>1, <1>3, <2>2
  <2>4. 2 * (s.low + Size[Card(k)]) <= 2 * w.baseline + LargestSize
    BY <1>3, <1>6
  <2>5. (s.freed \cup {k}) \cap (s.waiting \ {k}) = {}
    BY <1>1
  <2> QED BY <1>1, <1>2, <2>1, <2>3, <2>4, <2>5 DEF Spent
<1>7. CASE ~((w.baseline - s.low) * 2 >= Size[Card(k)])
  <2>1. /\ JudgedNext(E, w, s).freed = s.freed
        /\ JudgedNext(E, w, s).unseen = s.unseen
        /\ JudgedNext(E, w, s).low = s.low
    BY <1>1, <1>4, <1>5, <1>7 DEF Judgings
  <2> QED BY <1>1, <1>2, <2>1 DEF Spent
<1> QED
  BY <1>6, <1>7

(* Judging spends on each eviction freed its size, of what the disk dropped. *)
LEMMA JudgeSpends ==
  ASSUME NEW E, \A k \in Key : E[k].gone \in Nat, NEW due \in SUBSET Key,
         NEW w, w.baseline \in Int, w.low \in Int, w.anchored, 2 * w.low <= 2 * w.baseline + LargestSize
  PROVE  Spent(w, due, Judge(E, w, due))
<1> DEFINE N == Cardinality(due)
           Step(s) == IF s.waiting = {} THEN s ELSE JudgedNext(E, w, s)
           step == [ns \in (1..N) \X Judgings(due) |-> Step(ns[2])]
           base == Unjudged(w, due)
<1>1. N \in Nat /\ IsFiniteSet(due)
  BY KeyFinite
<1>2. \A s \in Judgings(due) : IsFiniteSet(s.waiting) /\ Cardinality(s.waiting) \in Nat
  BY KeyFinite DEF Judgings
<1>3. base \in Judgings(due) /\ Spent(w, due, base) /\ Cardinality(base.waiting) = N
  <2>1. base \in Judgings(due)
    BY DEF Unjudged, Judgings
  <2>2. w.low = w.low + Bytes({})
    BY BytesEmpty
  <2> QED BY <2>1, <2>2 DEF Unjudged, Spent
<1>4. \A s \in Judgings(due) : Step(s) \in Judgings(due)
  BY JudgedNextType
<1>5. /\ step \in [(1..N) \X Judgings(due) -> Judgings(due)]
      /\ \A n \in 1..N, s \in Judgings(due) : step[<<n, s>>] = Step(s)
  BY <1>4
<1> HIDE DEF step, base, N
<1>6. PICK g \in [0..N -> Judgings(due)] : Walks(g, N, base, step)
  BY <1>1, <1>3, <1>5, WalkExists
<1>7. \A n \in 0..N : g[n] = IF n = 0 THEN base ELSE step[<<n, g[n - 1]>>]
  BY <1>6 DEF Walks
<1> HIDE DEF Step
(* It never runs out before its end. *)
<1>8. ASSUME NEW u, \A n \in 1..N : u[n] = Step(u[n - 1]) \/ u[n] = JudgedNext(E, w, u[n - 1]), u[0] = base
      PROVE  \A n \in 0..N : Spent(w, due, u[n]) /\ Cardinality(u[n].waiting) = N - n
  <2> DEFINE S == {n \in Int : Spent(w, due, u[n]) /\ Cardinality(u[n].waiting) = N - n}
  <2>1. 0 \in S
    BY <1>1, <1>3, <1>8
  <2>2. ASSUME NEW n \in 1..N, n - 1 \in S PROVE n \in S
    <3>1. Spent(w, due, u[n - 1]) /\ Cardinality(u[n - 1].waiting) = N - (n - 1) /\ n \in Int
      BY <2>2
    <3>2. u[n - 1] \in Judgings(due)
      BY <3>1 DEF Spent
    <3>3. u[n - 1].waiting # {} /\ IsFiniteSet(u[n - 1].waiting)
      BY <1>1, <1>2, <3>1, <3>2, FS_EmptySet
    <3>4. u[n] = JudgedNext(E, w, u[n - 1])
      BY <1>8, <3>3 DEF Step
    <3>5. Spent(w, due, u[n])
      BY <3>1, <3>3, <3>4, JudgedNextSpends
    <3>7. Cardinality(u[n].waiting) = Cardinality(u[n - 1].waiting) - 1
      BY <1>2, <3>2, <3>3, <3>4, JudgedNextCounts
    <3>8. Cardinality(u[n].waiting) = N - n
      BY <1>1, <3>1, <3>7
    <3> QED BY <3>1, <3>5, <3>8
  <2> HIDE DEF S
  <2>3. 0..N \subseteq S
    BY <1>1, <2>1, <2>2, UpTo
  <2> QED BY <2>3 DEF S
<1>9. g[0] = base /\ \A n \in 1..N : g[n] = Step(g[n - 1])
  <2>1. g[0] = base
    <3>1. 0 \in 0..N
      BY <1>1
    <3> QED BY <1>7, <3>1
  <2>2. ASSUME NEW n \in 1..N PROVE g[n] = Step(g[n - 1])
    <3>1. n \in 0..N /\ n # 0 /\ n - 1 \in 0..N
      BY <1>1
    <3>2. g[n - 1] \in Judgings(due)
      BY <1>6, <3>1
    <3> QED BY <1>5, <1>7, <3>1, <3>2
  <2> QED BY <2>1, <2>2
<1>10. \A n \in 0..N : Spent(w, due, g[n]) /\ Cardinality(g[n].waiting) = N - n
  BY <1>8, <1>9
<1>11. ASSUME NEW n \in 0..N PROVE g[n] = IF n = 0 THEN base ELSE JudgedNext(E, w, g[n - 1])
  <2>1. CASE n # 0
    <3>1. n \in 1..N /\ n - 1 \in 0..N /\ g[n] = Step(g[n - 1])
      BY <1>1, <1>9, <2>1
    <3>2. Spent(w, due, g[n - 1]) /\ Cardinality(g[n - 1].waiting) = N - (n - 1)
      BY <1>10, <3>1
    <3>3. g[n - 1].waiting # {}
      <4>1. IsFiniteSet(g[n - 1].waiting)
        BY <1>2, <3>2 DEF Spent
      <4> QED BY <1>1, <3>1, <3>2, <4>1, FS_EmptySet
    <3> QED BY <2>1, <3>1, <3>3 DEF Step
  <2> QED BY <1>9, <2>1
<1> DEFINE Run(u) == u = [n \in 0..N |-> IF n = 0 THEN base ELSE JudgedNext(E, w, u[n - 1])]
           u == CHOOSE u : Run(u)
<1>12. g = [n \in 0..N |-> g[n]]
  BY <1>6
<1>13. Run(g)
  BY <1>11, <1>12
<1>14. Run(u)
  BY <1>13, Zenon
<1>15. Judge(E, w, due) = u[N]
  BY Zenon DEF Judge, JudgedNext, N, base, Unjudged
<1>16. \A n \in 0..N : u[n] = IF n = 0 THEN base ELSE JudgedNext(E, w, u[n - 1])
  BY <1>14, Zenon
<1> HIDE DEF u
<1>17. u[0] = base /\ \A n \in 1..N : u[n] = JudgedNext(E, w, u[n - 1])
  BY <1>1, <1>16
<1>18. Spent(w, due, u[N])
  BY <1>1, <1>8, <1>17
<1> QED
  BY <1>15, <1>18

-----------------------------------------------------------------------------
(* What a watch allows.                                                     *)

(* m is what had been downloaded when the reading was made a watch, or the  *)
(* next one, starts at: since then the disk gave back what is missing.       *)
Readings == [known : BOOLEAN, at : Int]
WatchTypes == [baseline : Int, low : Int, since : Nat, anchored : BOOLEAN]
Allowed(w, last, excess, bytes, begun) ==
  /\ w \in WatchTypes /\ last \in Readings
  /\ w # NoWatch => w.anchored /\ last.known
  /\ IF w # NoWatch
     THEN \E m \in 0..bytes : /\ excess <= w.low - m
                              /\ 2 * w.low <= 2 * w.baseline + LargestSize
                              /\ 2 * (w.baseline - m) + LargestSize <= begun * LargestSize
     ELSE IF last.known
     THEN \E m \in 0..bytes : excess <= last.at - m /\ 2 * (last.at - m) <= begun * LargestSize
     ELSE excess <= 0

(* What a watch allows is half the largest card every watch.                *)
LEMMA AllowedCovers ==
  ASSUME NEW w, NEW last, NEW excess \in Int, NEW bytes \in Nat, NEW begun \in Nat,
         Allowed(w, last, excess, bytes, begun)
  PROVE  2 * excess <= begun * LargestSize
<1>1. LargestSize \in Nat /\ begun * LargestSize \in Nat
  BY LargestBounds
<1>2. w \in WatchTypes /\ last \in Readings
  BY DEF Allowed
<1>3. CASE w # NoWatch
  <2>1. PICK m \in 0..bytes : /\ excess <= w.low - m
                              /\ 2 * w.low <= 2 * w.baseline + LargestSize
                              /\ 2 * (w.baseline - m) + LargestSize <= begun * LargestSize
    BY <1>3 DEF Allowed
  <2>2. w.low \in Int /\ w.baseline \in Int
    BY <1>2 DEF WatchTypes
  <2> QED BY <1>1, <2>1, <2>2
<1>4. CASE w = NoWatch /\ last.known
  <2>1. PICK m \in 0..bytes : excess <= last.at - m /\ 2 * (last.at - m) <= begun * LargestSize
    BY <1>4 DEF Allowed
  <2>2. last.at \in Int
    BY <1>2 DEF Readings
  <2> QED BY <1>1, <2>1, <2>2
<1>5. CASE w = NoWatch /\ ~last.known
  BY <1>1, <1>5 DEF Allowed
<1> QED
  BY <1>3, <1>4, <1>5

(* Bytes that go and downloads that come leave it so.                       *)
LEMMA AllowedLess ==
  ASSUME NEW w, NEW last, NEW excess \in Int, NEW bytes \in Nat, NEW begun \in Nat,
         Allowed(w, last, excess, bytes, begun),
         NEW less \in Int, less <= excess, NEW more \in Nat, bytes <= more
  PROVE  Allowed(w, last, less, more, begun)
<1>2. w \in WatchTypes /\ last \in Readings /\ (w # NoWatch => w.anchored /\ last.known)
  BY DEF Allowed
<1>3. CASE w # NoWatch
  <2>1. PICK m \in 0..bytes : /\ excess <= w.low - m
                              /\ 2 * w.low <= 2 * w.baseline + LargestSize
                              /\ 2 * (w.baseline - m) + LargestSize <= begun * LargestSize
    BY <1>3 DEF Allowed
  <2>2. w.low \in Int
    BY <1>2 DEF WatchTypes
  <2>3. m \in 0..more /\ less <= w.low - m
    BY <2>1, <2>2
  <2> QED BY <1>2, <1>3, <2>1, <2>3 DEF Allowed
<1>4. CASE w = NoWatch /\ last.known
  <2>1. PICK m \in 0..bytes : excess <= last.at - m /\ 2 * (last.at - m) <= begun * LargestSize
    BY <1>4 DEF Allowed
  <2>2. last.at \in Int
    BY <1>2 DEF Readings
  <2>3. m \in 0..more /\ less <= last.at - m
    BY <2>1, <2>2
  <2> QED BY <1>2, <1>4, <2>1, <2>3 DEF Allowed
<1>5. CASE w = NoWatch /\ ~last.known
  <2>1. less <= 0
    BY <1>5 DEF Allowed
  <2> QED BY <1>2, <1>5, <2>1 DEF Allowed
<1> QED
  BY <1>3, <1>4, <1>5

(* A watch as it is under way once a disk is read.                          *)
LEMMA WatchOnFits ==
  ASSUME NEW L, NEW v, NEW excess \in Int, NEW bytes \in Nat, NEW begun \in Nat, NEW now \in Nat,
         Allowed(L.watches[v], L.last[v], excess, bytes, begun), L.last[v].known
  PROVE  LET w == WatchOn(L, v, bytes + excess, now)
             c == begun + IF L.watches[v] = NoWatch THEN 1 ELSE 0
         IN  /\ w \in WatchTypes /\ w.anchored
             /\ \E m \in 0..bytes : excess <= w.low - m /\ 2 * (w.baseline - m) + LargestSize <= c * LargestSize
             /\ 2 * w.low <= 2 * w.baseline + LargestSize
<1> DEFINE w == WatchOn(L, v, bytes + excess, now)
           was == L.watches[v]
           last == L.last[v]
           c == begun + IF L.watches[v] = NoWatch THEN 1 ELSE 0
           lower(low) == IF bytes + excess < low THEN bytes + excess ELSE low
<1>1. was \in WatchTypes /\ last \in Readings /\ (was # NoWatch => was.anchored)
  BY DEF Allowed
<1>2. LargestSize \in Nat /\ (begun + 1) * LargestSize = begun * LargestSize + LargestSize /\ begun * LargestSize \in Nat
  BY LargestBounds
<1>3. CASE was # NoWatch
  <2>1. w = [was EXCEPT !.low = lower(was.low)] /\ c = begun
    BY <1>3 DEF WatchOn
  <2>2. was.low \in Int /\ was.baseline \in Int
    BY <1>1 DEF WatchTypes
  <2>3. PICK m \in 0..bytes : /\ excess <= was.low - m
                              /\ 2 * was.low <= 2 * was.baseline + LargestSize
                              /\ 2 * (was.baseline - m) + LargestSize <= begun * LargestSize
    BY <1>3 DEF Allowed
  <2>4. lower(was.low) \in Int /\ lower(was.low) <= was.low /\ excess <= lower(was.low) - m
    BY <2>2, <2>3
  <2> HIDE DEF lower
  <2>5. w \in WatchTypes /\ w.anchored /\ w.low = lower(was.low) /\ w.baseline = was.baseline
    BY <1>1, <1>3, <2>1, <2>4 DEF WatchTypes
  <2>6. 2 * w.low <= 2 * w.baseline + LargestSize
    BY <1>2, <2>2, <2>3, <2>4, <2>5
  <2> HIDE DEF w, c, was
  <2>7. excess <= w.low - m /\ 2 * (w.baseline - m) + LargestSize <= c * LargestSize
    BY <2>1, <2>3, <2>4, <2>5
  <2> QED BY <2>5, <2>6, <2>7 DEF w, c, was
<1>4. CASE was = NoWatch
  <2> DEFINE fresh == [baseline |-> last.at, low |-> last.at, since |-> now, anchored |-> last.known]
  <2>1. w = [fresh EXCEPT !.low = lower(fresh.low)] /\ c = begun + 1
    BY <1>4 DEF WatchOn
  <2>2. last.at \in Int /\ last.known = TRUE
    BY <1>1 DEF Readings
  <2>3. PICK m \in 0..bytes : excess <= last.at - m /\ 2 * (last.at - m) <= begun * LargestSize
    BY <1>4 DEF Allowed
  <2>4. lower(last.at) \in Int /\ lower(last.at) <= last.at /\ excess <= lower(last.at) - m
    BY <2>2, <2>3
  <2> HIDE DEF lower
  <2>5. w \in WatchTypes /\ w.anchored /\ w.low = lower(last.at) /\ w.baseline = last.at
    BY <2>1, <2>2, <2>4 DEF WatchTypes
  <2>6. 2 * w.low <= 2 * w.baseline + LargestSize
    BY <1>2, <2>2, <2>4, <2>5
  <2> HIDE DEF w, c, was, last
  <2>7. excess <= w.low - m /\ 2 * (w.baseline - m) + LargestSize <= c * LargestSize
    BY <1>2, <2>1, <2>2, <2>3, <2>4, <2>5
  <2> QED BY <2>5, <2>6, <2>7 DEF w, c, was, last
<1> QED
  BY <1>3, <1>4

(* One disk settled: what it frees it spends.                               *)
LEMMA SettleAllows ==
  ASSUME NEW L, NEW v, NEW used, NEW library, NEW now \in Nat,
         \A k \in Key : L.entries[k].gone \in Nat,
         NEW excess \in Int, NEW bytes \in Nat, NEW begun \in Nat,
         Allowed(L.watches[v], L.last[v], excess, bytes, begun),
         Other(L.entries, v, used, library) = bytes + excess,
         Gone(L.entries, v) # {} => L.last[v].known
  PROVE  LET s == Settle(L, v, used, library, now)
         IN  /\ s.ended \subseteq Gone(L.entries, v) /\ s.ended = s.freed
             /\ Allowed(s.watch, [known |-> TRUE, at |-> s.last], excess + Bytes(s.ended), bytes,
                        begun + IF Begins(L, v) THEN 1 ELSE 0)
<1> DEFINE s == Settle(L, v, used, library, now)
           E == L.entries
           other == Other(E, v, used, library)
           c == begun + IF Begins(L, v) THEN 1 ELSE 0
<1>1. 2 * excess <= begun * LargestSize /\ LargestSize \in Nat
  BY AllowedCovers, LargestBounds
<1>2. NoWatch \in WatchTypes
  BY DEF NoWatch, WatchTypes
<1>3. CASE Gone(E, v) = {}
  <2>1. s = [ended |-> {}, freed |-> {}, late |-> {}, watch |-> NoWatch, last |-> other] /\ c = begun
    BY <1>3 DEF Settle, Begins
  <2>2. excess + Bytes({}) = excess /\ other = bytes + excess /\ bytes \in 0..bytes
    BY BytesEmpty
  <2>3. [known |-> TRUE, at |-> other] \in Readings /\ excess <= other - bytes /\ 2 * (other - bytes) <= begun * LargestSize
    BY <1>1, <2>2 DEF Readings
  <2> HIDE DEF other
  <2>4. Allowed(NoWatch, [known |-> TRUE, at |-> other], excess, bytes, begun)
    BY <1>2, <2>2, <2>3 DEF Allowed
  <2> HIDE DEF s, c
  <2>5. Allowed(s.watch, [known |-> TRUE, at |-> s.last], excess + Bytes(s.ended), bytes, c)
    BY <2>1, <2>2, <2>4
  <2>6. s.ended \subseteq Gone(L.entries, v) /\ s.ended = s.freed
    BY <2>1
  <2> QED BY <2>5, <2>6 DEF s, c
<1>4. CASE Gone(E, v) # {}
  <2> DEFINE w == WatchOn(L, v, other, now)
             due == DueNow(E, v, now)
             verdict == Judge(E, w, due)
             ended == due \cap (verdict.freed \cup verdict.unseen)
  <2>1. other = bytes + excess /\ c = begun + IF L.watches[v] = NoWatch THEN 1 ELSE 0
    BY <1>4 DEF Begins
  <2>2. /\ w \in WatchTypes /\ w.anchored
        /\ \E m \in 0..bytes : excess <= w.low - m /\ 2 * (w.baseline - m) + LargestSize <= c * LargestSize
        /\ 2 * w.low <= 2 * w.baseline + LargestSize
    <3>1. L.last[v].known
      BY <1>4
    <3>2. w = WatchOn(L, v, bytes + excess, now)
      BY <2>1
    <3> HIDE DEF w, other, c
    <3>3. LET w2 == WatchOn(L, v, bytes + excess, now)
              c2 == begun + IF L.watches[v] = NoWatch THEN 1 ELSE 0
          IN  /\ w2 \in WatchTypes /\ w2.anchored
              /\ \E m \in 0..bytes : excess <= w2.low - m /\ 2 * (w2.baseline - m) + LargestSize <= c2 * LargestSize
              /\ 2 * w2.low <= 2 * w2.baseline + LargestSize
      BY <3>1, WatchOnFits
    <3> QED BY <2>1, <3>2, <3>3
  <2>3. due \subseteq Gone(E, v) /\ Gone(E, v) \subseteq Key
    BY DEF DueNow, Gone
  <2>4. Spent(w, due, verdict)
    <3>1. w.baseline \in Int /\ w.low \in Int
      BY <2>2 DEF WatchTypes
    <3> HIDE DEF w, due
    <3> QED BY <2>2, <2>3, <3>1, JudgeSpends
  <2>5. s = [ended |-> ended, freed |-> due \cap verdict.freed,
             late |-> {k \in due \ ended : E[k].held = 0 /\ now - DueAt(E, k) >= SettleGrace},
             watch |-> IF Gone(E, v) \subseteq ended THEN NoWatch ELSE [w EXCEPT !.low = verdict.low],
             last |-> other + Bytes(ended)]
    BY <1>4 DEF Settle
  <2>6. c \in Nat
    BY <2>1
  <2> HIDE DEF w, due, verdict, s, other, c
  <2>7. ended = verdict.freed /\ due \cap verdict.freed = ended
    BY <2>4 DEF Spent, Judgings
  <2>8. verdict.low = w.low + Bytes(ended) /\ 2 * verdict.low <= 2 * w.baseline + LargestSize /\ verdict.low \in Int
    BY <2>4, <2>7 DEF Spent, Judgings
  <2>9. ended \subseteq Gone(E, v) /\ Bytes(ended) \in Nat
    <3>1. ended \subseteq due
      OBVIOUS
    <3> HIDE DEF ended
    <3> QED BY <2>3, <3>1, BytesNat
  <2>10. s.ended = ended /\ s.freed = ended /\ s.last = other + Bytes(ended)
         /\ s.watch = IF Gone(E, v) \subseteq ended THEN NoWatch ELSE [w EXCEPT !.low = verdict.low]
    BY <2>5, <2>7
  <2> HIDE DEF ended
  <2>11. PICK m \in 0..bytes : excess <= w.low - m /\ 2 * (w.baseline - m) + LargestSize <= c * LargestSize
    BY <2>2
  <2>12. w.low \in Int /\ w.baseline \in Int /\ c * LargestSize \in Int
    BY <1>1, <2>2, <2>6 DEF WatchTypes
  <2>13. excess + Bytes(ended) <= verdict.low - m
    BY <2>8, <2>9, <2>11, <2>12
  <2>14. [known |-> TRUE, at |-> s.last] \in Readings
    BY <2>1, <2>9, <2>10 DEF Readings
  <2>15. CASE Gone(E, v) \subseteq ended
    <3>1. s.watch = NoWatch
      BY <2>10, <2>15
    <3>2. bytes \in 0..bytes /\ excess + Bytes(ended) <= s.last - bytes
      BY <2>1, <2>9, <2>10
    <3>3. 2 * (s.last - bytes) <= c * LargestSize
      BY <1>1, <2>1, <2>8, <2>9, <2>10, <2>11, <2>12, <2>13
    <3>4. Allowed(s.watch, [known |-> TRUE, at |-> s.last], excess + Bytes(ended), bytes, c)
      BY <1>2, <2>14, <3>1, <3>2, <3>3 DEF Allowed
    <3> QED BY <2>9, <2>10, <3>4 DEF s, c
  <2>16. CASE ~(Gone(E, v) \subseteq ended)
    <3>1. s.watch = [w EXCEPT !.low = verdict.low]
      BY <2>10, <2>16
    <3>2. s.watch \in WatchTypes /\ s.watch.anchored /\ s.watch.low = verdict.low /\ s.watch.baseline = w.baseline
      BY <2>2, <2>8, <3>1 DEF WatchTypes
    <3>3. s.watch # NoWatch
      BY <3>2 DEF NoWatch
    <3>4. Allowed(s.watch, [known |-> TRUE, at |-> s.last], excess + Bytes(ended), bytes, c)
      BY <2>8, <2>11, <2>13, <2>14, <3>2, <3>3 DEF Allowed
    <3> QED BY <2>9, <2>10, <3>4 DEF s, c
  <2> QED BY <2>15, <2>16
<1> QED
  BY <1>3, <1>4

-----------------------------------------------------------------------------
(* The books: what a reading of a disk comes to.                            *)

(* Evictions and moves the ledger in memory has an entry of. *)
Tracked(k) == ledger.entries[k] # Untracked
Excess(v) == Bytes(OccupyingOn(v)) - Bytes(FreedOn(v))

(* An entry's disk: the one its card is on or left last, for a move the one  *)
(* it left for the archive.                                                 *)
EntryPlaced(k) ==
  LET e == ledger.entries[k]
  IN  /\ e.volume \in Volume /\ e.handed # 0 /\ ledger.last[e.volume].known
      /\ IF Moved(k) THEN home[Card(k)] = Archive /\ e.volume # Archive ELSE e.volume = home[k]

(* Bytes that left and still occupy a disk have their entry, or settled.     *)
LeftFits ==
  /\ settled \subseteq left /\ left \subseteq Item \X Volume
  /\ \A at \in left :
       /\ ~(at[1] \in disk /\ home[at[1]] = at[2])
       /\ at[2] = home[at[1]] \/ home[at[1]] = Archive
       /\ at \in settled <=> ~\E k \in {at[1], -at[1]} : Tracked(k) /\ ledger.entries[k].volume = at[2]

CycleFits ==
  /\ pc \in {"idle", "read"} => ledger = file
  /\ pc \in {"read", "acting"} => seen.home = home
  /\ pc # "idle" => disk \subseteq seen.library
  /\ pc \in {"read", "acting"} => \A i \in seen.library \ disk : Tracked(i)
  /\ pc \in {"acting", "moving"} => seen.now # 0 /\ \A i \in seen.located : ledger.last[seen.home[i]].known

CoverInv ==
  /\ clock <= MaxTime
  /\ noise \in [Volume -> Nat] /\ watched \in [Volume -> Nat]
  /\ DOMAIN ledger.watches = Volume /\ DOMAIN ledger.last = Volume
  /\ \A k \in Key : Tracked(k) => EntryPlaced(k)
  /\ \A i \in disk : scheduled[i] # 0 <=> Tracked(i)
  /\ LeftFits /\ CycleFits
  /\ \A v \in Volume : Allowed(ledger.watches[v], ledger.last[v], Excess(v), noise[v], watched[v])

(* Nothing but FLINCH's deletions frees space, and no credit is given up.    *)
NothingElse == Disturbance = {} /\ MaxTime <= Stale /\ MaxTime <= HeldCredit

(* Within the time limits no entry is given up: looking at the library only *)
(* says what is gone.                                                       *)
LEMMA SightSame ==
  ASSUME NothingElse, IInv, CoverInv, pc = "read", NEW k \in Key
  PROVE  LET e == Sight(file.entries, seen.library, clock)[k]
         IN  /\ e = Untracked <=> ~Tracked(k)
             /\ e.volume = ledger.entries[k].volume /\ e.handed = ledger.entries[k].handed
             /\ e.gone \in Nat /\ (e.gone # 0 <=> Tracked(k) /\ k \notin seen.library)
<1> DEFINE was == ledger.entries[k]
           e == Sight(file.entries, seen.library, clock)[k]
           s == Sighted(file.entries, k, seen.library, clock)
<1>1. /\ file.entries[k] = was /\ was \in Entry /\ clock \in Nat \ {0} /\ clock <= MaxTime
      /\ was.gone <= clock /\ (was.held # 0 => was.gone # 0)
  BY DEF CoverInv, CycleFits, IInv, LedgersFit, EntriesFit, WorldFits, HeldAfterWindow
<1>2. e = IF s # Untracked /\ GivenUp(s, k, clock) THEN Untracked ELSE s
  BY DEF Sight
<1>3. CASE was = Untracked
  <2>1. s = Untracked
    BY <1>1, <1>3 DEF Sighted
  <2> QED BY <1>2, <1>3, <2>1 DEF Untracked, Tracked
<1>4. CASE was # Untracked
  <2>1. was.volume \in Volume /\ was.handed # 0
    BY <1>4 DEF CoverInv, Tracked, EntryPlaced
  <2>2. s = IF k \in seen.library THEN [was EXCEPT !.gone = 0, !.held = 0]
            ELSE [was EXCEPT !.gone = IF was.gone = 0 THEN clock ELSE was.gone]
    BY <1>1, <1>4 DEF Sighted
  <2>3. /\ s.volume = was.volume /\ s.handed = was.handed /\ s.handed \in Nat \ {0}
        /\ s.gone \in Nat /\ (s.gone # 0 <=> k \notin seen.library)
        /\ s.held \in Nat
    BY <1>1, <2>1, <2>2 DEF Entry
  <2>4. s # Untracked
    BY <2>1, <2>3, LedgerAssumption DEF Untracked
  <2>5. WindowOf(k) \in Nat
    BY WindowType
  <2> HIDE DEF s, was
  <2>6. ~GivenUp(s, k, clock)
    BY <1>1, <2>3, <2>5, LedgerAssumption DEF GivenUp, NothingElse
  <2>7. e = s
    BY <1>2, <2>6
  <2> QED BY <1>4, <2>3, <2>4, <2>7 DEF Tracked, was
<1> QED
  BY <1>3, <1>4

(* The evictions of a disk's cards that are off it. *)
OffOn(v) == {k \in Key : Tracked(k) /\ ledger.entries[k].volume = v /\ k \notin disk}
HeldOn(v) == {k \in OffOn(v) : <<Card(k), v>> \in left}

(* A card's entry is its number, its move's the negative of it.             *)
LEMMA KeyCards ==
  /\ Item \subseteq Key /\ Item \subseteq Nat \ {0}
  /\ \A k \in Key : /\ Card(k) \in Item /\ k \in Int /\ (Moved(k) => k = -Card(k)) /\ (~Moved(k) => k = Card(k))
                    /\ (Moved(k) => k \notin Item)
  /\ \A i \in Item : Card(i) = i /\ Card(-i) = i /\ -i \in Key /\ -i \notin Item /\ ~Moved(i) /\ Moved(-i)
  BY LedgerAssumption DEF Key, Card, Moved

(* A card is credited once a disk. *)
LEMMA CreditedOnce ==
  ASSUME IInv, CoverInv, NEW v \in Volume
  PROVE  \A k, l \in OffOn(v) : Card(k) = Card(l) => k = l
<1> SUFFICES ASSUME NEW k \in OffOn(v), NEW l \in OffOn(v), Card(k) = Card(l), Moved(k), ~Moved(l) PROVE FALSE
  BY KeyCards DEF OffOn
<1>1. EntryPlaced(k) /\ EntryPlaced(l) /\ k \in Key /\ l \in Key
      /\ ledger.entries[k].volume = v /\ ledger.entries[l].volume = v
  BY DEF OffOn, CoverInv
<1>2. home[Card(k)] = Archive /\ v # Archive /\ home[l] = v /\ l = Card(k)
  BY <1>1, KeyCards DEF EntryPlaced
<1> QED
  BY <1>2

(* What is free and credited is off the disk and not in `left`.             *)
LEMMA FreedOff ==
  ASSUME IInv, CoverInv, NEW v \in Volume
  PROVE  /\ FreedOn(v) = OffOn(v) \ HeldOn(v) /\ OffOn(v) \in SUBSET Key
         /\ OccupyingOn(v) \in SUBSET Item /\ OccupyingOn(v) \in SUBSET Key
<1>1. ASSUME NEW k \in Key
      PROVE  k \in FreedOn(v) <=> k \in OffOn(v) /\ k \notin HeldOn(v)
  <2>1. ledger.entries[k].volume = v => Tracked(k)
    BY LedgerAssumption DEF Tracked, Untracked
  <2>2. Tracked(k) /\ ledger.entries[k].volume = v /\ k \in disk => home[k] = v
    <3>1. disk \subseteq Item
      BY DEF IInv, WorldFits
    <3> QED BY <3>1, KeyCards DEF CoverInv, EntryPlaced
  <2> QED BY <2>1, <2>2 DEF FreedOn, OffOn, HeldOn
<1> QED
  BY <1>1, KeyCards DEF FreedOn, OffOn, OccupyingOn

(* What left a disk and occupies it is credited or settled.                 *)
LEMMA LeftOn ==
  ASSUME IInv, CoverInv, NEW v \in Volume
  PROVE  /\ {i \in Item : <<i, v>> \in left} = OccupyingOn(v) \cup {Card(k) : k \in HeldOn(v)}
         /\ OccupyingOn(v) \cap {Card(k) : k \in HeldOn(v)} = {}
<1>1. ASSUME NEW i \in Item, <<i, v>> \in left
      PROVE  <<i, v>> \in settled <=> ~\E k \in {i, -i} : Tracked(k) /\ ledger.entries[k].volume = v
  BY <1>1 DEF CoverInv, LeftFits
<1>2. ASSUME NEW i \in Item, <<i, v>> \in left, NEW k \in {i, -i}, Tracked(k), ledger.entries[k].volume = v
      PROVE  k \in HeldOn(v)
  <2>1. k \in Key /\ Card(k) = i
    BY KeyCards
  <2>2. k \notin disk
    <3> SUFFICES ASSUME k \in disk PROVE FALSE
      OBVIOUS
    <3>1. disk \subseteq Item /\ k \in Item /\ k = i
      BY KeyCards DEF IInv, WorldFits
    <3>2. home[i] = v
      BY <1>2, <3>1, KeyCards DEF CoverInv, EntryPlaced
    <3> QED BY <1>2, <3>1, <3>2 DEF CoverInv, LeftFits
  <2> QED BY <1>2, <2>1, <2>2 DEF HeldOn, OffOn
<1>3. ASSUME NEW k \in HeldOn(v)
      PROVE  Card(k) \in Item /\ <<Card(k), v>> \in left /\ <<Card(k), v>> \notin settled
  <2>1. k \in Key /\ Tracked(k) /\ ledger.entries[k].volume = v /\ <<Card(k), v>> \in left
    BY DEF HeldOn, OffOn
  <2>2. Card(k) \in Item /\ k \in {Card(k), -Card(k)}
    BY <2>1, KeyCards
  <2> QED BY <1>1, <2>1, <2>2
<1>4. \A i \in Item : <<i, v>> \in settled => <<i, v>> \in left
  BY DEF CoverInv, LeftFits
<1>5. ASSUME NEW i \in Item
      PROVE  <<i, v>> \in left <=> i \in OccupyingOn(v) \/ i \in {Card(k) : k \in HeldOn(v)}
  <2>1. CASE <<i, v>> \in left /\ <<i, v>> \notin settled
    <3>1. PICK k \in {i, -i} : Tracked(k) /\ ledger.entries[k].volume = v
      BY <1>1, <2>1
    <3>2. k \in HeldOn(v) /\ Card(k) = i
      BY <1>2, <2>1, <3>1, KeyCards
    <3> QED BY <2>1, <3>2
  <2>2. CASE <<i, v>> \in settled
    BY <1>4, <2>2 DEF OccupyingOn
  <2>3. CASE <<i, v>> \notin left
    BY <1>3, <1>4, <2>3 DEF OccupyingOn
  <2> QED BY <2>1, <2>2, <2>3
<1>6. \A i \in OccupyingOn(v) : i \in Item /\ <<i, v>> \in settled
  BY DEF OccupyingOn
<1> QED
  BY <1>3, <1>5, <1>6

(* The excess is a whole number.                                            *)
LEMMA ExcessType ==
  ASSUME IInv, CoverInv, NEW v \in Volume
  PROVE  Excess(v) \in Int
<1>1. FreedOn(v) \in SUBSET Key /\ OccupyingOn(v) \in SUBSET Key
  BY FreedOff
<1>2. Bytes(FreedOn(v)) \in Nat /\ Bytes(OccupyingOn(v)) \in Nat
  BY <1>1, BytesNat
<1> QED
  BY <1>2 DEF Excess

(* What a reading says beyond the library and the credit: downloads, and     *)
(* what ended too early, less what is free and still credited.              *)
LEMMA OtherIs ==
  ASSUME NothingElse, IInv, CoverInv, pc = "read", NEW v \in Volume
  PROVE  Other(Sight(file.entries, seen.library, clock), v, Used(v), Bytes(LibraryOn(v))) = noise[v] + Excess(v)
<1> DEFINE E == Sight(file.entries, seen.library, clock)
           here == {i \in disk : home[i] = v}
           away == {i \in seen.library \ disk : home[i] = v}
           gone == Gone(E, v)
           heldCards == {Card(k) : k \in HeldOn(v)}
           there == {i \in Item : <<i, v>> \in left}
<1>1. /\ disk \subseteq Item /\ seen.library \subseteq Item /\ disk \subseteq seen.library /\ seen.home = home
      /\ \A i \in seen.library \ disk : Tracked(i)
      /\ noise[v] \in Nat
  BY DEF IInv, WorldFits, SeenFits, CoverInv, CycleFits
<1>2. LibraryOn(v) = here \cup away /\ here \cap away = {}
  BY <1>1 DEF LibraryOn
<1>3. here \in SUBSET Key /\ away \in SUBSET Key /\ gone \in SUBSET Key /\ there \in SUBSET Key
  BY <1>1, KeyCards DEF Gone
<1>4. OffOn(v) = away \cup gone /\ away \cap gone = {}
  <2>1. ASSUME NEW k \in Key
        PROVE  /\ k \in OffOn(v) <=> k \in away \/ k \in gone
               /\ ~(k \in away /\ k \in gone)
    <3>1. k \in gone <=> Tracked(k) /\ k \notin seen.library /\ ledger.entries[k].volume = v
      BY SightSame DEF Gone
    <3>2. k \in seen.library \ disk => Tracked(k) /\ ledger.entries[k].volume = home[k]
      BY <1>1, KeyCards DEF CoverInv, EntryPlaced
    <3>3. k \in OffOn(v) <=> Tracked(k) /\ ledger.entries[k].volume = v /\ k \notin disk
      BY DEF OffOn
    <3> HIDE DEF gone
    <3> QED BY <1>1, <3>1, <3>2, <3>3
  <2>2. OffOn(v) \subseteq Key
    BY DEF OffOn
  <2> HIDE DEF away, gone
  <2> QED BY <1>3, <2>1, <2>2
<1>5. /\ FreedOn(v) = OffOn(v) \ HeldOn(v) /\ OffOn(v) \in SUBSET Key /\ HeldOn(v) \in SUBSET OffOn(v)
      /\ OccupyingOn(v) \in SUBSET Key
  BY FreedOff DEF HeldOn
<1>6. /\ there = OccupyingOn(v) \cup heldCards /\ OccupyingOn(v) \cap heldCards = {}
  BY LeftOn
<1>7. heldCards \in SUBSET Key /\ Bytes(heldCards) = Bytes(HeldOn(v))
  <2>1. HeldOn(v) \in SUBSET Key /\ \A k, l \in HeldOn(v) : Card(k) = Card(l) => k = l
    BY <1>5, CreditedOnce
  <2> QED BY <2>1, BytesCards, KeyCards
<1>8. /\ Used(v) = noise[v] + Bytes(here) + Bytes(there)
      /\ Excess(v) = Bytes(OccupyingOn(v)) - Bytes(FreedOn(v))
      /\ Other(E, v, Used(v), Bytes(LibraryOn(v))) = Used(v) - Bytes(LibraryOn(v)) - Bytes(gone)
  BY DEF Used, Excess, Other
<1> HIDE DEF E, here, away, gone, heldCards, there
<1>9. Bytes(LibraryOn(v)) = Bytes(here) + Bytes(away)
  BY <1>2, <1>3, BytesUnion
<1>10. Bytes(OffOn(v)) = Bytes(away) + Bytes(gone)
  BY <1>3, <1>4, BytesUnion
<1>11. Bytes(OffOn(v)) = Bytes(HeldOn(v)) + Bytes(FreedOn(v))
  BY <1>5, BytesWithout
<1>12. Bytes(there) = Bytes(OccupyingOn(v)) + Bytes(heldCards)
  BY <1>5, <1>6, <1>7, BytesUnion
<1>13. /\ Bytes(here) \in Nat /\ Bytes(away) \in Nat /\ Bytes(gone) \in Nat /\ Bytes(HeldOn(v)) \in Nat
       /\ Bytes(FreedOn(v)) \in Nat /\ Bytes(OccupyingOn(v)) \in Nat
  <2>1. HeldOn(v) \in SUBSET Key /\ FreedOn(v) \in SUBSET Key
    BY <1>5
  <2> QED BY <1>3, <1>5, <2>1, BytesNat
<1> DEFINE other == Other(E, v, Used(v), Bytes(LibraryOn(v)))
<1>14. other = noise[v] + Excess(v)
  <2> HIDE DEF other
  <2>1. other = Used(v) - Bytes(LibraryOn(v)) - Bytes(gone)
    BY <1>8 DEF other
  <2> QED BY <1>1, <1>7, <1>8, <1>9, <1>10, <1>11, <1>12, <1>13, <2>1
<1> QED
  BY <1>14 DEF E

-----------------------------------------------------------------------------
(* The books step by step.                                                  *)

(* A part of a set has no more bytes than it.                               *)
LEMMA BytesLess ==
  ASSUME NEW S \in SUBSET Key, NEW T \in SUBSET S
  PROVE  Bytes(T) <= Bytes(S)
<1>1. Bytes(S) = Bytes(T) + Bytes(S \ T)
  BY BytesWithout
<1>2. T \in SUBSET Key /\ S \ T \in SUBSET Key
  OBVIOUS
<1>3. Bytes(T) \in Nat /\ Bytes(S \ T) \in Nat
  BY <1>2, BytesNat
<1> QED
  BY <1>1, <1>3

(* Where less occupies a disk, or more of what is free is credited.         *)
LEMMA BooksShrink ==
  ASSUME IInv, CoverInv, NEW v \in Volume,
         ledger'.watches = ledger.watches, ledger'.last = ledger.last, watched' = watched,
         noise' \in [Volume -> Nat], noise[v] <= noise'[v],
         OccupyingOn(v)' \subseteq OccupyingOn(v), FreedOn(v) \subseteq FreedOn(v)'
  PROVE  Allowed(ledger'.watches[v], ledger'.last[v], Excess(v)', noise'[v], watched'[v])
<1>1. /\ FreedOn(v) \in SUBSET Key /\ OccupyingOn(v) \in SUBSET Key
      /\ FreedOn(v)' \in SUBSET Key /\ OccupyingOn(v)' \in SUBSET Key
      /\ OccupyingOn(v)' \in SUBSET OccupyingOn(v) /\ FreedOn(v) \in SUBSET FreedOn(v)'
  BY FreedOff DEF FreedOn
<1>2. /\ Bytes(FreedOn(v)) \in Nat /\ Bytes(OccupyingOn(v)) \in Nat
      /\ Bytes(FreedOn(v)') \in Nat /\ Bytes(OccupyingOn(v)') \in Nat
  BY <1>1, BytesNat
<1>3. Bytes(OccupyingOn(v)') <= Bytes(OccupyingOn(v)) /\ Bytes(FreedOn(v)) <= Bytes(FreedOn(v)')
  BY <1>1, BytesLess
<1>4. Excess(v)' = Bytes(OccupyingOn(v)') - Bytes(FreedOn(v)') /\ Excess(v) = Bytes(OccupyingOn(v)) - Bytes(FreedOn(v))
  BY DEF Excess
<1>5. Excess(v) \in Int /\ Excess(v)' \in Int /\ Excess(v)' <= Excess(v)
  BY <1>2, <1>3, <1>4
<1>6. /\ noise[v] \in Nat /\ noise'[v] \in Nat /\ watched[v] \in Nat
      /\ Allowed(ledger.watches[v], ledger.last[v], Excess(v), noise[v], watched[v])
  BY DEF CoverInv
<1>7. Allowed(ledger.watches[v], ledger.last[v], Excess(v)', noise'[v], watched[v])
  BY <1>5, <1>6, AllowedLess
<1> QED
  BY <1>7

(* At the start nothing is credited and nothing settled.                    *)
LEMMA InitCover == Init => CoverInv
<1> SUFFICES ASSUME Init PROVE CoverInv
  OBVIOUS
<1>1. /\ clock = 1 /\ left = {} /\ settled = {} /\ pc = "idle" /\ ledger = file
      /\ noise = [v \in Volume |-> 0] /\ watched = [v \in Volume |-> 0]
      /\ scheduled = [i \in Item |-> 0] /\ disk = Item
  BY DEF Init
<1>2. /\ ledger.entries = [k \in Key |-> Untracked] /\ ledger.watches = [v \in Volume |-> NoWatch]
      /\ \/ ledger.last = [v \in Volume |-> Unread]
         \/ ledger.last = [v \in Volume |-> [known |-> TRUE, at |-> 0]]
  <2>1. ledger = Empty \/ ledger = [Empty EXCEPT !.last = [v \in Volume |-> [known |-> TRUE, at |-> 0]]]
    BY <1>1 DEF Init
  <2>2. /\ Empty.entries = [k \in Key |-> Untracked] /\ Empty.watches = [v \in Volume |-> NoWatch]
        /\ Empty.last = [v \in Volume |-> Unread] /\ DOMAIN Empty = {"entries", "watches", "last"}
    BY DEF Empty
  <2>3. CASE ledger = Empty
    BY <2>2, <2>3
  <2>4. CASE ledger = [Empty EXCEPT !.last = [v \in Volume |-> [known |-> TRUE, at |-> 0]]]
    BY <2>2, <2>4
  <2> QED BY <2>1, <2>3, <2>4
<1>3. \A k \in Key : ~Tracked(k)
  BY <1>2 DEF Tracked
<1>4. Item \subseteq Key
  BY KeyCards
<1>5. ASSUME NEW v \in Volume
      PROVE  Allowed(ledger.watches[v], ledger.last[v], Excess(v), noise[v], watched[v])
  <2>1. OccupyingOn(v) = {} /\ FreedOn(v) = {}
    BY <1>1, <1>2, LedgerAssumption DEF OccupyingOn, FreedOn, Untracked
  <2>2. Excess(v) = 0
    BY <2>1, BytesEmpty DEF Excess
  <2>3. NoWatch \in WatchTypes /\ Unread \in Readings /\ [known |-> TRUE, at |-> 0] \in Readings
        /\ 0 * LargestSize = 0 /\ 0 \in 0..0
    BY LargestBounds DEF NoWatch, WatchTypes, Unread, Readings
  <2>4. Allowed(NoWatch, Unread, 0, 0, 0)
    BY <2>3 DEF Allowed, Unread
  <2>5. Allowed(NoWatch, [known |-> TRUE, at |-> 0], 0, 0, 0)
    BY <2>3 DEF Allowed
  <2>6. ledger.watches[v] = NoWatch /\ noise[v] = 0 /\ watched[v] = 0
        /\ (ledger.last[v] = Unread \/ ledger.last[v] = [known |-> TRUE, at |-> 0])
    BY <1>1, <1>2
  <2> QED BY <2>2, <2>4, <2>5, <2>6
<1>6. LeftFits
  BY <1>1 DEF LeftFits
<1>7. CycleFits
  BY <1>1 DEF CycleFits
<1> QED
  BY <1>1, <1>2, <1>3, <1>4, <1>5, <1>6, <1>7, LedgerAssumption DEF CoverInv

(* A step that leaves the ledger's books and the world's bytes alone.       *)
LEMMA BooksStay ==
  ASSUME IInv, CoverInv, clock' <= MaxTime, noise' \in [Volume -> Nat], \A v \in Volume : noise[v] <= noise'[v],
         UNCHANGED <<disk, home, left, scheduled, ledger, settled, watched>>, CycleFits'
  PROVE  CoverInv'
<1>1. /\ disk' = disk /\ home' = home /\ left' = left /\ scheduled' = scheduled /\ ledger' = ledger
      /\ settled' = settled /\ watched' = watched
  OBVIOUS
<1>2. ASSUME NEW v \in Volume
      PROVE  Allowed(ledger'.watches[v], ledger'.last[v], Excess(v)', noise'[v], watched'[v])
  <2>1. OccupyingOn(v)' = OccupyingOn(v) /\ FreedOn(v)' = FreedOn(v)
    BY <1>1 DEF OccupyingOn, FreedOn
  <2> QED BY <1>1, <2>1, BooksShrink
<1>3. LeftFits'
  BY <1>1 DEF CoverInv, LeftFits, Tracked
<1>4. /\ \A k \in Key : Tracked(k)' <=> Tracked(k)
      /\ \A k \in Key : EntryPlaced(k)' <=> EntryPlaced(k)
  BY <1>1 DEF Tracked, EntryPlaced
<1> QED
  BY <1>1, <1>2, <1>3, <1>4, KeyCards DEF CoverInv, IInv, WorldFits

(* Reading the library moves no bytes.                                      *)
LEMMA ReadLibraryCover == NothingElse /\ IInv /\ CoverInv /\ ReadLibrary => CoverInv'
<1> SUFFICES ASSUME NothingElse, IInv, CoverInv, ReadLibrary PROVE CoverInv'
  OBVIOUS
<1>1. /\ pc = "idle" /\ pc' = "read" /\ seen'.library = disk /\ seen'.home = home
      /\ file' = file /\ ledger' = ledger /\ clock' = clock /\ UNCHANGED <<world, history>>
  BY DEF ReadLibrary, Nothing
<1>2. CycleFits'
  BY <1>1 DEF CoverInv, CycleFits, world
<1> QED
  BY <1>1, <1>2, BooksStay DEF CoverInv, world, history

(* Neither does a Maintainerr that cannot be read.                          *)
LEMMA UnreadableCover == NothingElse /\ IInv /\ CoverInv /\ Unreadable => CoverInv'
<1> SUFFICES ASSUME NothingElse, IInv, CoverInv, Unreadable PROVE CoverInv'
  OBVIOUS
<1>1. pc = "acting" /\ pc' = "moving" /\ clock' = clock /\ UNCHANGED <<world, file, ledger, seen, history>>
  BY DEF Unreadable
<1>2. CycleFits'
  BY <1>1 DEF CoverInv, CycleFits, world, Tracked
<1> QED
  BY <1>1, <1>2, BooksStay DEF CoverInv, world, history

(* Neither does saving.                                                     *)
LEMMA SaveCover == NothingElse /\ IInv /\ CoverInv /\ Save => CoverInv'
<1> SUFFICES ASSUME NothingElse, IInv, CoverInv, Save PROVE CoverInv'
  OBVIOUS
<1>1. pc' = "idle" /\ ledger' = ledger /\ file' = ledger /\ clock' = clock
      /\ UNCHANGED <<world, settled, watched>>
  BY DEF Save, NothingElse
<1>2. CycleFits'
  BY <1>1 DEF CycleFits
<1> QED
  BY <1>1, <1>2, BooksStay DEF CoverInv, world, history

(* Neither does time.                                                       *)
LEMMA TickCover == NothingElse /\ IInv /\ CoverInv /\ Tick => CoverInv'
<1> SUFFICES ASSUME NothingElse, IInv, CoverInv, Tick PROVE CoverInv'
  OBVIOUS
<1>1. clock' <= MaxTime /\ UNCHANGED <<world, history, daemon>>
  BY LedgerAssumption DEF Tick, IInv, WorldFits
<1>2. CycleFits'
  BY <1>1 DEF CoverInv, CycleFits, world, daemon, Tracked
<1> QED
  BY <1>1, <1>2, BooksStay DEF CoverInv, world, daemon, history

(* A download hides a drop and never makes one.                             *)
LEMMA DownloadCover == ASSUME NEW v \in Volume PROVE NothingElse /\ IInv /\ CoverInv /\ Download(v) => CoverInv'
<1> SUFFICES ASSUME NothingElse, IInv, CoverInv, Download(v) PROVE CoverInv'
  OBVIOUS
<1>1. noise' = [noise EXCEPT ![v] = @ + 1] /\ UNCHANGED <<clock, disk, home, left, scheduled, history, daemon>>
  BY DEF Download
<1>2. noise \in [Volume -> Nat] /\ clock <= MaxTime
  BY DEF CoverInv
<1>3. noise' \in [Volume -> Nat] /\ \A u \in Volume : noise[u] <= noise'[u]
  BY <1>1, <1>2
<1>4. CycleFits'
  BY <1>1 DEF CoverInv, CycleFits, daemon, Tracked
<1> QED
  BY <1>1, <1>2, <1>3, <1>4, BooksStay DEF daemon, history

(* Bytes freed settle what had settled early, or wait for a reading.        *)
LEMMA FreesCover ==
  ASSUME NEW i \in Item, NEW v \in Volume
  PROVE  NothingElse /\ IInv /\ CoverInv /\ Frees(i, v) => CoverInv'
<1> SUFFICES ASSUME NothingElse, IInv, CoverInv, Frees(i, v) PROVE CoverInv'
  OBVIOUS
<1>1. /\ left' = left \ {<<i, v>>} /\ settled' = settled \ {<<i, v>>}
      /\ UNCHANGED <<watched, clock, disk, home, noise, scheduled, daemon>>
  BY DEF Frees
<1>2. /\ ledger' = ledger /\ disk' = disk /\ home' = home /\ noise' = noise /\ watched' = watched /\ clock' = clock
      /\ scheduled' = scheduled
  BY <1>1 DEF daemon
<1>3. noise \in [Volume -> Nat] /\ \A u \in Volume : noise[u] <= noise'[u]
  BY <1>2 DEF CoverInv
<1>4. ASSUME NEW u \in Volume
      PROVE  Allowed(ledger'.watches[u], ledger'.last[u], Excess(u)', noise'[u], watched'[u])
  <2>1. OccupyingOn(u)' \subseteq OccupyingOn(u)
    BY <1>1 DEF OccupyingOn
  <2>2. FreedOn(u) \subseteq FreedOn(u)'
    BY <1>1, <1>2 DEF FreedOn
  <2> QED BY <1>2, <1>3, <2>1, <2>2, BooksShrink
<1>5. /\ \A k \in Key : Tracked(k)' <=> Tracked(k)
      /\ \A k \in Key : EntryPlaced(k)' <=> EntryPlaced(k)
  BY <1>2 DEF Tracked, EntryPlaced
<1>6. LeftFits'
  BY <1>1, <1>2 DEF CoverInv, LeftFits, Tracked
<1>7. CycleFits'
  BY <1>1, <1>2 DEF CoverInv, CycleFits, daemon, Tracked
<1> QED
  BY <1>2, <1>3, <1>4, <1>5, <1>6, <1>7, KeyCards DEF CoverInv, IInv, WorldFits

(* A card deleted, by FLINCH or by Maintainerr, is credited as it goes.     *)
LEMMA LeavesCover ==
  ASSUME NothingElse, IInv, CoverInv, NEW i \in disk, <<i, home[i]>> \notin left,
         disk' = disk \ {i}, left' = left \cup {<<i, home[i]>>}, scheduled' = [scheduled EXCEPT ![i] = 0],
         UNCHANGED <<clock, home, noise, history, file, seen, pc>>,
         ledger'.watches = ledger.watches, ledger'.last = ledger.last,
         \A k \in Key \ {i} : ledger'.entries[k] = ledger.entries[k],
         ledger'.entries[i].volume = home[i], ledger'.entries[i].handed # 0, ledger.last[home[i]].known,
         pc \in {"idle", "read"} => ledger' = ledger
  PROVE  CoverInv'
<1>1. /\ i \in Item /\ disk \subseteq Item /\ home[i] \in Volume /\ scheduled \in [Item -> Nat]
      /\ clock' = clock /\ home' = home /\ noise' = noise /\ settled' = settled /\ watched' = watched
      /\ file' = file /\ seen' = seen /\ pc' = pc
  BY DEF IInv, WorldFits, history
<1>2. i \in Key /\ Card(i) = i /\ ~Moved(i) /\ -i \in Key /\ Item \subseteq Key
      /\ \A k \in Key : Card(k) = i => k = i \/ k = -i
  BY <1>1, KeyCards
<1>3. Tracked(i)' /\ \A k \in Key \ {i} : Tracked(k)' <=> Tracked(k)
  BY <1>1, LedgerAssumption DEF Tracked, Untracked
<1>4. /\ Tracked(i) => ledger.entries[i].volume = home[i]
      /\ Tracked(-i) => home[i] = Archive /\ ledger.entries[-i].volume # Archive
  BY <1>1, <1>2, KeyCards DEF CoverInv, EntryPlaced
<1>5. \A k \in Key : Tracked(k)' => EntryPlaced(k)'
  <2>1. EntryPlaced(i)'
    BY <1>1, <1>2 DEF EntryPlaced
  <2>2. \A k \in Key \ {i} : EntryPlaced(k) => EntryPlaced(k)'
    BY <1>1 DEF EntryPlaced
  <2> QED BY <1>3, <2>1, <2>2 DEF CoverInv
<1>6. ASSUME NEW v \in Volume
      PROVE  Allowed(ledger'.watches[v], ledger'.last[v], Excess(v)', noise'[v], watched'[v])
  <2>1. OccupyingOn(v)' = OccupyingOn(v)
    BY <1>1 DEF OccupyingOn
  <2>2. ASSUME NEW k \in FreedOn(v) PROVE k \in FreedOn(v)'
    <3>1. k \in Key /\ ledger.entries[k].volume = v /\ <<Card(k), v>> \notin left /\ (k \in disk => home[k] # v)
      BY DEF FreedOn
    <3>2. Tracked(k)
      BY <3>1, LedgerAssumption DEF Tracked, Untracked
    <3>3. k # i
      BY <1>4, <3>1, <3>2
    <3>4. ~(Card(k) = i /\ v = home[i])
      BY <1>2, <1>4, <3>1, <3>2, <3>3
    <3> QED BY <1>1, <3>1, <3>3, <3>4 DEF FreedOn
  <2>3. noise' \in [Volume -> Nat] /\ noise[v] <= noise'[v]
    BY <1>1 DEF CoverInv
  <2> QED BY <1>1, <2>1, <2>2, <2>3, BooksShrink
<1>7. LeftFits'
  <2>1. settled' \subseteq left' /\ left' \subseteq Item \X Volume
    BY <1>1 DEF CoverInv, LeftFits
  <2>2. ASSUME NEW at \in left', at # <<i, home[i]>>
        PROVE  /\ ~(at[1] \in disk' /\ home'[at[1]] = at[2])
               /\ at[2] = home'[at[1]] \/ home'[at[1]] = Archive
               /\ at \in settled' <=> ~\E k \in {at[1], -at[1]} : Tracked(k)' /\ ledger'.entries[k].volume = at[2]
    <3>1. at \in left /\ at[1] \in Item /\ at[2] \in Volume /\ at = <<at[1], at[2]>>
      BY <2>2 DEF CoverInv, LeftFits
    <3>2. /\ ~(at[1] \in disk /\ home[at[1]] = at[2]) /\ (at[2] = home[at[1]] \/ home[at[1]] = Archive)
          /\ at \in settled <=> ~\E k \in {at[1], -at[1]} : Tracked(k) /\ ledger.entries[k].volume = at[2]
      BY <3>1 DEF CoverInv, LeftFits
    <3>3. at[1] \in Key /\ -at[1] \in Key /\ -at[1] # i
      BY <1>1, <3>1, KeyCards
    <3>4. ASSUME NEW k \in {at[1], -at[1]}
          PROVE  (Tracked(k)' /\ ledger'.entries[k].volume = at[2]) <=> (Tracked(k) /\ ledger.entries[k].volume = at[2])
      <4>1. CASE k = i
        <5>1. at[1] = i /\ at[2] # home[i]
          BY <2>2, <3>1, <3>3, <4>1
        <5> QED BY <1>4, <4>1, <5>1
      <4>2. CASE k # i
        BY <1>3, <3>3, <4>2
      <4> QED BY <4>1, <4>2
    <3> QED BY <1>1, <3>2, <3>4
  <2>3. /\ ~(i \in disk' /\ home'[i] = home[i]) /\ home[i] = home'[i]
        /\ <<i, home[i]>> \notin settled' /\ Tracked(i)' /\ ledger'.entries[i].volume = home[i]
    BY <1>1, <1>3 DEF CoverInv, LeftFits
  <2>4. \A at \in left' : /\ ~(at[1] \in disk' /\ home'[at[1]] = at[2])
                          /\ at[2] = home'[at[1]] \/ home'[at[1]] = Archive
                          /\ at \in settled' <=> ~\E k \in {at[1], -at[1]} :
                                                    Tracked(k)' /\ ledger'.entries[k].volume = at[2]
    <3> SUFFICES ASSUME NEW at \in left', at = <<i, home[i]>>
                 PROVE  /\ ~(at[1] \in disk' /\ home'[at[1]] = at[2])
                        /\ at[2] = home'[at[1]] \/ home'[at[1]] = Archive
                        /\ at \in settled' <=> ~\E k \in {at[1], -at[1]} :
                                                  Tracked(k)' /\ ledger'.entries[k].volume = at[2]
      BY <2>2
    <3> QED BY <2>3
  <2> QED BY <2>1, <2>4 DEF LeftFits
<1>8. CycleFits'
  <2>1. \A j \in Item : Tracked(j) => Tracked(j)'
    BY <1>2, <1>3
  <2>2. seen.library \subseteq Item
    BY DEF IInv, SeenFits
  <2> QED BY <1>1, <1>3, <2>1, <2>2 DEF CoverInv, CycleFits
<1>9. \A j \in disk' : scheduled'[j] # 0 <=> Tracked(j)'
  BY <1>1, <1>2, <1>3 DEF CoverInv
<1> QED
  BY <1>1, <1>5, <1>6, <1>7, <1>8, <1>9 DEF CoverInv

(* A card FLINCH deletes itself is credited before it occupies a bin.       *)
LEMMA EvictCover == ASSUME NEW i \in Item PROVE NothingElse /\ IInv /\ CoverInv /\ Evict(i) => CoverInv'
<1> SUFFICES ASSUME NothingElse, IInv, CoverInv, Evict(i) PROVE CoverInv'
  OBVIOUS
<1> DEFINE entry == Recorded(ledger.entries[i], seen.home[i], seen.now)
<1>1. /\ pc = "acting" /\ i \in disk /\ i \in seen.located /\ <<i, home[i]>> \notin left
      /\ disk' = disk \ {i} /\ left' = left \cup {<<i, home[i]>>} /\ scheduled' = [scheduled EXCEPT ![i] = 0]
      /\ ledger' = [ledger EXCEPT !.entries[i] = entry]
      /\ UNCHANGED <<clock, home, noise, history, file, seen, pc>>
  BY DEF Evict
<1>2. /\ seen.home = home /\ seen.now # 0 /\ ledger.last[home[i]].known
      /\ Tracked(i) => ledger.entries[i].volume = home[i] /\ ledger.entries[i].handed # 0
  BY <1>1, KeyCards DEF CoverInv, CycleFits, EntryPlaced
<1>3. entry.volume = home[i] /\ entry.handed # 0
  BY <1>2 DEF Recorded, Eviction, Tracked
<1>4. i \in Key /\ DOMAIN ledger = {"entries", "watches", "last"} /\ DOMAIN ledger.entries = Key
  BY KeyCards DEF IInv, LedgersFit, EntriesFit
<1> HIDE DEF entry
<1>5. /\ ledger'.watches = ledger.watches /\ ledger'.last = ledger.last
      /\ \A k \in Key \ {i} : ledger'.entries[k] = ledger.entries[k]
      /\ ledger'.entries[i] = entry
  BY <1>1, <1>4
<1> QED
  BY <1>1, <1>2, <1>3, <1>5, LeavesCover

(* A card Maintainerr deletes had its entry from its hand-over.             *)
LEMMA DeletedCover == ASSUME NEW i \in Item PROVE NothingElse /\ IInv /\ CoverInv /\ Deleted(i) => CoverInv'
<1> SUFFICES ASSUME NothingElse, IInv, CoverInv, Deleted(i) PROVE CoverInv'
  OBVIOUS
<1>1. /\ i \in disk /\ <<i, home[i]>> \notin left /\ scheduled[i] # 0
      /\ disk' = disk \ {i} /\ left' = left \cup {<<i, home[i]>>} /\ scheduled' = [scheduled EXCEPT ![i] = 0]
      /\ UNCHANGED <<clock, home, noise, history, daemon>>
  BY DEF Deleted, NothingElse
<1>2. Tracked(i) /\ i \in Key /\ ~Moved(i) /\ Card(i) = i
  BY <1>1, KeyCards DEF CoverInv
<1>3. ledger.entries[i].volume = home[i] /\ ledger.entries[i].handed # 0 /\ ledger.last[home[i]].known
  BY <1>2 DEF CoverInv, EntryPlaced
<1>4. UNCHANGED <<clock, home, noise, history, file, seen, pc>> /\ ledger' = ledger
  BY <1>1 DEF daemon
<1> QED
  BY <1>1, <1>3, <1>4, LeavesCover

(* A card moved is credited to the disk it left.                            *)
LEMMA MoveCover == ASSUME NEW i \in Item PROVE NothingElse /\ IInv /\ CoverInv /\ MoveToArchive(i) => CoverInv'
<1> SUFFICES ASSUME NothingElse, IInv, CoverInv, MoveToArchive(i) PROVE CoverInv'
  OBVIOUS
<1> DEFINE entry == RecordedMove(seen.home[i], seen.now)
<1>1. /\ pc = "moving" /\ scheduled[i] = 0 /\ i \in disk /\ i \in seen.located /\ home[i] = seen.home[i]
      /\ home[i] # Archive /\ <<i, home[i]>> \notin left /\ Archive \in Volume
      /\ home' = [home EXCEPT ![i] = Archive] /\ left' = left \cup {<<i, home[i]>>}
      /\ ledger' = [ledger EXCEPT !.entries[-i] = entry]
      /\ clock' = clock /\ disk' = disk /\ noise' = noise /\ scheduled' = scheduled /\ file' = file /\ seen' = seen
      /\ pc' = pc /\ settled' = settled /\ watched' = watched
  BY LedgerAssumption DEF MoveToArchive, history
<1>2. /\ i \in Key /\ Card(i) = i /\ ~Moved(i) /\ -i \in Key /\ Item \subseteq Key /\ Card(-i) = i /\ Moved(-i) /\ -i \notin Item
      /\ -i # i /\ \A k \in Key : Card(k) = i => k = i \/ k = -i
  BY KeyCards
<1>3. disk \subseteq Item /\ home \in [Item -> Volume] /\ seen.now # 0 /\ ledger.last[home[i]].known
  BY <1>1 DEF IInv, WorldFits, CoverInv, CycleFits
<1>4. ~Tracked(i) /\ ~Tracked(-i)
  BY <1>1, <1>2 DEF CoverInv, EntryPlaced
<1>5. entry.volume = home[i] /\ entry.handed # 0 /\ entry # Untracked
  BY <1>1, <1>3, LedgerAssumption DEF RecordedMove, Eviction, Untracked
<1>6. DOMAIN ledger = {"entries", "watches", "last"} /\ DOMAIN ledger.entries = Key
  BY DEF IInv, LedgersFit, EntriesFit
<1> HIDE DEF entry
<1>7. /\ ledger'.watches = ledger.watches /\ ledger'.last = ledger.last
      /\ \A k \in Key \ {-i} : ledger'.entries[k] = ledger.entries[k]
      /\ ledger'.entries[-i] = entry
  BY <1>1, <1>2, <1>6
<1>8. Tracked(-i)' /\ ~Tracked(i)' /\ \A k \in Key \ {-i} : Tracked(k)' <=> Tracked(k)
  BY <1>2, <1>4, <1>5, <1>7 DEF Tracked
<1>9. home'[i] = Archive /\ \A j \in Item \ {i} : home'[j] = home[j]
  BY <1>1, <1>3
<1>10. ASSUME NEW k \in Key, Tracked(k)' PROVE EntryPlaced(k)'
  <2>1. CASE k = -i
    BY <1>1, <1>2, <1>3, <1>5, <1>7, <1>9, <2>1 DEF EntryPlaced
  <2>2. CASE k # -i
    <3>1. Tracked(k) /\ EntryPlaced(k) /\ k # i
      BY <1>8, <1>10, <2>2 DEF CoverInv
    <3>2. Card(k) \in Item \ {i} /\ (~Moved(k) => k = Card(k))
      BY <1>2, <2>2, <3>1, KeyCards
    <3> QED BY <1>7, <1>9, <2>2, <3>1, <3>2 DEF EntryPlaced
  <2> QED BY <2>1, <2>2
<1>11. ASSUME NEW v \in Volume
       PROVE  Allowed(ledger'.watches[v], ledger'.last[v], Excess(v)', noise'[v], watched'[v])
  <2>1. OccupyingOn(v)' = OccupyingOn(v)
    BY <1>1 DEF OccupyingOn
  <2>2. ASSUME NEW k \in FreedOn(v) PROVE k \in FreedOn(v)'
    <3>1. k \in Key /\ ledger.entries[k].volume = v /\ <<Card(k), v>> \notin left /\ (k \in disk => home[k] # v)
      BY DEF FreedOn
    <3>2. Tracked(k)
      BY <3>1, LedgerAssumption DEF Tracked, Untracked
    <3>3. k # i /\ k # -i /\ Card(k) # i
      BY <1>2, <1>4, <3>1, <3>2
    <3>4. k \in disk => home'[k] # v
      BY <1>3, <1>9, <3>1, <3>3
    <3> QED BY <1>1, <1>7, <3>1, <3>3, <3>4 DEF FreedOn
  <2>3. noise' \in [Volume -> Nat] /\ noise[v] <= noise'[v]
    BY <1>1 DEF CoverInv
  <2> QED BY <1>1, <1>7, <2>1, <2>2, <2>3, BooksShrink
<1>12. LeftFits'
  <2>1. settled' \subseteq left' /\ left' \subseteq Item \X Volume
    BY <1>1, <1>3 DEF CoverInv, LeftFits
  <2>2. ASSUME NEW at \in left
        PROVE  /\ ~(at[1] \in disk' /\ home'[at[1]] = at[2])
               /\ at[2] = home'[at[1]] \/ home'[at[1]] = Archive
               /\ at \in settled' <=> ~\E k \in {at[1], -at[1]} : Tracked(k)' /\ ledger'.entries[k].volume = at[2]
    <3>1. at[1] \in Item /\ at[2] \in Volume /\ at = <<at[1], at[2]>>
      BY DEF CoverInv, LeftFits
    <3>2. /\ ~(at[1] \in disk /\ home[at[1]] = at[2]) /\ (at[2] = home[at[1]] \/ home[at[1]] = Archive)
          /\ at \in settled <=> ~\E k \in {at[1], -at[1]} : Tracked(k) /\ ledger.entries[k].volume = at[2]
      BY DEF CoverInv, LeftFits
    <3>3. at[1] # i
      BY <1>1, <3>1, <3>2
    <3>4. at[1] \in Key /\ -at[1] \in Key /\ at[1] # -i /\ -at[1] # -i
      BY <1>2, <3>1, <3>3, KeyCards
    <3>5. \A k \in {at[1], -at[1]} : (Tracked(k)' <=> Tracked(k)) /\ ledger'.entries[k] = ledger.entries[k]
      BY <1>7, <1>8, <3>4
    <3> QED BY <1>1, <1>9, <3>1, <3>2, <3>3, <3>5
  <2>3. /\ ~(i \in disk' /\ home'[i] = home[i]) /\ home'[i] = Archive
        /\ <<i, home[i]>> \notin settled' /\ Tracked(-i)' /\ ledger'.entries[-i].volume = home[i]
    BY <1>1, <1>5, <1>7, <1>8, <1>9 DEF CoverInv, LeftFits
  <2>4. \A at \in left' : at \in left \/ (at = <<i, home[i]>> /\ at[1] = i /\ at[2] = home[i])
    BY <1>1
  <2>5. ASSUME NEW at \in left', at[1] = i, at[2] = home[i], at = <<i, home[i]>>
        PROVE  /\ ~(at[1] \in disk' /\ home'[at[1]] = at[2])
               /\ at[2] = home'[at[1]] \/ home'[at[1]] = Archive
               /\ at \in settled' <=> ~\E k \in {at[1], -at[1]} : Tracked(k)' /\ ledger'.entries[k].volume = at[2]
    BY <2>3, <2>5
  <2> QED BY <2>1, <2>2, <2>4, <2>5 DEF LeftFits
<1>13. CycleFits'
  <2>1. \A j \in seen'.located : ledger'.last[seen'.home[j]].known
    BY <1>1, <1>7 DEF CoverInv, CycleFits
  <2> QED BY <1>1, <1>3, <2>1 DEF CoverInv, CycleFits
<1>14. \A j \in disk' : scheduled'[j] # 0 <=> Tracked(j)'
  <2>1. \A j \in disk : j # -i /\ j \in Key
    BY <1>2, <1>3
  <2> QED BY <1>1, <1>8, <2>1 DEF CoverInv
<1> QED
  BY <1>1, <1>7, <1>10, <1>11, <1>12, <1>13, <1>14 DEF CoverInv

(* What Maintainerr holds is credited where it is; nothing off the disk      *)
(* changes.                                                                 *)
LEMMA HandOffCover == NothingElse /\ IInv /\ CoverInv /\ HandOff => CoverInv'
<1> SUFFICES ASSUME NothingElse, IInv, CoverInv, HandOff PROVE CoverInv'
  OBVIOUS
<1>1. PICK back \in SUBSET {i \in Item : scheduled[i] # 0},
           added \in SUBSET {i \in seen.located : scheduled[i] = 0} :
        LET held(i) == IF i \in back THEN 0 ELSE IF i \in added THEN seen.now ELSE scheduled[i]
            kept(k) == IF k \in back THEN Untracked ELSE ledger.entries[k]
        IN  /\ scheduled' = [i \in Item |-> IF i \in disk THEN held(i) ELSE 0]
            /\ ledger' = [ledger EXCEPT !.entries =
                 [k \in Key |-> IF k \in seen.located /\ held(k) # 0
                                THEN Booked(kept(k), seen.home[k], held(k), seen.now)
                                ELSE kept(k)]]
  BY DEF HandOff
<1> DEFINE held(i) == IF i \in back THEN 0 ELSE IF i \in added THEN seen.now ELSE scheduled[i]
           kept(k) == IF k \in back THEN Untracked ELSE ledger.entries[k]
           entries == [k \in Key |-> IF k \in seen.located /\ held(k) # 0
                                     THEN Booked(kept(k), seen.home[k], held(k), seen.now)
                                     ELSE kept(k)]
<1>2. /\ pc = "acting" /\ pc' = "moving"
      /\ clock' = clock /\ disk' = disk /\ home' = home /\ left' = left /\ noise' = noise /\ file' = file /\ seen' = seen
      /\ settled' = settled /\ watched' = watched
      /\ scheduled' = [i \in Item |-> IF i \in disk THEN held(i) ELSE 0]
      /\ ledger' = [ledger EXCEPT !.entries = entries]
  BY <1>1 DEF HandOff, history
<1>3. /\ seen.now \in Nat \ {0} /\ seen.located \subseteq Item /\ seen.located \subseteq seen.library
      /\ seen.home = home /\ scheduled \in [Item -> Nat] /\ disk \subseteq Item
      /\ \A i \in Item : scheduled[i] # 0 => i \in disk
      /\ back \subseteq disk /\ \A i \in back : scheduled[i] # 0
      /\ added \subseteq seen.located /\ \A i \in added : scheduled[i] = 0
      /\ \A i \in seen.library \ disk : Tracked(i)
      /\ \A i \in seen.located : ledger.last[home[i]].known
  BY <1>2 DEF IInv, SeenFits, WorldFits, CoverInv, CycleFits
<1>4. /\ ledger'.entries = entries /\ ledger'.watches = ledger.watches /\ ledger'.last = ledger.last
  BY <1>2 DEF IInv, LedgersFit
<1>5. ASSUME NEW e, NEW v, NEW at, NEW now
      PROVE  /\ e # Untracked => Booked(e, v, at, now) = e \/ Booked(e, v, at, now) = [e EXCEPT !.volume = v]
             /\ e # Untracked /\ e.gone # 0 => Booked(e, v, at, now) = e
  BY DEF Booked, Recorded
<1>6. ASSUME NEW v, v \in Volume, NEW now \in Nat \ {0}
      PROVE  Booked(Untracked, v, now, now) = Eviction(v, now)
  BY <1>6, LedgerAssumption DEF Booked, Recorded
<1>7. \A k \in Key : ledger.entries[k] \in Entry
  BY DEF IInv, LedgersFit, EntriesFit
(* Off the disk nothing changes but where a credit still is. *)
<1>8. ASSUME NEW k \in Key, k \notin disk
      PROVE  /\ Tracked(k)' <=> Tracked(k)
             /\ entries[k].volume = ledger.entries[k].volume /\ entries[k].handed = ledger.entries[k].handed
  <2>1. kept(k) = ledger.entries[k]
    BY <1>3, <1>8
  <2>2. CASE k \in seen.located /\ held(k) # 0
    <3>1. Tracked(k) /\ k \in Item /\ EntryPlaced(k)
      BY <1>3, <1>8, <2>2 DEF CoverInv
    <3>2. ledger.entries[k].volume = seen.home[k] /\ ledger.entries[k] \in Entry /\ seen.home[k] \in Volume
      BY <1>3, <1>7, <3>1, KeyCards DEF EntryPlaced
    <3>3. entries[k] = Booked(ledger.entries[k], seen.home[k], held(k), seen.now)
      BY <2>1, <2>2
    <3> HIDE DEF entries, held, kept
    <3>4. entries[k] = ledger.entries[k] \/ entries[k] = [ledger.entries[k] EXCEPT !.volume = seen.home[k]]
      BY <1>5, <3>1, <3>3 DEF Tracked
    <3>5. entries[k].volume = ledger.entries[k].volume /\ entries[k].handed = ledger.entries[k].handed
      BY <3>2, <3>4 DEF Entry
    <3>6. entries[k] # Untracked
      BY <3>2, <3>5, LedgerAssumption DEF Untracked
    <3> QED BY <1>4, <3>1, <3>5, <3>6 DEF Tracked
  <2>3. CASE ~(k \in seen.located /\ held(k) # 0)
    <3>1. entries[k] = ledger.entries[k]
      BY <2>1, <2>3
    <3> HIDE DEF entries
    <3> QED BY <1>4, <3>1 DEF Tracked
  <2> QED BY <2>2, <2>3
(* On the disk what is held is credited where it is. *)
<1>9. ASSUME NEW k \in disk
      PROVE  /\ Tracked(k)' <=> held(k) # 0
             /\ Tracked(k)' => entries[k].volume = home[k] /\ entries[k].handed # 0 /\ ledger.last[home[k]].known
  <2>1. k \in Item /\ k \in Key /\ Card(k) = k /\ ~Moved(k) /\ home[k] \in Volume
        /\ (scheduled[k] # 0 <=> Tracked(k))
        /\ (Tracked(k) => EntryPlaced(k))
    BY <1>3, KeyCards DEF CoverInv, IInv, WorldFits
  <2>2. CASE held(k) = 0
    <3>1. kept(k) = Untracked
      BY <1>3, <2>1, <2>2 DEF Tracked
    <3>2. entries[k] = Untracked
      BY <2>1, <2>2, <3>1
    <3> HIDE DEF entries, held
    <3> QED BY <1>4, <2>2, <3>2 DEF Tracked
  <2>3. CASE k \in added
    <3>1. k \notin back /\ scheduled[k] = 0 /\ ~Tracked(k) /\ k \in seen.located /\ held(k) = seen.now
      BY <1>3, <2>1, <2>3
    <3>2. kept(k) = Untracked
      BY <3>1 DEF Tracked
    <3>3. entries[k] = Booked(Untracked, home[k], seen.now, seen.now)
      BY <1>3, <2>1, <3>1, <3>2
    <3> HIDE DEF entries, held, kept
    <3>4. entries[k] = Eviction(home[k], seen.now)
      BY <1>3, <1>6, <2>1, <3>3
    <3>5. entries[k].volume = home[k] /\ entries[k].handed = seen.now
      BY <3>4 DEF Eviction
    <3>6. entries[k] # Untracked
      BY <2>1, <3>5, LedgerAssumption DEF Untracked
    <3> QED BY <1>3, <1>4, <3>1, <3>5, <3>6 DEF Tracked
  <2>4. CASE held(k) # 0 /\ k \notin added
    <3>1. k \notin back /\ held(k) = scheduled[k] /\ Tracked(k) /\ kept(k) = ledger.entries[k]
      BY <2>1, <2>4
    <3>2. ledger.entries[k].volume = home[k] /\ ledger.entries[k].handed # 0 /\ ledger.last[home[k]].known
          /\ ledger.entries[k] \in Entry
      BY <1>7, <2>1, <3>1 DEF EntryPlaced
    <3>3. entries[k] = Booked(ledger.entries[k], home[k], held(k), seen.now) \/ entries[k] = ledger.entries[k]
      BY <1>3, <2>1, <3>1
    <3> HIDE DEF entries, held, kept
    <3>4. entries[k] = ledger.entries[k] \/ entries[k] = [ledger.entries[k] EXCEPT !.volume = home[k]]
      BY <1>5, <3>1, <3>3 DEF Tracked
    <3>5. entries[k].volume = home[k] /\ entries[k].handed # 0
      BY <3>2, <3>4 DEF Entry
    <3>6. entries[k] # Untracked
      BY <2>1, <3>5, LedgerAssumption DEF Untracked
    <3> QED BY <1>4, <2>4, <3>2, <3>5, <3>6 DEF Tracked
  <2> HIDE DEF entries, held
  <2> QED BY <2>2, <2>3, <2>4
<1> HIDE DEF entries
<1>10. ASSUME NEW k \in Key, Tracked(k)' PROVE EntryPlaced(k)'
  <2>1. CASE k \in disk
    <3>1. Card(k) = k /\ ~Moved(k) /\ home[k] \in Volume
      BY <1>3, <2>1, KeyCards DEF IInv, WorldFits
    <3> QED BY <1>2, <1>4, <1>9, <1>10, <2>1, <3>1 DEF EntryPlaced
  <2>2. CASE k \notin disk
    <3>1. EntryPlaced(k)
      BY <1>8, <1>10, <2>2 DEF CoverInv
    <3> QED BY <1>2, <1>4, <1>8, <2>2, <3>1 DEF EntryPlaced
  <2> QED BY <2>1, <2>2
<1>11. ASSUME NEW v \in Volume
       PROVE  Allowed(ledger'.watches[v], ledger'.last[v], Excess(v)', noise'[v], watched'[v])
  <2>1. OccupyingOn(v)' = OccupyingOn(v)
    BY <1>2 DEF OccupyingOn
  <2>2. ASSUME NEW k \in FreedOn(v) PROVE k \in FreedOn(v)'
    <3>1. k \in Key /\ ledger.entries[k].volume = v /\ <<Card(k), v>> \notin left
      BY DEF FreedOn
    <3>2. k \notin disk
      BY FreedOff DEF OffOn
    <3> QED BY <1>2, <1>4, <1>8, <3>1, <3>2 DEF FreedOn
  <2>3. noise' \in [Volume -> Nat] /\ noise[v] <= noise'[v]
    BY <1>2 DEF CoverInv
  <2> QED BY <1>2, <1>4, <2>1, <2>2, <2>3, BooksShrink
<1>12. LeftFits'
  <2>1. ASSUME NEW at \in left
        PROVE  at \in settled <=> ~\E k \in {at[1], -at[1]} : Tracked(k)' /\ ledger'.entries[k].volume = at[2]
    <3>1. at[1] \in Item /\ at[1] \in Key /\ -at[1] \in Key /\ ~(at[1] \in disk /\ home[at[1]] = at[2]) /\ -at[1] \notin disk
      BY <1>3, KeyCards DEF CoverInv, LeftFits
    <3>2. at \in settled <=> ~\E k \in {at[1], -at[1]} : Tracked(k) /\ ledger.entries[k].volume = at[2]
      BY DEF CoverInv, LeftFits
    <3>3. ASSUME NEW k \in {at[1], -at[1]}
          PROVE  (Tracked(k)' /\ ledger'.entries[k].volume = at[2]) <=> (Tracked(k) /\ ledger.entries[k].volume = at[2])
      <4>1. CASE k \in disk
        <5>1. k = at[1] /\ ~Moved(k) /\ home[k] # at[2]
          BY <3>1, <4>1, KeyCards
        <5>2. Tracked(k) => ledger.entries[k].volume = home[k]
          BY <3>1, <5>1 DEF CoverInv, EntryPlaced
        <5>3. Tracked(k)' => ledger'.entries[k].volume = home[k]
          BY <1>4, <1>9, <4>1
        <5> QED BY <5>1, <5>2, <5>3
      <4>2. CASE k \notin disk
        BY <1>4, <1>8, <3>1, <4>2
      <4> QED BY <4>1, <4>2
    <3> QED BY <3>2, <3>3
  <2> QED BY <1>2, <2>1 DEF CoverInv, LeftFits
<1>13. CycleFits'
  BY <1>2, <1>3, <1>4 DEF CoverInv, CycleFits
<1>14. \A i \in disk' : scheduled'[i] # 0 <=> Tracked(i)'
  <2>1. \A i \in disk : scheduled'[i] = held(i)
    BY <1>2, <1>3
  <2> HIDE DEF held
  <2> QED BY <1>2, <1>9, <2>1
<1> QED
  BY <1>2, <1>4, <1>10, <1>11, <1>12, <1>13, <1>14 DEF CoverInv

(* Where the credit of what is in D ends as freed.                          *)
LEMMA EndedBooks ==
  ASSUME IInv, CoverInv, NEW v \in Volume, NEW D \in SUBSET OffOn(v),
         left' = left, disk' = disk, home' = home,
         \A k \in Key : Tracked(k)' /\ ledger'.entries[k].volume = v
                          <=> Tracked(k) /\ ledger.entries[k].volume = v /\ k \notin D,
         \A i \in Item : <<i, v>> \in settled'
                           <=> <<i, v>> \in settled \/ (<<i, v>> \in left /\ i \in {Card(k) : k \in D})
  PROVE  Excess(v)' = Excess(v) + Bytes(D)
<1> DEFINE A == D \cap HeldOn(v)
           B == D \ HeldOn(v)
           cards == {Card(k) : k \in A}
<1>1. /\ FreedOn(v) = OffOn(v) \ HeldOn(v) /\ OffOn(v) \in SUBSET Key
      /\ OccupyingOn(v) \in SUBSET Item /\ OccupyingOn(v) \in SUBSET Key
  BY FreedOff
<1>2. A \in SUBSET Key /\ B \in SUBSET FreedOn(v) /\ FreedOn(v) \in SUBSET Key /\ D \in SUBSET Key
      /\ A \in SUBSET D /\ B = D \ A
  BY <1>1
<1>3. cards \in SUBSET Item /\ cards \in SUBSET Key /\ Bytes(cards) = Bytes(A)
  <2>1. \A k, l \in A : Card(k) = Card(l) => k = l
    BY CreditedOnce
  <2> HIDE DEF A
  <2> QED BY <1>2, <2>1, BytesCards, KeyCards
<1>4. OccupyingOn(v)' = OccupyingOn(v) \cup cards /\ OccupyingOn(v) \cap cards = {}
  <2>1. \A k \in D : k \in HeldOn(v) <=> <<Card(k), v>> \in left
    BY DEF HeldOn
  <2>2. ASSUME NEW i \in Item
        PROVE  i \in OccupyingOn(v)' <=> i \in OccupyingOn(v) \/ i \in cards
    BY <2>1 DEF OccupyingOn
  <2>3. OccupyingOn(v)' \subseteq Item
    BY DEF OccupyingOn
  <2>4. OccupyingOn(v) \cap cards = {}
    BY LeftOn
  <2> HIDE DEF cards
  <2> QED BY <1>1, <1>3, <2>2, <2>3, <2>4
<1>5. FreedOn(v)' = FreedOn(v) \ B
  <2>1. ASSUME NEW k \in Key
        PROVE  k \in FreedOn(v)' <=> k \in FreedOn(v) /\ k \notin B
    <3>1. ledger'.entries[k].volume = v => Tracked(k)'
      BY LedgerAssumption DEF Tracked, Untracked
    <3>2. ledger.entries[k].volume = v => Tracked(k)
      BY LedgerAssumption DEF Tracked, Untracked
    <3>3. ledger'.entries[k].volume = v <=> ledger.entries[k].volume = v /\ k \notin D
      BY <3>1, <3>2
    <3>4. k \in FreedOn(v) /\ k \in D => k \in B
      BY <1>1
    <3>5. k \in B => k \in D
      OBVIOUS
    <3>6. k \in FreedOn(v)' <=> ledger'.entries[k].volume = v /\ <<Card(k), v>> \notin left /\ (k \in disk => home[k] # v)
      BY DEF FreedOn
    <3>7. k \in FreedOn(v) <=> ledger.entries[k].volume = v /\ <<Card(k), v>> \notin left /\ (k \in disk => home[k] # v)
      BY DEF FreedOn
    <3> HIDE DEF B
    <3> QED BY <3>3, <3>4, <3>5, <3>6, <3>7
  <2>2. FreedOn(v)' \subseteq Key
    BY DEF FreedOn
  <2> HIDE DEF B
  <2> QED BY <1>2, <2>1, <2>2
<1> HIDE DEF A, B, cards
<1>6. Bytes(OccupyingOn(v)') = Bytes(OccupyingOn(v)) + Bytes(A)
  BY <1>1, <1>3, <1>4, BytesUnion
<1>7. Bytes(FreedOn(v)) = Bytes(B) + Bytes(FreedOn(v)')
  BY <1>2, <1>5, BytesWithout
<1>8. Bytes(D) = Bytes(A) + Bytes(B)
  BY <1>2, BytesWithout
<1>9. /\ Bytes(A) \in Nat /\ Bytes(B) \in Nat /\ Bytes(FreedOn(v)') \in Nat /\ Bytes(OccupyingOn(v)) \in Nat
  <2>1. B \in SUBSET Key /\ FreedOn(v)' \in SUBSET Key
    BY <1>2 DEF FreedOn
  <2> QED BY <1>1, <1>2, <2>1, BytesNat
<1>10. Excess(v)' = Bytes(OccupyingOn(v)') - Bytes(FreedOn(v)') /\ Excess(v) = Bytes(OccupyingOn(v)) - Bytes(FreedOn(v))
  BY DEF Excess
<1> QED
  BY <1>6, <1>7, <1>8, <1>9, <1>10

(* What is gone and was not before had an entry and is off the disk.        *)
LEMMA GoneOff ==
  ASSUME NothingElse, IInv, CoverInv, pc = "read", NEW v \in Volume,
         NEW k \in Gone(Sight(file.entries, seen.library, clock), v)
  PROVE  k \in OffOn(v) /\ k \notin seen.library /\ ledger.last[v].known
<1>1. /\ k \in Key /\ Sight(file.entries, seen.library, clock)[k].gone # 0
      /\ Sight(file.entries, seen.library, clock)[k].volume = v
  BY DEF Gone
<1>2. Tracked(k) /\ k \notin seen.library /\ ledger.entries[k].volume = v
  BY <1>1, SightSame
<1>3. disk \subseteq seen.library /\ EntryPlaced(k)
  BY <1>1, <1>2 DEF CoverInv, CycleFits
<1> QED
  BY <1>1, <1>2, <1>3 DEF OffOn, EntryPlaced

(* A disk that answers is settled by its whole library.                     *)
LEMMA ObserveParts ==
  ASSUME NothingElse, IInv, CoverInv, Observe
  PROVE  \E answered \in SUBSET Volume :
           LET sighted == [file EXCEPT !.entries = Sight(file.entries, seen.library, clock)]
               V == [v \in answered |-> Settle(sighted, v, Used(v), Bytes(LibraryOn(v)), clock)]
           IN  /\ ledger' = Settled(sighted, V, clock)
               /\ settled' = settled \cup (left \cap Freed(sighted.entries, V))
               /\ watched' = [v \in Volume |-> watched[v] + IF v \in answered /\ Begins(sighted, v) THEN 1 ELSE 0]
               /\ seen' = [seen EXCEPT !.located = UNION {LibraryOn(v) : v \in answered}, !.now = clock]
<1> DEFINE sighted == [file EXCEPT !.entries = Sight(file.entries, seen.library, clock)]
<1>1. PICK answered \in SUBSET Volume :
      \E located \in SUBSET UNION {LibraryOn(v) : v \in answered} :
        LET on(v)    == Bytes(LibraryOn(v) \cap located)
            measured == [v \in answered |-> [used |-> Used(v), library |-> on(v)]]
            verdicts == Verdicts(sighted, measured, clock)
        IN  /\ "unlocated" \in Disturbance \/ located = UNION {LibraryOn(v) : v \in answered}
            /\ ledger' = Settled(sighted, verdicts, clock)
            /\ settled' = settled \cup (left \cap Freed(sighted.entries, verdicts))
            /\ watched' = [v \in Volume |-> watched[v] + IF v \in answered /\ Begins(sighted, v) THEN 1 ELSE 0]
            /\ seen' = [seen EXCEPT !.located = located, !.now = clock]
  BY DEF Observe
<1> DEFINE located == UNION {LibraryOn(v) : v \in answered}
           measured == [v \in answered |-> [used |-> Used(v), library |-> Bytes(LibraryOn(v) \cap located)]]
           verdicts == Verdicts(sighted, measured, clock)
           V == [v \in answered |-> Settle(sighted, v, Used(v), Bytes(LibraryOn(v)), clock)]
<1>2. /\ ledger' = Settled(sighted, verdicts, clock)
      /\ settled' = settled \cup (left \cap Freed(sighted.entries, verdicts))
      /\ watched' = [v \in Volume |-> watched[v] + IF v \in answered /\ Begins(sighted, v) THEN 1 ELSE 0]
      /\ seen' = [seen EXCEPT !.located = located, !.now = clock]
  BY <1>1 DEF NothingElse
<1>3. \A v \in answered : LibraryOn(v) \cap located = LibraryOn(v)
  OBVIOUS
<1>4. verdicts = V
  <2> HIDE DEF sighted, located
  <2>1. measured = [v \in answered |-> [used |-> Used(v), library |-> Bytes(LibraryOn(v))]]
    BY <1>3
  <2>2. /\ DOMAIN measured = answered
        /\ \A v \in answered : measured[v].used = Used(v) /\ measured[v].library = Bytes(LibraryOn(v))
    BY <2>1
  <2> HIDE DEF measured
  <2> QED BY <2>2 DEF Verdicts
<1> HIDE DEF sighted, verdicts, V, located
<1> QED
  BY <1>2, <1>4 DEF sighted, V, located

(* Settling ends what the disk's drop paid for, and the reading kept says    *)
(* the same.                                                                *)
LEMMA ObserveCover == NothingElse /\ IInv /\ CoverInv /\ Observe => CoverInv'
<1> SUFFICES ASSUME NothingElse, IInv, CoverInv, Observe PROVE CoverInv'
  OBVIOUS
<1> DEFINE E == Sight(file.entries, seen.library, clock)
           sighted == [file EXCEPT !.entries = E]
<1>1. PICK answered \in SUBSET Volume :
        LET V == [v \in answered |-> Settle(sighted, v, Used(v), Bytes(LibraryOn(v)), clock)]
        IN  /\ ledger' = Settled(sighted, V, clock)
            /\ settled' = settled \cup (left \cap Freed(sighted.entries, V))
            /\ watched' = [v \in Volume |-> watched[v] + IF v \in answered /\ Begins(sighted, v) THEN 1 ELSE 0]
            /\ seen' = [seen EXCEPT !.located = UNION {LibraryOn(v) : v \in answered}, !.now = clock]
  BY ObserveParts
<1> DEFINE V == [v \in answered |-> Settle(sighted, v, Used(v), Bytes(LibraryOn(v)), clock)]
           Ended(v) == IF v \in answered THEN V[v].ended ELSE {}
<1>2. /\ pc = "read" /\ pc' = "acting" /\ clock' = clock /\ disk' = disk /\ home' = home /\ left' = left
      /\ noise' = noise /\ scheduled' = scheduled /\ file' = file
      /\ ledger' = Settled(sighted, V, clock)
      /\ settled' = settled \cup (left \cap Freed(sighted.entries, V))
      /\ watched' = [v \in Volume |-> watched[v] + IF v \in answered /\ Begins(sighted, v) THEN 1 ELSE 0]
      /\ seen' = [seen EXCEPT !.located = UNION {LibraryOn(v) : v \in answered}, !.now = clock]
  BY <1>1 DEF Observe, world
<1>3. /\ seen' = [seen EXCEPT !.located = seen'.located, !.now = clock]
      /\ seen'.library = seen.library /\ seen'.home = home /\ seen'.now = clock /\ clock \in Nat \ {0}
      /\ seen'.located = UNION {LibraryOn(v) : v \in answered} /\ seen.home = home
      /\ disk \subseteq seen.library /\ seen.library \subseteq Item /\ disk \subseteq Item
      /\ \A i \in seen.library \ disk : Tracked(i)
  BY <1>2 DEF IInv, WorldFits, SeenFits, CoverInv, CycleFits
<1>4. /\ sighted.entries = E /\ sighted.watches = ledger.watches /\ sighted.last = ledger.last
      /\ DOMAIN ledger.watches = Volume /\ DOMAIN ledger.last = Volume
  BY <1>2 DEF IInv, LedgersFit, CoverInv, CycleFits
<1>5. ASSUME NEW k \in Key
      PROVE  /\ E[k] = Untracked <=> ~Tracked(k)
             /\ E[k].volume = ledger.entries[k].volume /\ E[k].handed = ledger.entries[k].handed
             /\ E[k].gone \in Nat /\ (E[k].gone # 0 <=> Tracked(k) /\ k \notin seen.library)
  <2> HIDE DEF E
  <2> QED BY <1>2, SightSame DEF E
(* One disk at a time. *)
<1>6. ASSUME NEW v \in Volume
      PROVE  Excess(v) \in Int /\ noise[v] \in Nat /\ watched[v] \in Nat
             /\ Allowed(ledger.watches[v], ledger.last[v], Excess(v), noise[v], watched[v])
  BY ExcessType DEF CoverInv
<1>7. ASSUME NEW v \in answered
      PROVE  /\ V[v].ended \subseteq Gone(E, v) /\ V[v].ended = V[v].freed
             /\ Allowed(V[v].watch, [known |-> TRUE, at |-> V[v].last], Excess(v) + Bytes(V[v].ended), noise[v], watched'[v])
  <2>1. v \in Volume /\ V[v] = Settle(sighted, v, Used(v), Bytes(LibraryOn(v)), clock)
    OBVIOUS
  <2>2. Other(E, v, Used(v), Bytes(LibraryOn(v))) = noise[v] + Excess(v)
    BY <1>2, <2>1, OtherIs
  <2>3. Gone(E, v) # {} => ledger.last[v].known
    BY <1>2, <2>1, GoneOff
  <2>4. watched'[v] = watched[v] + IF Begins(sighted, v) THEN 1 ELSE 0
    BY <1>2, <2>1
  <2> HIDE DEF E, sighted, V
  <2>5. clock \in Nat /\ \A k \in Key : sighted.entries[k].gone \in Nat
    BY <1>3, <1>4, <1>5
  <2>6. Allowed(sighted.watches[v], sighted.last[v], Excess(v), noise[v], watched[v])
    BY <1>4, <1>6, <2>1
  <2>7. Other(sighted.entries, v, Used(v), Bytes(LibraryOn(v))) = noise[v] + Excess(v)
        /\ (Gone(sighted.entries, v) # {} => sighted.last[v].known)
    BY <1>4, <2>2, <2>3
  <2>8. LET s == Settle(sighted, v, Used(v), Bytes(LibraryOn(v)), clock)
        IN  /\ s.ended \subseteq Gone(sighted.entries, v) /\ s.ended = s.freed
            /\ Allowed(s.watch, [known |-> TRUE, at |-> s.last], Excess(v) + Bytes(s.ended), noise[v],
                       watched[v] + IF Begins(sighted, v) THEN 1 ELSE 0)
    BY <1>6, <2>1, <2>5, <2>6, <2>7, SettleAllows
  <2> QED BY <1>4, <2>1, <2>4, <2>8
<1>8. ASSUME NEW v \in Volume
      PROVE  Ended(v) \in SUBSET OffOn(v) /\ Ended(v) \cap seen.library = {}
  <2>1. CASE v \in answered
    <3>1. Ended(v) = V[v].ended /\ V[v].ended \subseteq Gone(E, v)
      BY <1>7, <2>1
    <3>2. \A k \in Gone(E, v) : k \in OffOn(v) /\ k \notin seen.library
      BY <1>2, GoneOff
    <3> HIDE DEF Ended
    <3> QED BY <3>1, <3>2
  <2>2. CASE v \notin answered
    BY <2>2
  <2> QED BY <2>1, <2>2
<1> DEFINE ended == UNION {V[v].ended : v \in answered}
           late == UNION {V[v].late : v \in answered}
<1>9. /\ ledger'.entries = [k \in Key |-> IF k \in ended THEN Untracked
                                         ELSE IF k \in late THEN [E[k] EXCEPT !.held = clock] ELSE E[k]]
      /\ ledger'.watches = [v \in Volume |-> IF v \in answered THEN V[v].watch ELSE ledger.watches[v]]
      /\ ledger'.last = [v \in Volume |-> IF v \in answered THEN [known |-> TRUE, at |-> V[v].last] ELSE ledger.last[v]]
  <2>1. DOMAIN V = answered
    OBVIOUS
  <2> HIDE DEF E, sighted, V
  <2> QED BY <1>2, <1>4, <2>1 DEF Settled
<1>10. settled' = settled \cup (left \cap {<<Card(k), E[k].volume>> : k \in ended})
  <2>1. DOMAIN V = answered
    OBVIOUS
  <2>2. UNION {V[v].freed : v \in answered} = ended
    BY <1>7
  <2> HIDE DEF E, sighted, V, ended
  <2> QED BY <1>2, <1>4, <2>1, <2>2 DEF Freed
<1>11. ASSUME NEW k \in Key
       PROVE  /\ \A v \in Volume : k \in Ended(v) => k \in ended /\ Tracked(k) /\ ledger.entries[k].volume = v
              /\ k \in ended => k \in Ended(ledger.entries[k].volume) /\ ledger.entries[k].volume \in Volume
              /\ k \in ended => Tracked(k) /\ k \notin seen.library
  <2>1. \A v \in Volume : k \in Ended(v) => k \in ended
    BY DEF Ended
  <2>2. k \in ended => \E v \in Volume : k \in Ended(v)
    BY DEF Ended
  <2>3. \A v \in Volume : k \in Ended(v) => Tracked(k) /\ ledger.entries[k].volume = v /\ k \notin seen.library
    BY <1>8 DEF OffOn
  <2> HIDE DEF Ended, ended
  <2> QED BY <2>1, <2>2, <2>3
<1> HIDE DEF E, sighted, V, late, ended, Ended
<1>12. ASSUME NEW k \in Key
       PROVE  /\ Tracked(k)' <=> Tracked(k) /\ k \notin ended
              /\ Tracked(k)' => /\ ledger'.entries[k].volume = ledger.entries[k].volume
                                /\ ledger'.entries[k].handed = ledger.entries[k].handed
  <2>1. ledger.entries[k] \in Entry
    BY DEF IInv, LedgersFit, EntriesFit
  <2>2. CASE k \in ended
    BY <1>9, <2>2 DEF Tracked
  <2>3. CASE k \notin ended
    <3>1. ledger'.entries[k] = [E[k] EXCEPT !.held = clock] \/ ledger'.entries[k] = E[k]
      BY <1>9, <2>3
    <3>2. CASE Tracked(k)
      <4>1. ledger.entries[k].volume \in Volume
        BY <3>2 DEF CoverInv, EntryPlaced
      <4>2. E[k].volume = ledger.entries[k].volume /\ E[k].handed = ledger.entries[k].handed
        BY <1>5
      <4>3. ledger'.entries[k].volume = E[k].volume /\ ledger'.entries[k].handed = E[k].handed
        <5>1. EntriesFit(E, clock)
          BY <1>3, SightFits DEF E, IInv, LedgersFit
        <5>2. E[k] \in Entry
          BY <5>1 DEF EntriesFit
        <5> QED BY <3>1, <5>2 DEF Entry
      <4>4. ledger'.entries[k] # Untracked
        BY <4>1, <4>2, <4>3, LedgerAssumption DEF Untracked
      <4> QED BY <2>3, <3>2, <4>2, <4>3, <4>4 DEF Tracked
    <3>3. CASE ~Tracked(k)
      <4>1. E[k] = Untracked /\ k \notin late
        <5>1. E[k] = Untracked
          BY <1>5, <3>3
        <5>2. ASSUME NEW v \in answered, k \in V[v].late PROVE FALSE
          <6>1. V[v] = Settle(sighted, v, Used(v), Bytes(LibraryOn(v)), clock)
            BY DEF V
          <6>2. E[k].gone # 0
            BY <1>4, <5>2, <6>1, SettleDue
          <6> QED BY <1>5, <3>3, <6>2
        <5> QED BY <5>1, <5>2 DEF late
      <4>2. ledger'.entries[k] = Untracked
        BY <1>9, <2>3, <4>1
      <4> QED BY <3>3, <4>2 DEF Tracked
    <3> QED BY <3>2, <3>3
  <2> QED BY <2>2, <2>3
<1>13. ASSUME NEW k \in Key, Tracked(k)' PROVE EntryPlaced(k)'
  <2>1. EntryPlaced(k)
    BY <1>12, <1>13 DEF CoverInv
  <2>2. ledger'.last[ledger.entries[k].volume].known
    BY <1>9, <2>1 DEF EntryPlaced
  <2> QED BY <1>2, <1>12, <1>13, <2>1, <2>2 DEF EntryPlaced
<1>14. ASSUME NEW v \in Volume
       PROVE  Allowed(ledger'.watches[v], ledger'.last[v], Excess(v)', noise'[v], watched'[v])
  <2>1. \A k \in Key : Tracked(k)' /\ ledger'.entries[k].volume = v
                         <=> Tracked(k) /\ ledger.entries[k].volume = v /\ k \notin Ended(v)
    BY <1>11, <1>12
  <2>2. \A i \in Item : <<i, v>> \in settled'
                          <=> <<i, v>> \in settled \/ (<<i, v>> \in left /\ i \in {Card(k) : k \in Ended(v)})
    <3>1. ASSUME NEW i \in Item
          PROVE  <<i, v>> \in {<<Card(k), E[k].volume>> : k \in ended} <=> i \in {Card(k) : k \in Ended(v)}
      <4>1. Ended(v) \subseteq Key /\ ended \subseteq Key
        <5>1. Ended(v) \subseteq Key
          BY <1>8 DEF OffOn
        <5>2. \A u \in answered : V[u].ended \subseteq Key
          BY <1>7 DEF Gone
        <5> QED BY <5>1, <5>2 DEF ended
      <4>2. \A k \in Key : k \in Ended(v) <=> k \in ended /\ E[k].volume = v
        BY <1>5, <1>11
      <4> QED BY <4>1, <4>2
    <3> QED BY <1>10, <3>1
  <2>3. Excess(v)' = Excess(v) + Bytes(Ended(v))
    BY <1>2, <1>8, <2>1, <2>2, EndedBooks
  <2>4. CASE v \in answered
    <3>1. Ended(v) = V[v].ended /\ ledger'.watches[v] = V[v].watch /\ ledger'.last[v] = [known |-> TRUE, at |-> V[v].last]
      BY <1>9, <2>4 DEF Ended
    <3> QED BY <1>2, <1>7, <2>3, <2>4, <3>1
  <2>5. CASE v \notin answered
    <3>1. Ended(v) = {} /\ ledger'.watches[v] = ledger.watches[v] /\ ledger'.last[v] = ledger.last[v]
      BY <1>9, <2>5 DEF Ended
    <3>2. watched'[v] = watched[v]
      BY <1>2, <1>6, <2>5
    <3>3. Excess(v)' = Excess(v)
      BY <1>6, <2>3, <3>1, BytesEmpty
    <3> QED BY <1>2, <1>6, <3>1, <3>2, <3>3
  <2> QED BY <2>4, <2>5
<1>15. LeftFits'
  <2>1. settled' \subseteq left
    BY <1>10 DEF CoverInv, LeftFits
  <2>2. ASSUME NEW at \in left
        PROVE  at \in settled' <=> ~\E k \in {at[1], -at[1]} : Tracked(k)' /\ ledger'.entries[k].volume = at[2]
    <3>1. at[1] \in Item /\ at[2] \in Volume /\ at = <<at[1], at[2]>> /\ ~(at[1] \in disk /\ home[at[1]] = at[2])
      BY DEF CoverInv, LeftFits
    <3>2. at \in settled <=> ~\E k \in {at[1], -at[1]} : Tracked(k) /\ ledger.entries[k].volume = at[2]
      BY DEF CoverInv, LeftFits
    <3>3. /\ at[1] \in Key /\ -at[1] \in Key /\ Card(at[1]) = at[1] /\ Card(-at[1]) = at[1] /\ -at[1] \notin disk
          /\ ~Moved(at[1])
          /\ \A k \in Key : Card(k) = at[1] => k \in {at[1], -at[1]}
      BY <1>3, <3>1, KeyCards
    <3>4. ASSUME NEW k \in {at[1], -at[1]}, Tracked(k), ledger.entries[k].volume = at[2]
          PROVE  k \in OffOn(at[2])
      <4>1. k \notin disk
        <5>1. CASE k = at[1]
          <6>1. ledger.entries[k].volume = home[k]
            BY <3>3, <3>4, <5>1 DEF CoverInv, EntryPlaced
          <6> QED BY <3>1, <3>4, <5>1, <6>1
        <5>2. CASE k = -at[1]
          BY <3>3, <5>2
        <5> QED BY <5>1, <5>2
      <4> QED BY <3>3, <3>4, <4>1 DEF OffOn
    <3>5. at \in {<<Card(k), E[k].volume>> : k \in ended}
            <=> \E k \in {at[1], -at[1]} : k \in ended /\ ledger.entries[k].volume = at[2]
      <4>1. ended \subseteq Key
        <5>1. \A u \in answered : V[u].ended \subseteq Key
          BY <1>7 DEF Gone
        <5> QED BY <5>1 DEF ended
      <4>2. \A k \in ended : E[k].volume = ledger.entries[k].volume
        BY <1>5, <4>1
      <4>3. ASSUME NEW k \in ended, at = <<Card(k), E[k].volume>>
            PROVE  k \in {at[1], -at[1]} /\ ledger.entries[k].volume = at[2]
        BY <3>3, <4>1, <4>2, <4>3
      <4>4. ASSUME NEW k \in {at[1], -at[1]}, k \in ended, ledger.entries[k].volume = at[2]
            PROVE  at = <<Card(k), E[k].volume>>
        BY <3>1, <3>3, <4>2, <4>4
      <4> QED BY <4>3, <4>4
    <3>6. at \in settled' <=> at \in settled \/ \E k \in {at[1], -at[1]} : k \in ended /\ ledger.entries[k].volume = at[2]
      BY <1>10, <3>5
    <3>7. \A k \in {at[1], -at[1]} : /\ k \in ended => Tracked(k)
                                     /\ Tracked(k)' <=> Tracked(k) /\ k \notin ended
                                     /\ Tracked(k)' => ledger'.entries[k].volume = ledger.entries[k].volume
      BY <1>11, <1>12, <3>3
    <3>8. \A k, l \in {at[1], -at[1]} :
            /\ Tracked(k) /\ ledger.entries[k].volume = at[2]
            /\ Tracked(l) /\ ledger.entries[l].volume = at[2]
            => k = l
      <4>1. \A k, l \in OffOn(at[2]) : Card(k) = Card(l) => k = l
        BY <3>1, CreditedOnce
      <4>2. \A k, l \in {at[1], -at[1]} : Card(k) = Card(l)
        BY <3>3
      <4> QED BY <3>4, <4>1, <4>2
    <3>9. CASE at \in settled'
      <4> SUFFICES ASSUME NEW k \in {at[1], -at[1]}, Tracked(k)', ledger'.entries[k].volume = at[2] PROVE FALSE
        BY <3>9
      <4>1. Tracked(k) /\ k \notin ended /\ ledger.entries[k].volume = at[2]
        BY <3>7
      <4>2. PICK l \in {at[1], -at[1]} : l \in ended /\ ledger.entries[l].volume = at[2]
        BY <3>2, <3>6, <3>9, <4>1
      <4>3. Tracked(l)
        BY <3>7, <4>2
      <4> QED BY <3>8, <4>1, <4>2, <4>3
    <3>10. CASE at \notin settled'
      <4>1. PICK k \in {at[1], -at[1]} : Tracked(k) /\ ledger.entries[k].volume = at[2]
        BY <3>2, <3>6, <3>10
      <4>2. k \notin ended
        BY <3>6, <3>10, <4>1
      <4> QED BY <3>7, <3>10, <4>1, <4>2
    <3> QED BY <3>9, <3>10
  <2> QED BY <1>2, <2>1, <2>2 DEF CoverInv, LeftFits
<1>16. CycleFits'
  <2>1. \A i \in seen.library \ disk : Tracked(i)'
    <3>1. \A i \in seen.library : i \in Key
      BY <1>3, KeyCards
    <3> QED BY <1>3, <1>11, <1>12, <3>1
  <2>2. \A i \in seen'.located : ledger'.last[home[i]].known
    <3>1. ASSUME NEW i \in seen'.located PROVE home[i] \in answered
      <4>1. PICK v \in answered : i \in LibraryOn(v)
        BY <1>3
      <4> QED BY <1>3, <4>1 DEF LibraryOn
    <3> QED BY <1>9, <3>1
  <2> QED BY <1>2, <1>3, <2>1, <2>2 DEF CycleFits
<1>17. \A i \in disk' : scheduled'[i] # 0 <=> Tracked(i)'
  <2>1. \A i \in disk : i \in Key /\ i \in seen.library
    BY <1>3, KeyCards
  <2> QED BY <1>2, <1>11, <1>12, <2>1 DEF CoverInv
<1>18. watched' \in [Volume -> Nat] /\ DOMAIN ledger'.watches = Volume /\ DOMAIN ledger'.last = Volume
  BY <1>2, <1>6, <1>9
<1> QED
  BY <1>2, <1>13, <1>14, <1>15, <1>16, <1>17, <1>18 DEF CoverInv

(* The books of every step. *)
LEMMA NextCover == NothingElse /\ IInv /\ CoverInv /\ [Next]_vars => CoverInv'
<1> SUFFICES ASSUME NothingElse, IInv, CoverInv, [Next]_vars PROVE CoverInv'
  OBVIOUS
<1>1. CASE ReadLibrary
  BY <1>1, ReadLibraryCover
<1>2. CASE Observe
  BY <1>2, ObserveCover
<1>3. CASE HandOff
  BY <1>3, HandOffCover
<1>4. CASE Unreadable
  BY <1>4, UnreadableCover
<1>5. CASE Save
  BY <1>5, SaveCover
<1>6. ASSUME NEW i \in Item, Evict(i) \/ MoveToArchive(i) PROVE CoverInv'
  BY <1>6, EvictCover, MoveCover
<1>7. CASE Stop \/ LoseFile
  BY <1>7 DEF Stop, LoseFile, NothingElse
<1>8. ASSUME NEW i \in Item, Deleted(i) \/ Redownload(i) \/ \E v \in Volume : Frees(i, v) PROVE CoverInv'
  <2>1. ~Redownload(i)
    BY DEF Redownload, NothingElse
  <2> QED BY <1>8, <2>1, DeletedCover, FreesCover
<1>9. ASSUME NEW v \in Volume, Download(v) \/ Import(v) PROVE CoverInv'
  <2>1. ~Import(v)
    BY DEF Import, NothingElse
  <2> QED BY <1>9, <2>1, DownloadCover
<1>10. CASE Tick
  BY <1>10, TickCover
<1>11. CASE UNCHANGED vars
  <2>1. /\ clock' = clock /\ file' = file /\ seen' = seen /\ pc' = pc /\ ledger' = ledger
        /\ UNCHANGED <<world, history>>
    BY <1>11 DEF vars
  <2>2. CycleFits'
    BY <2>1 DEF CoverInv, CycleFits, world, Tracked
  <2> QED BY <2>1, <2>2, BooksStay DEF CoverInv, world, history
<1> QED
  BY <1>1, <1>2, <1>3, <1>4, <1>5, <1>6, <1>7, <1>8, <1>9, <1>10, <1>11 DEF Next, Cycle, World

(* "Bytes still in a recycle bin are credited" (inflight.rs, `settle`): with *)
(* nothing else freeing space, and before any credit is given up, what is    *)
(* credited no longer though its bytes still occupy a disk is covered by what *)
(* is free and still credited, but for half an item every watch.            *)
THEOREM CreditCoversHolds ==
  ASSUME Disturbance = {}, MaxTime <= Stale, MaxTime <= HeldCredit
  PROVE  Spec => []CreditCovers
<1>1. NothingElse
  BY DEF NothingElse
<1>2. ASSUME IInv, CoverInv PROVE CreditCovers
  <2> SUFFICES ASSUME NEW v \in Volume
               PROVE  2 * Bytes(OccupyingOn(v)) <= 2 * Bytes(FreedOn(v)) + watched[v] * LargestSize
    BY DEF CreditCovers
  <2>1. /\ Allowed(ledger.watches[v], ledger.last[v], Excess(v), noise[v], watched[v])
        /\ noise[v] \in Nat /\ watched[v] \in Nat /\ Excess(v) \in Int
    BY <1>2, ExcessType DEF CoverInv
  <2>2. 2 * Excess(v) <= watched[v] * LargestSize
    BY <2>1, AllowedCovers
  <2>3. Bytes(OccupyingOn(v)) \in Nat /\ Bytes(FreedOn(v)) \in Nat /\ watched[v] * LargestSize \in Nat
    <3>1. OccupyingOn(v) \in SUBSET Key /\ FreedOn(v) \in SUBSET Key
      BY <1>2, FreedOff DEF FreedOn
    <3> QED BY <2>1, <3>1, BytesNat, LargestBounds
  <2> QED BY <2>2, <2>3 DEF Excess
<1>3. Init => IInv /\ CoverInv
  BY InitInv, InitCover
<1>4. IInv /\ CoverInv /\ [Next]_vars => IInv' /\ CoverInv'
  BY <1>1, NextInv, NextCover
<1> QED
  BY <1>2, <1>3, <1>4, PTL DEF Spec

=============================================================================
