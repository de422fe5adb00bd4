----------------------- MODULE NativeExecutorProofs -----------------------
(* Proofs about the native executor, for every library, limit and bound.   *)
EXTENDS NativeExecutor, FiniteSetTheorems, TLAPS

-----------------------------------------------------------------------------
(* What the plan's sets consist of. *)

(* An expired window is deleted on complete evidence of no play since the    *)
(* announcement, and only while the plan still selects the card.             *)
LEMMA DueFacts ==
  ASSUME NEW L, NEW v, NEW i \in Due(L, v)
  PROVE  /\ i \in Item /\ L[i] # NotLeaving
         /\ i \in v.library /\ i \in v.selected
         /\ i \notin TakenBack(L, v)
         /\ v.evidence[i] # NoEvidence /\ ~(v.evidence[i] > L[i].at)
         /\ v.complete /\ v.now >= L[i].until
  BY DEF Due, Expired, Judged, TakenBack, Shelved, PlayedSince

LEMMA ActingFacts ==
  ASSUME NEW L, NEW v, NEW acting \in Passes(L, v), NEW i \in acting
  PROVE  i \in v.eligible /\ i \notin Shelved(L) /\ ~Held(v, i)
  BY DEF Passes, Candidates

(* The plan's precedence depends on these fields of a view alone. *)
LEMMA SameOrder ==
  ASSUME NEW u, NEW v, u.library = v.library, u.evidence = v.evidence,
         u.selected = v.selected, u.order = v.order
  PROVE  \A i \in Item : After(u, i) = After(v, i) /\ Before(u, i) = Before(v, i)
<1>1. \A i, j : GoesBefore(u, j, i) <=> GoesBefore(v, j, i)
  BY DEF GoesBefore, Chain
<1> QED
  BY <1>1 DEF After, Before

(* A chosen order of cards is a sequence of cards. *)
LEMMA OrderType ==
  ASSUME NEW S \in SUBSET Item, NEW order \in SetToSeqs(S)
  PROVE  order \in Seq(Item)
<1>1. IsFiniteSet(S)
  BY ItemAssumption, FS_Subset
<1>2. Cardinality(S) \in Nat
  BY <1>1, FS_CardinalityType
<1>3. order \in [1..Cardinality(S) -> S]
  BY DEF SetToSeqs
<1> QED
  BY <1>2, <1>3

-----------------------------------------------------------------------------
(* The inductive invariant. *)

IInv == TypeOK /\ DecisionsStand

LEMMA InitInv == Init => IInv
<1> SUFFICES ASSUME Init PROVE IInv
  OBVIOUS
<1>1. TypeOK
  BY ItemAssumption, ExecutorAssumption, LimitAssumption
  DEF Init, TypeOK, Entry, NoView, NoRun, NothingToDo, View, Run, Todo, NoEvidence
<1>2. DecisionsStand
  BY ExecutorAssumption
  DEF Init, DecisionsStand, ViewFits, RunFits, TodoFits, ShelfFits, LookFits, Started,
      Working, NothingToDo, NotLeaving, Withdrawable
<1> QED
  BY <1>1, <1>2 DEF IInv

-----------------------------------------------------------------------------
(* Everyone else's steps. *)

decided == <<clock, plays, owner, finished, keepsFile, pledged, leavingFile, pc, view, run, todo, leaving>>

(* The decisions rest on nothing but these variables. *)
LEMMA Frame ==
  ASSUME DecisionsStand, UNCHANGED decided
  PROVE  DecisionsStand'
  BY DEF decided, DecisionsStand, ViewFits, RunFits, TodoFits, ShelfFits, LookFits, Started,
         Working, Withdrawable, Warning, NextDelete, FirstOnShelf, FirstInPlan, Baseline, Sooner

LEMMA PlayInv ==
  ASSUME IInv, NEW i \in Item, Play(i)
  PROVE  IInv'
<1> USE DEF Play, daemon, files, memory, Mishap
<1>1. TypeOK'
  BY ExecutorAssumption DEF IInv, TypeOK
<1>2. /\ plays' \in [Item -> 0..MaxTime] /\ clock \in 1..MaxTime
      /\ \A j \in Item : plays'[j] = plays[j] \/ plays'[j] = clock
      /\ \A j \in Item : owner'[j] = owner[j] \/ owner'[j] = clock
      /\ finished \subseteq finished'
  BY DEF IInv, TypeOK
<1>3. ViewFits'
  BY <1>2 DEF IInv, DecisionsStand, ViewFits, TypeOK, View
<1>4. RunFits'
  BY DEF IInv, DecisionsStand, RunFits, Started
<1>5. TodoFits'
  BY <1>2 DEF IInv, DecisionsStand, TodoFits, RunFits, Withdrawable, Started, Working, TypeOK, Todo, Run
<1>6. ShelfFits'
  BY DEF IInv, DecisionsStand, ShelfFits, Started, Warning
<1>7. LookFits'
  <2> SUFFICES ASSUME pc = "deleting" PROVE LookFits'
    BY DEF LookFits
  <2>1. NextDelete' = NextDelete /\ NextDelete \subseteq Item
    BY DEF NextDelete, Withdrawable, FirstOnShelf, FirstInPlan, Sooner, IInv, TypeOK, Todo
  <2>2. \A j \in Item : Baseline(j)' = Baseline(j)
    BY DEF Baseline
  <2> QED
    BY <1>2, <2>1, <2>2 DEF LookFits, IInv, DecisionsStand
<1> QED
  BY <1>1, <1>3, <1>4, <1>5, <1>6, <1>7 DEF IInv, DecisionsStand

LEMMA PeopleInv == IInv /\ People => IInv'
<1> SUFFICES ASSUME IInv, People PROVE IInv'
  OBVIOUS
<1> USE DEF daemon, files, memory, Mishap
<1>1. ASSUME NEW i \in Item, Play(i) PROVE IInv'
  BY <1>1, PlayInv
<1>2. ASSUME NEW i \in Item, Keep(i) PROVE IInv'
  BY <1>2, Frame, ExecutorAssumption DEF Keep, IInv, TypeOK, decided
<1>3. ASSUME NEW i \in Item, TakenOffByHand(i) PROVE IInv'
  BY <1>3, Frame, ExecutorAssumption DEF TakenOffByHand, IInv, TypeOK, decided
<1>4. ASSUME NEW i \in Item, DiskChanges(i) PROVE IInv'
  BY <1>4, Frame, ExecutorAssumption DEF DiskChanges, IInv, TypeOK, decided
<1>5. ASSUME NEW i \in Item, AskUndo(i) PROVE IInv'
  BY <1>5, Frame, ExecutorAssumption DEF AskUndo, IInv, TypeOK, decided
<1>6. CASE Retitle
  BY <1>6, Frame, ExecutorAssumption DEF Retitle, IInv, TypeOK, decided
<1> QED
  BY <1>1, <1>2, <1>3, <1>4, <1>5, <1>6 DEF People

(* Time only makes windows older. *)
LEMMA TickInv == IInv /\ Tick => IInv'
<1> SUFFICES ASSUME IInv, Tick PROVE IInv'
  OBVIOUS
<1> USE DEF Tick, daemon, world, files, memory
<1>1. TypeOK'
  BY ExecutorAssumption DEF IInv, TypeOK
<1>2. clock \in Nat /\ clock' = clock + 1
  BY DEF IInv, TypeOK
<1>3. ViewFits' /\ RunFits' /\ TodoFits'
  BY <1>2 DEF IInv, DecisionsStand, ViewFits, RunFits, TodoFits, Withdrawable, Started, Working
<1>4. ShelfFits'
  BY <1>2 DEF IInv, DecisionsStand, ShelfFits, Started, Warning, TypeOK, Entry, NotLeaving
<1>5. LookFits'
  <2> SUFFICES ASSUME pc = "deleting" PROVE LookFits'
    BY DEF LookFits
  <2>1. NextDelete' = NextDelete /\ \A j \in Item : Baseline(j)' = Baseline(j)
    BY DEF NextDelete, Withdrawable, FirstOnShelf, FirstInPlan, Sooner, Baseline
  <2>2. NextDelete \subseteq Item
    BY DEF NextDelete, Withdrawable, FirstOnShelf, FirstInPlan, IInv, TypeOK, Todo
  <2> QED
    BY <1>2, <2>1, <2>2 DEF LookFits, IInv, DecisionsStand, TypeOK, Run
<1> QED
  BY <1>1, <1>3, <1>4, <1>5 DEF IInv, DecisionsStand

-----------------------------------------------------------------------------
(* The cycle's steps. *)

(* Deletes wait for the withdrawals, and are of cards due or to go at once. *)
LEMMA NextDeleteFacts ==
  ASSUME NEW i \in NextDelete
  PROVE  Withdrawable = {} /\ i \in todo.due \cup todo.once
  BY DEF NextDelete, FirstOnShelf, FirstInPlan

LEMMA EntryType ==
  ASSUME NEW e \in Entry
  PROVE  /\ e.at \in Nat /\ e.until \in Nat /\ e.place \in Place \cup {NoPlace}
         /\ e # NotLeaving => e.at \in 1..MaxTime /\ e.until = e.at + Window
  BY ExecutorAssumption DEF Entry, NotLeaving

(* At most one card is next. *)
LEMMA OneDelete ==
  ASSUME IInv, NEW i \in NextDelete, NEW j \in NextDelete
  PROVE  i = j
<1>1. todo.due \subseteq Item /\ todo.once \subseteq Item /\ run.order \in Seq(Item)
  BY DEF IInv, TypeOK, Todo, Run
<1>2. CASE todo.due # {}
  <2>1. i \in FirstOnShelf(todo.due) /\ j \in FirstOnShelf(todo.due)
    BY <1>2 DEF NextDelete
  <2>2. i \in Nat /\ j \in Nat /\ leaving[i].until \in Nat /\ leaving[j].until \in Nat
    <3>1. i \in Item /\ j \in Item /\ leaving \in [Item -> Entry]
      BY <1>1, <2>1 DEF FirstOnShelf, IInv, TypeOK
    <3> QED
      BY <3>1, EntryType, ItemAssumption
  <2>3. i # j => Sooner(leaving, i, j) /\ Sooner(leaving, j, i)
    BY <2>1 DEF FirstOnShelf
  <2> QED
    BY <2>2, <2>3 DEF Sooner
<1>3. CASE todo.due = {}
  <2>1. i \in FirstInPlan(todo.once) /\ j \in FirstInPlan(todo.once)
    BY <1>3 DEF NextDelete
  <2>2. PICK m \in DOMAIN run.order : run.order[m] = i /\ \A k \in 1..(m - 1) : run.order[k] \notin todo.once
    BY <2>1 DEF FirstInPlan
  <2>3. PICK n \in DOMAIN run.order : run.order[n] = j /\ \A k \in 1..(n - 1) : run.order[k] \notin todo.once
    BY <2>1 DEF FirstInPlan
  <2>4. m \in Nat \ {0} /\ n \in Nat \ {0}
    BY <1>1
  <2>5. i \in todo.once /\ j \in todo.once
    BY <2>1 DEF FirstInPlan
  <2> QED
    BY <2>2, <2>3, <2>4, <2>5
<1> QED
  BY <1>2, <1>3

LEMMA SkipType ==
  ASSUME todo \in Todo, NEW i \in Item, Skip(i)
  PROVE  /\ todo' \in Todo
         /\ todo'.gone = todo.gone /\ todo'.back = todo.back /\ todo'.announce = todo.announce
         /\ todo'.undo = todo.undo /\ todo'.due = todo.due \ {i} /\ todo'.once = todo.once \ {i}
<1> DEFINE due == todo.due \ {i}
           once == todo.once \ {i}
<1>1. todo' = [todo EXCEPT !.due = due, !.once = once]
  BY DEF Skip
<1>2. due \in SUBSET Item /\ once \in SUBSET Item
  BY DEF Todo
<1> HIDE DEF due, once
<1>3. /\ todo' \in Todo /\ todo'.due = due /\ todo'.once = once
      /\ todo'.gone = todo.gone /\ todo'.back = todo.back /\ todo'.announce = todo.announce
      /\ todo'.undo = todo.undo
  BY <1>1, <1>2 DEF Todo
<1> QED
  BY <1>3 DEF due, once

(* What a cycle reads is well typed. *)
LEMMA SeenType ==
  ASSUME IInv, NEW readable \in BOOLEAN, NEW plex \in BOOLEAN, NEW complete \in BOOLEAN,
         NEW dry \in DryRun, NEW evidence \in Readings(complete)
  PROVE  LET seen == Seen(readable, plex, complete, evidence, dry)
         IN  /\ seen \in View
             /\ seen.pinned = Pinned(readable, plex) /\ seen.place = place /\ seen.now = clock
             /\ seen.evidence = evidence /\ seen.complete = complete
             /\ seen.unfinished = {i \in Item : i \notin finished \/ evidence[i] <= 0}
<1>1. Seen(readable, plex, complete, evidence, dry) =
        [library |-> disk, pinned |-> Pinned(readable, plex), evidence |-> evidence,
         complete |-> complete, selected |-> {},
         unfinished |-> {i \in Item : i \notin finished \/ evidence[i] <= 0},
         order |-> <<>>, eligible |-> {}, place |-> place, now |-> clock, dry |-> dry]
  BY DEF Seen
<1>2. Pinned(readable, plex) \subseteq Item
  BY ExecutorAssumption DEF Pinned, KeepsRead, IInv, TypeOK
<1>3. evidence \in [Item -> NoEvidence..MaxTime]
  BY DEF Readings
<1>4. /\ disk \in SUBSET Item /\ dry \in BOOLEAN /\ clock \in 0..MaxTime
      /\ place \in Place \cup {NoPlace} /\ <<>> \in Seq(Item)
  BY ExecutorAssumption DEF IInv, TypeOK
<1>5. {i \in Item : i \notin finished \/ evidence[i] <= 0} \in SUBSET Item
  OBVIOUS
<1>6. Seen(readable, plex, complete, evidence, dry) \in View
  BY <1>1, <1>2, <1>3, <1>4, <1>5 DEF View
<1> QED
  BY <1>1, <1>6

LEMMA BeginInv == IInv /\ Begin => IInv'
<1> SUFFICES ASSUME IInv, Begin PROVE IInv'
  OBVIOUS
<1>1. PICK readable \in BOOLEAN, written \in BOOLEAN, plex \in BOOLEAN, complete \in BOOLEAN,
           dry \in DryRun, evidence \in Readings(TRUE) \cup Readings(FALSE) :
        /\ evidence \in Readings(complete)
        /\ complete => plex
        /\ IF readable /\ written /\ complete /\ evidence = Exact THEN Smooth ELSE Mishap
        /\ SaveKeeps(readable, plex, written)
        /\ Pledge(readable, plex)
        /\ Decide(Seen(readable, plex, complete, evidence, dry), plex)
  BY Zenon DEF Begin
<1> DEFINE seen == Seen(readable, plex, complete, evidence, dry)
<1>2. /\ seen \in View
      /\ seen.pinned = Pinned(readable, plex) /\ seen.place = place /\ seen.now = clock
      /\ seen.evidence = evidence /\ seen.complete = complete
      /\ seen.unfinished = {i \in Item : i \notin finished \/ evidence[i] <= 0}
  BY <1>1, SeenType
<1>decide. Decide(seen, plex)
  BY <1>1
<1>3. PICK selected \in SUBSET Selectable(seen, plex) :
        \E ripe \in SUBSET selected, order \in SetToSeqs(selected) :
          LET plan == [seen EXCEPT !.selected = selected, !.order = order]
          IN  \E eligible \in Releasable(plan, ripe, Shelved(leavingFile)) :
                view' = [plan EXCEPT !.eligible = eligible]
  BY <1>decide DEF Decide
<1> HIDE DEF seen
<1>4. PICK ripe \in SUBSET selected, order \in SetToSeqs(selected) :
        LET plan == [seen EXCEPT !.selected = selected, !.order = order]
        IN  \E eligible \in Releasable(plan, ripe, Shelved(leavingFile)) :
              view' = [plan EXCEPT !.eligible = eligible]
  BY <1>3
<1>5. PICK eligible \in SUBSET ripe :
        view' = [[seen EXCEPT !.selected = selected, !.order = order] EXCEPT !.eligible = eligible]
  BY <1>4 DEF Releasable
<1>6. /\ selected \subseteq Matched(plex, place) \ Pinned(readable, plex)
      /\ selected \in SUBSET Item
  BY <1>2 DEF Selectable, Matched, IInv, TypeOK
<1>7. /\ view' \in View
      /\ view'.evidence = evidence /\ view'.complete = complete /\ view'.now = clock
      /\ view'.selected = selected /\ view'.eligible = eligible
      /\ view'.unfinished = {i \in Item : i \notin finished \/ evidence[i] <= 0}
  <2>1. order \in Seq(Item)
    BY <1>6, OrderType
  <2> QED
    BY <1>2, <1>5, <1>6, <2>1 DEF View
<1>8. complete => \A i \in Item : evidence[i] \in {NoEvidence, plays[i]}
  BY <1>1 DEF Readings
<1>9. UNCHANGED <<clock, world, leavingFile, deletedFile, ledgerFile, run, todo, memory>> /\ pc = "idle" /\ pc' = "planning"
  BY DEF Begin
<1>10. TypeOK'
  <2>1. keepsFile' \subseteq Item /\ pledged' \subseteq Item
    BY <1>1 DEF IInv, TypeOK, SaveKeeps, Pledge, KeepsRead
  <2>2. events' \in 0..MaxEvents
    BY <1>1, ExecutorAssumption DEF IInv, TypeOK, Smooth, Mishap
  <2> QED
    BY <1>7, <1>9, <2>1, <2>2 DEF IInv, TypeOK, world, memory
<1>11. ViewFits'
  <2>1. selected \cap pledged' = {}
    BY <1>1, <1>6 DEF Pinned, Pledge
  <2>2. JellyfinPlaces = {} => selected \cap Marked = {}
    BY <1>6 DEF Matched, Pinned
  <2>3. Item \ finished \subseteq view'.unfinished
    BY <1>7
  <2>4. /\ clock' = clock /\ plays' = plays /\ finished' = finished /\ clock \in 1..clock
    BY <1>9 DEF world, IInv, TypeOK
  <2> QED
    BY <1>7, <1>8, <2>1, <2>2, <2>3, <2>4 DEF ViewFits
<1>12. RunFits' /\ LookFits'
  BY <1>9 DEF RunFits, LookFits, Started
<1>13. TodoFits'
  BY <1>9 DEF TodoFits, Started, Working, Withdrawable, IInv, DecisionsStand, TypeOK, Todo
<1>14. ShelfFits'
  BY <1>9 DEF ShelfFits, Started, IInv, DecisionsStand, memory
<1> QED
  BY <1>10, <1>11, <1>12, <1>13, <1>14 DEF IInv, DecisionsStand

LEMMA PlanInv == IInv /\ Plan => IInv'
<1> SUFFICES ASSUME IInv, Plan PROVE IInv'
  OBVIOUS
<1> DEFINE v == [view EXCEPT !.now = clock]
<1>1. PICK acting \in Passes(leaving, v) :
      /\ run' = [read |-> view.now, now |-> clock, looked |-> 0, evicted |-> 0, order |-> view.order,
                 place |-> view.place, dry |-> view.dry]
      /\ todo' = [gone |-> Vanished(leaving, v), back |-> TakenBack(leaving, v),
                  due |-> Due(leaving, v), once |-> DeletedAtOnce(acting, v),
                  announce |-> Announced(acting, v), undo |-> {}]
      /\ deleted' = {d \in deletedFile : clock - d.at < UndoWindow}
      /\ view' = NoView /\ pc = "planning" /\ pc' = "acting"
      /\ UNCHANGED <<clock, world, files, leaving, booked, events>>
  BY DEF Plan
<1>2. /\ v.library = view.library /\ v.evidence = view.evidence /\ v.complete = view.complete
      /\ v.selected = view.selected /\ v.unfinished = view.unfinished /\ v.eligible = view.eligible
      /\ v.place = view.place /\ v.now = clock
  BY DEF IInv, TypeOK, View
<1> HIDE DEF v
<1>3. leaving = leavingFile
  BY <1>1 DEF IInv, DecisionsStand, ShelfFits, Started
<1>4. ASSUME NEW i \in todo'.due
      PROVE  /\ i \in Item /\ leaving[i] # NotLeaving /\ i \in view.selected
             /\ i \notin TakenBack(leaving, v) /\ i \in view.library
             /\ leaving[i].until <= clock
             /\ plays[i] <= leaving[i].at \/ plays[i] >= view.now
  <2>1. i \in Due(leaving, v)
    BY <1>1
  <2>2. /\ i \in Item /\ leaving[i] # NotLeaving /\ i \in view.selected
        /\ i \notin TakenBack(leaving, v) /\ i \in view.library
        /\ view.evidence[i] # NoEvidence /\ ~(view.evidence[i] > leaving[i].at)
        /\ view.complete /\ clock >= leaving[i].until
    BY <1>2, <2>1, DueFacts
  <2>3. /\ view.evidence[i] \in Int /\ clock \in Nat /\ leaving[i].until \in Nat /\ leaving[i].at \in Nat
    BY <2>2, LimitAssumption DEF IInv, TypeOK, View, Entry, NotLeaving, NoEvidence
  <2> QED
    BY <1>1, <2>2, <2>3 DEF IInv, DecisionsStand, ViewFits
<1>5. ASSUME NEW i \in acting
      PROVE  /\ i \in Item /\ leaving[i] = NotLeaving /\ i \in view.selected
             /\ i \in view.unfinished => view.place # NoPlace
  <2>1. i \in view.eligible /\ i \notin Shelved(leaving) /\ ~Held(v, i)
    BY <1>1, <1>2, ActingFacts
  <2>2. i \in view.selected /\ i \in Item
    BY <1>1, <2>1 DEF IInv, DecisionsStand, ViewFits, TypeOK, View
  <2> QED
    BY <1>2, <2>1, <2>2 DEF Shelved, Held
<1>6. ASSUME NEW i \in todo'.once
      PROVE  i \in finished /\ leaving[i] = NotLeaving /\ i \in view.selected
  <2>1. i \in acting /\ i \notin view.unfinished
    BY <1>1, <1>2 DEF DeletedAtOnce
  <2> QED
    BY <1>1, <1>5, <2>1 DEF IInv, DecisionsStand, ViewFits
<1>7. ASSUME NEW i \in todo'.announce
      PROVE  i \in Item /\ leaving[i] = NotLeaving /\ view.place # NoPlace
  BY <1>1, <1>2, <1>5 DEF Announced
<1>8. TypeOK'
  <2>1. todo' \in Todo
    <3>1. /\ Vanished(leaving, v) \subseteq Item /\ TakenBack(leaving, v) \subseteq Item
      BY DEF Vanished, TakenBack, Judged, PlayedSince, Moved, Shelved
    <3>2. DeletedAtOnce(acting, v) \subseteq Item /\ Announced(acting, v) \subseteq Item
      BY <1>5 DEF DeletedAtOnce, Announced
    <3>3. Due(leaving, v) \subseteq Item
      BY <1>1, <1>4
    <3> QED
      BY <1>1, <3>1, <3>2, <3>3 DEF Todo
  <2>2. run' \in Run
    <3>1. [i \in Item |-> After(view, i)] \in [Item -> SUBSET Item]
      BY DEF After, IInv, TypeOK, View
    <3> QED
      BY <1>1, <3>1, ExecutorAssumption DEF Run, IInv, TypeOK, View
  <2>3. view' \in View
    BY <1>1, ExecutorAssumption DEF NoView, View, NoEvidence
  <2> QED
    BY <1>1, <2>1, <2>2, <2>3 DEF IInv, TypeOK, world, files
<1>9. ViewFits' /\ LookFits'
  BY <1>1 DEF ViewFits, LookFits
<1>10. RunFits'
  BY <1>1 DEF RunFits, IInv, TypeOK, DecisionsStand, ViewFits
<1>11. TodoFits'
  <2>1. Withdrawable' \cap todo'.due = {}
    BY <1>1, <1>2, <1>4 DEF Withdrawable, Vanished
  <2>2. \A i \in todo'.due : /\ leavingFile'[i] # NotLeaving /\ leaving'[i] = leavingFile'[i]
                             /\ leavingFile'[i].until <= run'.now
                             /\ plays'[i] <= leavingFile'[i].at \/ plays'[i] >= run'.read
    BY <1>1, <1>3, <1>4 DEF world, files
  <2>3. \A i \in todo'.once : i \in finished' /\ leavingFile'[i] = NotLeaving
    BY <1>1, <1>3, <1>6 DEF world, files
  <2>4. \A i \in todo'.announce : leavingFile'[i] = NotLeaving /\ run'.place # NoPlace
    BY <1>1, <1>3, <1>7 DEF files
  <2>5. todo'.due \cup todo'.once \subseteq view.selected
    BY <1>4, <1>6
  <2>6. /\ (todo'.due \cup todo'.once) \cap pledged' = {}
        /\ JellyfinPlaces = {} => (todo'.due \cup todo'.once) \cap Marked = {}
    BY <1>1, <2>5 DEF IInv, DecisionsStand, ViewFits, files
  <2> QED
    BY <1>1, <2>1, <2>2, <2>3, <2>4, <2>6 DEF TodoFits, Working
<1>12. ShelfFits'
  BY <1>1, <1>3 DEF ShelfFits, IInv, DecisionsStand, Started, files
<1> QED
  BY <1>8, <1>9, <1>10, <1>11, <1>12 DEF IInv, DecisionsStand

(* Work taken off the list leaves the rest justified. *)
LEMMA LessToDo ==
  ASSUME IInv, Started, Started', pc' = pc \/ Working',
         UNCHANGED <<finished, plays, pledged, leavingFile>>,
         run'.now = run.now, run'.read = run.read, run'.place = run.place,
         todo'.gone \subseteq todo.gone, todo'.back \subseteq todo.back, todo'.due \subseteq todo.due,
         todo'.once \subseteq todo.once, todo'.announce \subseteq todo.announce,
         \A i \in todo'.due : leaving'[i] = leaving[i]
  PROVE  TodoFits'
  BY DEF TodoFits, IInv, DecisionsStand, Withdrawable, Working

LEMMA WithdrawInv ==
  ASSUME IInv, NEW i \in Item, Withdraw(i)
  PROVE  IInv'
<1> USE DEF Mishap, Smooth
<1>1. /\ pc = "acting" /\ i \in Withdrawable
      /\ todo' = [todo EXCEPT !.gone = @ \ {i}, !.back = @ \ {i}]
      /\ UNCHANGED <<clock, disk, plays, owner, finished, keeps, place, requests, ours, files, pc, view, run, deleted>>
      /\ \/ leaving' = [leaving EXCEPT ![i] = NotLeaving] /\ booked' = booked \ {i}
         \/ UNCHANGED <<leaving, booked>>
      /\ members' \subseteq members
      /\ events' = events \/ (events > 0 /\ events' = events - 1)
  BY DEF Withdraw, FirstOnShelf, Forget, TakeOff
<1>2. i \notin todo.due /\ todo \in Todo
  BY <1>1 DEF IInv, DecisionsStand, TodoFits, TypeOK
<1>3. TypeOK'
  <2>1. todo' \in Todo
    BY <1>1, <1>2 DEF Todo
  <2>2. leaving' \in [Item -> Entry]
    BY <1>1 DEF IInv, TypeOK, Entry
  <2>3. events' \in 0..MaxEvents /\ booked' \subseteq Item /\ members' \subseteq Item \X Place
    BY <1>1, ExecutorAssumption DEF IInv, TypeOK
  <2> QED
    BY <1>1, <2>1, <2>2, <2>3 DEF IInv, TypeOK, files
<1>4. ViewFits' /\ LookFits'
  BY <1>1 DEF ViewFits, LookFits
<1>5. RunFits'
  BY <1>1 DEF RunFits, Started, IInv, DecisionsStand
<1>6. TodoFits'
  BY <1>1, <1>2, LessToDo DEF Started, Working, Todo, files, IInv, TypeOK
<1>7. ShelfFits'
  BY <1>1 DEF ShelfFits, Started, Warning, files, IInv, DecisionsStand, TypeOK
<1> QED
  BY <1>3, <1>4, <1>5, <1>6, <1>7 DEF IInv, DecisionsStand

LEMMA LastLookInv ==
  ASSUME IInv, NEW i \in Item, LastLook(i)
  PROVE  IInv'
<1> USE DEF Mishap, Smooth
<1>1. /\ pc = "acting" /\ i \in NextDelete
      /\ UNCHANGED <<clock, world, files, view, deleted>>
      /\ events' = events \/ (events > 0 /\ events' = events - 1)
      /\ \/ /\ Clear(i) /\ run' = [run EXCEPT !.looked = clock] /\ pc' = "deleting"
            /\ UNCHANGED <<todo, leaving, booked>>
         \/ /\ Skip(i) /\ UNCHANGED <<pc, run>>
            /\ \/ UNCHANGED <<leaving, booked>>
               \/ leaving' = [leaving EXCEPT ![i] = NotLeaving] /\ booked' = booked \ {i}
  BY DEF LastLook, ForgetUnshelved, Forget
<1>2. i \in todo.due \cup todo.once /\ todo \in Todo /\ run \in Run /\ clock \in 1..MaxTime
  BY <1>1, NextDeleteFacts DEF IInv, TypeOK
<1>3. TypeOK'
  <2>a. todo' \in Todo
    BY <1>1, <1>2, SkipType
  <2>b. run' \in Run
    BY <1>1, <1>2, ExecutorAssumption DEF Run
  <2>1. todo' \in Todo /\ run' \in Run
    BY <2>a, <2>b
  <2>2. leaving' \in [Item -> Entry]
    BY <1>1 DEF IInv, TypeOK, Entry
  <2>3. events' \in 0..MaxEvents /\ booked' \subseteq Item
    BY <1>1, ExecutorAssumption DEF IInv, TypeOK
  <2> QED
    BY <1>1, <2>1, <2>2, <2>3 DEF IInv, TypeOK, files, world
<1>4. CASE /\ Clear(i) /\ run' = [run EXCEPT !.looked = clock] /\ pc' = "deleting"
           /\ UNCHANGED <<todo, leaving, booked>>
  <2>1. /\ run'.now = run.now /\ run'.read = run.read /\ run'.place = run.place /\ run'.looked = clock
        /\ run'.order = run.order
    BY <1>2, <1>4 DEF Run
  <2>2. ViewFits' /\ RunFits' /\ TodoFits' /\ ShelfFits'
    BY <1>1, <1>4, <2>1 DEF ViewFits, RunFits, TodoFits, ShelfFits, Withdrawable, Warning, Started, Working,
                            IInv, DecisionsStand, world, files
  <2>3. NextDelete' = NextDelete /\ \A j \in NextDelete : j \in NextDelete => Baseline(j)' = Baseline(j)
    BY <1>1, <1>4, <2>1 DEF NextDelete, Withdrawable, FirstOnShelf, FirstInPlan, Sooner, Baseline
  <2>4. \A j \in NextDelete : j = i
    BY <1>1, OneDelete
  <2>5. LookFits'
    BY <1>1, <1>2, <1>4, <2>1, <2>3, <2>4 DEF LookFits, Clear, world
  <2> QED
    BY <1>3, <2>2, <2>5 DEF IInv, DecisionsStand
<1>5. CASE /\ Skip(i) /\ UNCHANGED <<pc, run>>
           /\ \/ UNCHANGED <<leaving, booked>>
              \/ leaving' = [leaving EXCEPT ![i] = NotLeaving] /\ booked' = booked \ {i}
  <2>1. ViewFits' /\ LookFits' /\ RunFits'
    BY <1>1, <1>5 DEF ViewFits, LookFits, RunFits, Started, IInv, DecisionsStand, world
  <2>2. TodoFits'
    BY <1>1, <1>2, <1>5, LessToDo DEF Started, Working, Todo, Skip, files, world, IInv, TypeOK
  <2>3. ShelfFits'
    BY <1>1, <1>5 DEF ShelfFits, Started, Warning, files, IInv, DecisionsStand, TypeOK
  <2> QED
    BY <1>3, <2>1, <2>2, <2>3 DEF IInv, DecisionsStand
<1> QED
  BY <1>1, <1>4, <1>5

LEMMA EvictInv ==
  ASSUME IInv, NEW i \in Item, Evict(i)
  PROVE  IInv'
<1> USE DEF Mishap, Smooth
<1>1. /\ pc = "deleting" /\ pc' = "acting" /\ i \in NextDelete /\ Skip(i)
      /\ UNCHANGED <<clock, plays, owner, finished, keeps, place, requests, files, view>>
      /\ events' = events \/ (events > 0 /\ events' = events - 1)
      /\ \/ run' = run
         \/ run' = [run EXCEPT !.evicted = @ + 1]
      /\ \/ disk' = disk /\ ours' = ours
         \/ disk' = disk \ {i} /\ ours' = ours \cup {i}
      /\ \/ UNCHANGED <<memory, members>>
         \/ Record(i)
  BY DEF Evict
<1>2. i \in todo.due \cup todo.once /\ todo \in Todo /\ run \in Run /\ clock \in 1..MaxTime
  BY <1>1, NextDeleteFacts DEF IInv, TypeOK
<1>3. /\ run'.now = run.now /\ run'.read = run.read /\ run'.place = run.place /\ run' \in Run
  BY <1>1, <1>2 DEF Run
<1>4. /\ todo' \in Todo
      /\ todo'.gone = todo.gone /\ todo'.back = todo.back /\ todo'.announce = todo.announce
      /\ todo'.due = todo.due \ {i} /\ todo'.once = todo.once \ {i}
  BY <1>1, <1>2, SkipType
<1>5. /\ leaving' = leaving \/ leaving' = [leaving EXCEPT ![i] = NotLeaving]
      /\ booked' \subseteq booked \cup {i} /\ members' \subseteq members
      /\ deleted' \subseteq deleted \cup {[id |-> i, at |-> run.now]}
  BY <1>1 DEF Record, TakeOff, memory
<1>6. run.now \in 1..MaxTime
  BY <1>1, <1>2 DEF IInv, DecisionsStand, RunFits, Started, Run
<1>7. TypeOK'
  <2>1. leaving' \in [Item -> Entry]
    BY <1>5 DEF IInv, TypeOK, Entry
  <2>2. deleted' \subseteq Deletes
    BY <1>5, <1>6 DEF IInv, TypeOK, Deletes
  <2>3. events' \in 0..MaxEvents /\ booked' \subseteq Item /\ members' \subseteq Item \X Place
    BY <1>1, <1>5, ExecutorAssumption DEF IInv, TypeOK
  <2>4. disk' \subseteq Item /\ ours' \subseteq Item \ disk'
    BY <1>1 DEF IInv, TypeOK
  <2> QED
    BY <1>1, <1>3, <1>4, <2>1, <2>2, <2>3, <2>4 DEF IInv, TypeOK, files
<1>8. ViewFits' /\ LookFits' /\ RunFits'
  BY <1>1, <1>3 DEF ViewFits, LookFits, RunFits, Started, IInv, DecisionsStand
<1>9. TodoFits'
  BY <1>1, <1>3, <1>4, <1>5, LessToDo DEF Started, Working, files, IInv, TypeOK, Todo
<1>10. ShelfFits'
  BY <1>1, <1>3, <1>5 DEF ShelfFits, Started, Warning, files, IInv, DecisionsStand, TypeOK
<1> QED
  BY <1>7, <1>8, <1>9, <1>10 DEF IInv, DecisionsStand

LEMMA AnnounceInv ==
  ASSUME IInv, NEW i \in Item, Announce(i)
  PROVE  IInv'
<1> USE DEF Mishap, Smooth
<1> DEFINE group == {j \in todo.announce : Section[j] = Section[i]}
<1>1. /\ pc = "acting" /\ todo.due = {} /\ i \in todo.announce
      /\ Shelve(group)
      /\ todo' = [todo EXCEPT !.announce = @ \ group]
      /\ UNCHANGED <<clock, disk, plays, owner, finished, keeps, place, requests, ours, files, pc, view, run, deleted>>
  BY DEF Announce
<1>2. /\ todo \in Todo /\ group \subseteq todo.announce /\ run \in Run
      /\ run.now \in 1..MaxTime /\ run.now <= clock
  BY <1>1 DEF IInv, TypeOK, DecisionsStand, RunFits, Started, Run
<1>3. /\ run.place # NoPlace
      /\ \A j \in group : leavingFile[j] = NotLeaving
  BY <1>1 DEF IInv, DecisionsStand, TodoFits
<1> HIDE DEF group
<1>4. /\ events' = events \/ (events > 0 /\ events' = events - 1)
      /\ members' \subseteq members \cup (group \X {run.place})
      /\ booked' \subseteq booked \cup group
      /\ leaving' = leaving \/ leaving' = [j \in Item |-> IF j \in group THEN Warning ELSE leaving[j]]
  BY <1>1 DEF Shelve
<1>5. /\ todo' \in Todo /\ todo'.gone = todo.gone /\ todo'.back = todo.back /\ todo'.due = todo.due
      /\ todo'.once = todo.once /\ todo'.announce \subseteq todo.announce
  BY <1>1, <1>2 DEF Todo
<1>6. TypeOK'
  <2>1. Warning \in Entry
    BY <1>2, <1>3, LimitAssumption DEF Warning, Entry, Run
  <2>2. leaving' \in [Item -> Entry]
    BY <1>4, <2>1 DEF IInv, TypeOK
  <2>3. members' \subseteq Item \X Place
    BY <1>2, <1>3, <1>4 DEF IInv, TypeOK, Todo, Run
  <2>4. events' \in 0..MaxEvents /\ booked' \subseteq Item
    BY <1>2, <1>4, ExecutorAssumption DEF IInv, TypeOK, Todo
  <2> QED
    BY <1>1, <1>5, <2>2, <2>3, <2>4 DEF IInv, TypeOK, files
<1>7. ViewFits' /\ LookFits' /\ RunFits'
  BY <1>1 DEF ViewFits, LookFits, RunFits, Started, IInv, DecisionsStand
<1>8. TodoFits'
  BY <1>1, <1>5, LessToDo DEF Started, Working, files
<1>9. ShelfFits'
  <2>1. Warning' = Warning
    BY <1>1 DEF Warning
  <2> QED
    BY <1>1, <1>3, <1>4, <2>1 DEF ShelfFits, Started, files, IInv, DecisionsStand, TypeOK
<1> QED
  BY <1>6, <1>7, <1>8, <1>9 DEF IInv, DecisionsStand

LEMMA UnmatchedInv ==
  ASSUME IInv, NEW i \in Item, Unmatched(i)
  PROVE  IInv'
<1> USE DEF Mishap, Smooth
<1>1. /\ pc = "acting" /\ todo' = [todo EXCEPT !.announce = @ \ {i}]
      /\ UNCHANGED <<clock, world, files, pc, view, run, memory>>
      /\ events > 0 /\ events' = events - 1 /\ todo \in Todo
  BY DEF Unmatched, IInv, TypeOK
<1>2. /\ todo' \in Todo /\ todo'.gone = todo.gone /\ todo'.back = todo.back /\ todo'.due = todo.due
      /\ todo'.once = todo.once /\ todo'.announce \subseteq todo.announce
  BY <1>1 DEF Todo
<1>3. TypeOK'
  BY <1>1, <1>2, ExecutorAssumption DEF IInv, TypeOK, world, files, memory
<1>4. ViewFits' /\ LookFits' /\ RunFits'
  BY <1>1 DEF ViewFits, LookFits, RunFits, Started, IInv, DecisionsStand
<1>5. TodoFits'
  BY <1>1, <1>2, LessToDo DEF Started, Working, world, files, memory
<1>6. ShelfFits'
  BY <1>1 DEF ShelfFits, Started, Warning, files, memory, IInv, DecisionsStand
<1> QED
  BY <1>3, <1>4, <1>5, <1>6 DEF IInv, DecisionsStand

(* Nothing is left to decide once the entries are worked through. *)
LEMMA ActedInv == IInv /\ Acted => IInv'
<1> SUFFICES ASSUME IInv, Acted PROVE IInv'
  OBVIOUS
<1>1. /\ pc = "acting" /\ pc' = "undoing"
      /\ todo' = [NothingToDo EXCEPT !.undo = requests]
      /\ UNCHANGED <<clock, world, files, view, run, memory, events>>
  BY DEF Acted
<1>2. TypeOK'
  <2>1. todo' \in Todo
    BY <1>1 DEF IInv, TypeOK, Todo, NothingToDo, world
  <2> QED
    BY <1>1, <2>1 DEF IInv, TypeOK, world, files, memory
<1>3. ViewFits' /\ LookFits' /\ RunFits'
  BY <1>1 DEF ViewFits, LookFits, RunFits, Started, IInv, DecisionsStand
<1>4. TodoFits'
  BY <1>1 DEF TodoFits, NothingToDo, Withdrawable, Working
<1>5. ShelfFits'
  BY <1>1 DEF ShelfFits, Started, Warning, files, memory, IInv, DecisionsStand
<1> QED
  BY <1>2, <1>3, <1>4, <1>5 DEF IInv, DecisionsStand

LEMMA UndoInv ==
  ASSUME IInv, NEW i \in Item, Undo(i)
  PROVE  IInv'
<1> USE DEF Mishap, Smooth
<1>1. /\ pc = "undoing" /\ todo' = [todo EXCEPT !.undo = @ \ {i}] /\ todo \in Todo
      /\ UNCHANGED <<clock, disk, plays, owner, finished, keeps, place, members, ours, files, pc, view, run, leaving, booked>>
      /\ requests' \subseteq requests /\ deleted' \subseteq deleted
      /\ events' = events \/ (events > 0 /\ events' = events - 1)
  BY DEF Undo, Drop, IInv, TypeOK
<1>2. /\ todo' \in Todo /\ todo'.gone = todo.gone /\ todo'.back = todo.back /\ todo'.due = todo.due
      /\ todo'.once = todo.once /\ todo'.announce = todo.announce
  BY <1>1 DEF Todo
<1>3. TypeOK'
  BY <1>1, <1>2, ExecutorAssumption DEF IInv, TypeOK, files
<1>4. ViewFits' /\ LookFits' /\ RunFits'
  BY <1>1 DEF ViewFits, LookFits, RunFits, Started, IInv, DecisionsStand
<1>5. TodoFits'
  BY <1>1, <1>2, LessToDo DEF Started, Working, files
<1>6. ShelfFits'
  BY <1>1 DEF ShelfFits, Started, Warning, files, IInv, DecisionsStand
<1> QED
  BY <1>3, <1>4, <1>5, <1>6 DEF IInv, DecisionsStand

(* What is saved is the shelf in memory: warnings already saved, or given    *)
(* at the run's clock.                                                       *)
LEMMA SaveNativeInv == IInv /\ SaveNative => IInv'
<1> SUFFICES ASSUME IInv, SaveNative PROVE IInv'
  OBVIOUS
<1> USE DEF Mishap, Smooth
<1>1. /\ pc = "undoing" /\ pc' = "saving"
      /\ UNCHANGED <<clock, world, pledged, keepsFile, ledgerFile, view, run, todo, memory>>
      /\ \/ leavingFile' = leaving /\ deletedFile' = deleted
         \/ UNCHANGED <<leavingFile, deletedFile>>
      /\ events' = events \/ (events > 0 /\ events' = events - 1)
  BY DEF SaveNative
<1>2. TypeOK'
  BY <1>1, ExecutorAssumption DEF IInv, TypeOK, world, memory
<1>3. ViewFits' /\ LookFits' /\ RunFits'
  BY <1>1 DEF ViewFits, LookFits, RunFits, Started, IInv, DecisionsStand, memory
<1>4. TodoFits'
  BY <1>1 DEF TodoFits, Withdrawable, Working, IInv, DecisionsStand
<1>5. ShelfFits'
  <2>1. Warning.at = run.now /\ run.now <= clock
    BY <1>1 DEF Warning, IInv, DecisionsStand, RunFits, Started
  <2>2. \A i \in Item : leaving[i].at <= clock
    BY <1>1, <2>1 DEF IInv, DecisionsStand, ShelfFits, TypeOK, NotLeaving
  <2> QED
    BY <1>1, <2>2 DEF ShelfFits, Started, Warning, IInv, DecisionsStand, memory
<1> QED
  BY <1>2, <1>3, <1>4, <1>5 DEF IInv, DecisionsStand

(* A cycle that ends, in whatever way, leaves only the files to go by. *)
LEMMA RestInv ==
  ASSUME IInv, pc # "idle", Rest,
         UNCHANGED <<clock, world, pledged, keepsFile, leavingFile, deletedFile>>,
         ledgerFile' \in {ledgerFile, booked}, events' \in 0..MaxEvents
  PROVE  IInv'
<1> USE DEF Rest
<1>1. view' \in View /\ run' \in Run /\ todo' \in Todo
  BY ExecutorAssumption DEF NoView, NoRun, NothingToDo, View, Run, Todo, NoEvidence
<1>2. TypeOK'
  BY <1>1 DEF IInv, TypeOK, world
<1>3. ViewFits' /\ LookFits' /\ RunFits'
  BY DEF ViewFits, LookFits, RunFits, Started
<1>4. TodoFits'
  BY DEF TodoFits, NothingToDo, Withdrawable, Working
<1>5. ShelfFits'
  BY DEF ShelfFits, Started, IInv, DecisionsStand
<1> QED
  BY <1>2, <1>3, <1>4, <1>5 DEF IInv, DecisionsStand

LEMMA EndInv == IInv /\ (SaveLedger \/ Stop) => IInv'
<1> SUFFICES ASSUME IInv, SaveLedger \/ Stop PROVE IInv'
  OBVIOUS
<1>1. /\ pc # "idle" /\ Rest
      /\ UNCHANGED <<clock, world, pledged, keepsFile, leavingFile, deletedFile>>
      /\ ledgerFile' \in {ledgerFile, booked}
      /\ events' = events \/ (events > 0 /\ events' = events - 1)
  BY DEF SaveLedger, Stop, files, Smooth, Mishap
<1>2. events' \in 0..MaxEvents
  BY <1>1, ExecutorAssumption DEF IInv, TypeOK
<1> QED
  BY <1>1, <1>2, RestInv

-----------------------------------------------------------------------------
(* The invariant holds of every behaviour. *)

LEMMA StutterInv == IInv /\ UNCHANGED vars => IInv'
<1> SUFFICES ASSUME IInv, UNCHANGED vars PROVE IInv'
  OBVIOUS
<1>1. TypeOK'
  BY DEF IInv, TypeOK, vars, world, files, memory
<1>2. DecisionsStand'
  BY Frame DEF IInv, vars, world, files, memory, decided
<1> QED
  BY <1>1, <1>2 DEF IInv

LEMMA NextInv == IInv /\ [Next]_vars => IInv'
<1> SUFFICES ASSUME IInv, [Next]_vars PROVE IInv'
  OBVIOUS
<1>1. CASE Begin
  BY <1>1, BeginInv
<1>2. CASE Plan
  BY <1>2, PlanInv
<1>3. CASE Acted
  BY <1>3, ActedInv
<1>4. CASE SaveNative
  BY <1>4, SaveNativeInv
<1>5. CASE SaveLedger \/ Stop
  BY <1>5, EndInv
<1>6. ASSUME NEW i \in Item, Withdraw(i) PROVE IInv'
  BY <1>6, WithdrawInv
<1>7. ASSUME NEW i \in Item, LastLook(i) PROVE IInv'
  BY <1>7, LastLookInv
<1>8. ASSUME NEW i \in Item, Evict(i) PROVE IInv'
  BY <1>8, EvictInv
<1>9. ASSUME NEW i \in Item, Announce(i) PROVE IInv'
  BY <1>9, AnnounceInv
<1>10. ASSUME NEW i \in Item, Unmatched(i) PROVE IInv'
  BY <1>10, UnmatchedInv
<1>11. ASSUME NEW i \in Item, Undo(i) PROVE IInv'
  BY <1>11, UndoInv
<1>12. CASE People
  BY <1>12, PeopleInv
<1>13. CASE Tick
  BY <1>13, TickInv
<1>14. CASE UNCHANGED vars
  BY <1>14, StutterInv
<1> QED
  BY <1>1, <1>2, <1>3, <1>4, <1>5, <1>6, <1>7, <1>8, <1>9, <1>10, <1>11, <1>12, <1>13, <1>14
  DEF Next, Cycle

LEMMA Always == Spec => []IInv
  BY InitInv, NextInv, PTL DEF Spec

(* Every state of the executor is well formed: each warning on record spans  *)
(* a whole window and names a shelf that exists.                             *)
THEOREM TypeCorrect == Spec => []TypeOK
<1>1. IInv => TypeOK
  BY DEF IInv
<1> QED
  BY <1>1, Always, PTL

(* What a cycle decided stays justified until it acts on it, whatever plays, *)
(* keeps, failures and clock ticks come in between.                          *)
THEOREM DecisionsHold == Spec => []DecisionsStand
<1>1. IInv => DecisionsStand
  BY DEF IInv
<1> QED
  BY <1>1, Always, PTL

-----------------------------------------------------------------------------
(* What FLINCH deletes. *)

(* Only `delete`, past its last look, deletes a card. *)
LEMMA DeletedFacts ==
  ASSUME IInv, [Next]_vars, NEW i \in Item, Evicts(i)
  PROVE  /\ pc = "deleting" /\ i \in NextDelete /\ i \in disk
         /\ i \in todo.due \cup todo.once
         /\ UNCHANGED <<clock, finished, leavingFile>>
         /\ disk' = disk \ {i} /\ ours' = ours \cup {i}
<1> USE DEF Evicts, world, files, memory, daemon
<1>1. PICK j \in Item : Evict(j)
  BY DEF Next, Cycle, People, vars, Begin, Plan, Acted, SaveNative, SaveLedger, Stop, Withdraw,
         LastLook, Announce, Unmatched, Undo, Play, Keep, TakenOffByHand, DiskChanges, Retitle,
         AskUndo, Tick
<1>2. i = j /\ i \in disk /\ disk' = disk \ {i} /\ ours' = ours \cup {i}
  BY <1>1 DEF Evict
<1> QED
  BY <1>1, <1>2, NextDeleteFacts DEF Evict

(* An expired window was recorded a whole window ago and is unclaimed since; *)
(* a delete without a window is of a finished card.                          *)
LEMMA DeletedWhy ==
  ASSUME IInv, NEW i \in Item, pc = "deleting", i \in NextDelete
  PROVE  /\ \/ /\ leavingFile[i] # NotLeaving
               /\ leavingFile[i].at + Window <= clock
               /\ Baseline(i) = leavingFile[i].at
               /\ plays[i] <= leavingFile[i].at \/ plays[i] >= run.read
            \/ leavingFile[i] = NotLeaving /\ i \in finished /\ Baseline(i) = run.read
         /\ owner[i] <= Baseline(i) \/ owner[i] >= run.looked
         /\ i \notin pledged
         /\ JellyfinPlaces = {} => i \notin Marked
<1>1. i \in todo.due \cup todo.once
  BY NextDeleteFacts
<1>2. TodoFits /\ LookFits /\ run.now <= clock /\ run.now \in Nat /\ clock \in Nat
  BY DEF IInv, DecisionsStand, RunFits, Started, TypeOK, Run
<1>3. CASE i \in todo.due
  <2>1. leavingFile[i] # NotLeaving /\ leavingFile[i].until <= run.now /\ leaving[i] = leavingFile[i]
    BY <1>2, <1>3 DEF TodoFits
  <2>2. leavingFile[i].until = leavingFile[i].at + Window /\ leavingFile[i].until \in Nat
    BY <2>1, EntryType DEF IInv, TypeOK
  <2>3. leavingFile[i].at + Window <= clock
    BY <1>2, <2>1, <2>2
  <2> QED
    BY <1>2, <1>3, <2>1, <2>3 DEF TodoFits, LookFits, Baseline
<1>4. CASE i \notin todo.due
  BY <1>1, <1>2, <1>4 DEF TodoFits, LookFits, Baseline
<1> QED
  BY <1>3, <1>4

(* A card somebody still has to finish is deleted only after it was on       *)
(* record as leaving for a whole window.                                     *)
THEOREM NoWarningNoDeletionHolds == Spec => NoWarningNoDeletion
<1>1. IInv /\ [Next]_vars =>
        [\A i \in Item : Evicts(i) /\ i \notin finished =>
           leavingFile[i] # NotLeaving /\ clock >= leavingFile[i].at + Window]_vars
  <2> SUFFICES ASSUME IInv, [Next]_vars, NEW i \in Item, Evicts(i), i \notin finished
               PROVE  leavingFile[i] # NotLeaving /\ clock >= leavingFile[i].at + Window
    OBVIOUS
  <2>1. pc = "deleting" /\ i \in NextDelete
    BY DeletedFacts
  <2>2. leavingFile[i] # NotLeaving /\ leavingFile[i].at + Window <= clock
    BY <2>1, DeletedWhy
  <2>3. leavingFile[i].at + Window \in Int /\ clock \in Int
    BY <2>2, EntryType, LimitAssumption DEF IInv, TypeOK
  <2> QED
    BY <2>2, <2>3
<1> QED
  BY <1>1, Always, PTL DEF Spec, NoWarningNoDeletion

(* No play the run could know of is overlooked by a delete. *)
THEOREM ClaimsAreHeardHolds == Spec => ClaimsAreHeard
<1>1. IInv /\ [Next]_vars =>
        [\A i \in Item : Evicts(i) =>
           LET since == IF leavingFile[i] # NotLeaving THEN leavingFile[i].at ELSE run.read
           IN  /\ ~(since < plays[i] /\ plays[i] < run.read)
               /\ ~(since < owner[i] /\ owner[i] < run.looked)]_vars
  <2> SUFFICES ASSUME IInv, [Next]_vars, NEW i \in Item, Evicts(i),
                      NEW since, since = IF leavingFile[i] # NotLeaving THEN leavingFile[i].at ELSE run.read
               PROVE  /\ ~(since < plays[i] /\ plays[i] < run.read)
                      /\ ~(since < owner[i] /\ owner[i] < run.looked)
    OBVIOUS
  <2>1. pc = "deleting" /\ i \in NextDelete
    BY DeletedFacts
  <2>2. /\ since = Baseline(i)
        /\ plays[i] <= since \/ plays[i] >= run.read \/ since = run.read
        /\ owner[i] <= since \/ owner[i] >= run.looked
    BY <2>1, DeletedWhy
  <2>3. leavingFile[i].at \in Int /\ run.read \in Int /\ run.looked \in Int /\ plays[i] \in Int /\ owner[i] \in Int
    BY EntryType DEF IInv, TypeOK, Run
  <2> QED
    BY <2>2, <2>3
<1> QED
  BY <1>1, Always, PTL DEF Spec, ClaimsAreHeard

(* A card the cycles know to be kept is not deleted. *)
THEOREM KeptStaysHolds == Spec => KeptStays
<1>1. IInv /\ [Next]_vars => [\A i \in Item : Evicts(i) => i \notin pledged]_vars
  BY DeletedFacts, DeletedWhy
<1> QED
  BY <1>1, Always, PTL DEF Spec, KeptStays

(* With the shelf on Plex, neither is a card with the keep tag in Plex. *)
THEOREM MarkedStaysOnPlex ==
  ASSUME JellyfinPlaces = {}
  PROVE  Spec => MarkedStays
<1>1. IInv /\ [Next]_vars => [\A i \in Item : Evicts(i) => i \notin Marked]_vars
  BY DeletedFacts, DeletedWhy
<1> QED
  BY <1>1, Always, PTL DEF Spec, MarkedStays

(* A date on record is only ever withdrawn. *)
LEMMA OnlySaveRecords ==
  ASSUME IInv, [Next]_vars
  PROVE  leavingFile' = leavingFile \/ (SaveNative /\ leavingFile' = leaving)
BY DEF Next, Cycle, People, vars, world, files, memory, daemon, Begin, Plan, Acted, SaveNative,
       SaveLedger, Stop, Withdraw, LastLook, Evict, Announce, Unmatched, Undo, Play, Keep,
       TakenOffByHand, DiskChanges, Retitle, AskUndo, Tick

THEOREM DatesStandHolds == Spec => DatesStand
<1>1. IInv /\ [Next]_vars =>
        [\A i \in Item : leavingFile[i] # NotLeaving /\ leavingFile'[i] # NotLeaving =>
           leavingFile'[i] = leavingFile[i]]_vars
  BY OnlySaveRecords DEF IInv, DecisionsStand, ShelfFits
<1> QED
  BY <1>1, Always, PTL DEF Spec, DatesStand

-----------------------------------------------------------------------------
(* Seasons leave in order. *)

(* What the plan hands over is unpinned, and each card of it follows one     *)
(* handed over before it or already on the shelf.                            *)
ViewFollows ==
  pc = "planning" =>
    /\ view.selected \cap view.pinned = {}
    /\ \A i \in view.eligible :
         After(view, i) \subseteq (view.eligible \cap Before(view, i)) \cup Shelved(leavingFile)

LEMMA BeginFollows == IInv /\ Begin => ViewFollows'
<1> SUFFICES ASSUME IInv, Begin PROVE ViewFollows'
  OBVIOUS
<1>1. PICK readable \in BOOLEAN, written \in BOOLEAN, plex \in BOOLEAN, complete \in BOOLEAN,
           dry \in DryRun, evidence \in Readings(TRUE) \cup Readings(FALSE) :
        /\ evidence \in Readings(complete)
        /\ complete => plex
        /\ IF readable /\ written /\ complete /\ evidence = Exact THEN Smooth ELSE Mishap
        /\ SaveKeeps(readable, plex, written)
        /\ Pledge(readable, plex)
        /\ Decide(Seen(readable, plex, complete, evidence, dry), plex)
  BY Zenon DEF Begin
<1> DEFINE seen == Seen(readable, plex, complete, evidence, dry)
<1>2. seen \in View
  BY <1>1, SeenType
<1>decide. Decide(seen, plex)
  BY <1>1
<1>3. PICK selected \in SUBSET Selectable(seen, plex) :
        \E ripe \in SUBSET selected, order \in SetToSeqs(selected) :
          LET plan == [seen EXCEPT !.selected = selected, !.order = order]
          IN  \E eligible \in Releasable(plan, ripe, Shelved(leavingFile)) :
                view' = [plan EXCEPT !.eligible = eligible]
  BY <1>decide DEF Decide
<1> HIDE DEF seen
<1>4. PICK ripe \in SUBSET selected, order \in SetToSeqs(selected) :
        LET plan == [seen EXCEPT !.selected = selected, !.order = order]
        IN  \E eligible \in Releasable(plan, ripe, Shelved(leavingFile)) :
              view' = [plan EXCEPT !.eligible = eligible]
  BY <1>3
<1> DEFINE plan == [seen EXCEPT !.selected = selected, !.order = order]
<1>5. PICK eligible \in Releasable(plan, ripe, Shelved(leavingFile)) :
        view' = [plan EXCEPT !.eligible = eligible]
  BY <1>4
<1>6. /\ plan.library = seen.library /\ plan.evidence = seen.evidence /\ plan.pinned = seen.pinned
      /\ plan.selected = selected /\ plan.order = order
  BY <1>2 DEF View
<1>7. /\ view'.library = plan.library /\ view'.evidence = plan.evidence /\ view'.pinned = plan.pinned
      /\ view'.selected = plan.selected /\ view'.order = plan.order /\ view'.eligible = eligible
  BY <1>2, <1>5 DEF View
<1> HIDE DEF plan
<1>8. \A i \in Item : After(view', i) = After(plan, i) /\ Before(view', i) = Before(plan, i)
  BY <1>7, SameOrder
<1>9. view'.selected \cap view'.pinned = {}
  BY <1>6, <1>7 DEF Selectable
<1>10. ripe \subseteq Item
  BY <1>2 DEF Selectable, Matched, IInv, TypeOK
<1>11. \A i \in eligible : After(plan, i) \subseteq (eligible \cap Before(plan, i)) \cup Shelved(leavingFile)
  BY <1>5 DEF Releasable
<1>12. eligible \subseteq Item
  BY <1>5, <1>10 DEF Releasable
<1>13. leavingFile' = leavingFile
  BY DEF Begin
<1> QED
  BY <1>7, <1>8, <1>9, <1>11, <1>12, <1>13 DEF ViewFollows, Shelved

(* Between the reads and the plan nothing touches the view or the shelf on   *)
(* record.                                                                   *)
LEMMA FollowsStep == IInv /\ ViewFollows /\ [Next]_vars => ViewFollows'
<1> SUFFICES ASSUME IInv, ViewFollows, [Next]_vars, ~Begin, pc' = "planning" PROVE ViewFollows'
  BY BeginFollows DEF ViewFollows
<1>1. pc = "planning" /\ view' = view /\ leavingFile' = leavingFile
  BY DEF Next, Cycle, People, vars, files, memory, daemon, Plan, Acted, SaveNative, SaveLedger,
         Stop, Rest, Withdraw, LastLook, Evict, Announce, Unmatched, Undo, Play, Keep,
         TakenOffByHand, DiskChanges, Retitle, AskUndo, Tick
<1> QED
  BY <1>1 DEF ViewFollows, Shelved

(* A card the pass acts on does not follow one that waits: what it follows   *)
(* is on the shelf, or free, before it and acted on.                         *)
LEMMA PlanFollows ==
  ASSUME IInv, ViewFollows, Plan
  PROVE  \A i \in todo'.announce \cup todo'.once :
           After(view, i) \subseteq
             Shelved(leaving) \cup ((todo'.announce \cup todo'.once) \cap Before(view, i))
<1> DEFINE v == [view EXCEPT !.now = clock]
<1>1. PICK acting \in Passes(leaving, v) :
        todo' = [gone |-> Vanished(leaving, v), back |-> TakenBack(leaving, v),
                 due |-> Due(leaving, v), once |-> DeletedAtOnce(acting, v),
                 announce |-> Announced(acting, v), undo |-> {}]
  BY DEF Plan
<1>2. /\ v.library = view.library /\ v.evidence = view.evidence /\ v.order = view.order
      /\ v.selected = view.selected /\ v.eligible = view.eligible /\ v.pinned = view.pinned
  BY DEF IInv, TypeOK, View
<1> HIDE DEF v
<1>3. \A i \in Item : After(v, i) = After(view, i) /\ Before(v, i) = Before(view, i)
  BY <1>2, SameOrder
<1>4. todo'.announce \cup todo'.once = acting
  BY <1>1 DEF Announced, DeletedAtOnce
<1>5. pc = "planning" /\ leaving = leavingFile
  BY DEF Plan, IInv, DecisionsStand, ShelfFits, Started
<1> SUFFICES ASSUME NEW i \in acting, NEW j \in After(view, i), j \notin Shelved(leaving)
             PROVE  j \in acting /\ j \in Before(view, i)
  BY <1>4
<1>6. i \in view.eligible /\ i \in Candidates(leaving, v) /\ i \in Item
  BY <1>1, <1>2 DEF Passes, Candidates, IInv, TypeOK, View
<1>7. j \in view.eligible \cap Before(view, i)
  BY <1>5, <1>6 DEF ViewFollows
<1>8. j \notin view.pinned
  BY <1>5 DEF ViewFollows, After
<1>9. j \in Candidates(leaving, v) \cap Before(v, i)
  BY <1>2, <1>3, <1>6, <1>7, <1>8 DEF Candidates
<1>10. ~Behind(v, i, (Candidates(leaving, v) \cap Before(v, i)) \ acting)
  BY <1>1, <1>6 DEF Passes
<1> QED
  BY <1>3, <1>6, <1>7, <1>9, <1>10 DEF Behind

(* No cap, hold or pin lets a season overtake the one it must follow.        *)
THEOREM SeasonsWaitHolds == Spec => SeasonsWait
<1>1. Init => ViewFollows
  BY DEF Init, ViewFollows
<1>2. IInv /\ ViewFollows /\ [Next]_vars =>
        [pc = "planning" /\ pc' = "acting" =>
           \A i \in todo'.announce \cup todo'.once :
             After(view, i) \subseteq
               Shelved(leaving) \cup ((todo'.announce \cup todo'.once) \cap Before(view, i))]_vars
  <2> SUFFICES ASSUME IInv, ViewFollows, [Next]_vars, pc = "planning", pc' = "acting"
               PROVE  \A i \in todo'.announce \cup todo'.once :
                        After(view, i) \subseteq
                          Shelved(leaving) \cup ((todo'.announce \cup todo'.once) \cap Before(view, i))
    OBVIOUS
  <2>1. Plan
    BY DEF Next, Cycle, People, vars, files, memory, daemon, Begin, Acted, SaveNative, SaveLedger,
           Stop, Rest, Withdraw, LastLook, Evict, Announce, Unmatched, Undo, Play, Keep,
           TakenOffByHand, DiskChanges, Retitle, AskUndo, Tick
  <2> QED
    BY <2>1, PlanFollows
<1> QED
  BY <1>1, <1>2, Always, FollowsStep, PTL DEF Spec, SeasonsWait

-----------------------------------------------------------------------------
(* The executor implements WarnedDeletion. *)

LEMMA PromiseInit == Init => Promise!Init
BY DEF Init, Promise!Init, NotLeaving

LEMMA PromiseStep == IInv /\ [Next]_vars => [Promise!Next]_(Promise!vars)
<1> SUFFICES ASSUME IInv, [Next]_vars PROVE [Promise!Next]_(Promise!vars)
  OBVIOUS
<1> USE DEF world, files, memory, daemon
<1>1. CASE Tick
  BY <1>1 DEF Tick, Promise!Next, Promise!Tick
<1>2. CASE SaveNative
  <2>1. CASE leavingFile' = leaving
    <3> DEFINE warned == [i \in Item |-> leavingFile[i].at]
    <3>1. \A i \in Item : warned'[i] \in 0..clock
      BY <1>2, <2>1, SaveNativeInv, EntryType
      DEF SaveNative, IInv, DecisionsStand, ShelfFits, TypeOK
    <3>2. \A i \in Item : warned[i] # 0 => warned'[i] \in {0, warned[i]}
      BY <2>1 DEF IInv, DecisionsStand, ShelfFits, NotLeaving
    <3> QED
      BY <1>2, <3>1, <3>2 DEF SaveNative, Promise!Next, Promise!Rewarn
  <2>2. CASE leavingFile' # leaving
    BY <1>2, <2>2 DEF SaveNative, Promise!vars
  <2> QED
    BY <2>1, <2>2
<1>3. ASSUME NEW i \in Item, Play(i) PROVE Promise!Finish
  BY <1>3, PlayInv DEF Play, Promise!Finish, IInv, TypeOK
<1>4. ASSUME NEW i \in Item, DiskChanges(i) PROVE Promise!Outside
  BY <1>4 DEF DiskChanges, Promise!Outside, IInv, TypeOK
<1>5. ASSUME NEW i \in Item, Evict(i) PROVE Promise!Delete(i) \/ UNCHANGED Promise!vars
  <2>1. CASE i \in ours' \ ours
    <3>1. Evicts(i)
      BY <2>1 DEF Evicts
    <3>2. pc = "deleting" /\ i \in NextDelete /\ i \in disk /\ disk' = disk \ {i} /\ ours' = ours \cup {i}
      BY <1>5, <3>1, DeletedFacts DEF Next, Cycle
    <3>3. \/ i \in finished
          \/ leavingFile[i] # NotLeaving /\ leavingFile[i].at + Window <= clock
      BY <3>2, DeletedWhy
    <3>4. leavingFile[i] # NotLeaving => leavingFile[i].at # 0
      BY EntryType DEF IInv, TypeOK
    <3> QED
      BY <1>5, <3>2, <3>3, <3>4 DEF Evict, Promise!Delete, Promise!Warned
  <2>2. CASE i \notin ours' \ ours
    BY <1>5, <2>2 DEF Evict, Promise!vars, IInv, TypeOK
  <2> QED
    BY <2>1, <2>2
<1>6. \/ UNCHANGED Promise!vars
      \/ Tick \/ SaveNative
      \/ \E i \in Item : Play(i) \/ DiskChanges(i) \/ Evict(i)
  BY DEF Next, Cycle, People, vars, Begin, Plan, Acted, SaveLedger, Stop, Withdraw, LastLook,
         Announce, Unmatched, Undo, Keep, TakenOffByHand, Retitle, AskUndo, Promise!vars
<1> QED
  BY <1>1, <1>2, <1>3, <1>4, <1>5, <1>6 DEF Promise!Next

(* Whatever fails, restarts or moves under its cycles, FLINCH keeps the      *)
(* promise of WarnedDeletion.                                                *)
THEOREM KeepsPromise == Spec => PromiseKept
<1>1. Init => Promise!Init
  BY PromiseInit
<1>2. IInv /\ [Next]_vars => [Promise!Next]_(Promise!vars)
  BY PromiseStep
<1> QED
  BY <1>1, <1>2, Always, PTL DEF Spec, PromiseKept, Promise!Spec

=============================================================================
