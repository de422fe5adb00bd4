--------------------------- MODULE NativeExecutor ---------------------------
(***************************************************************************)
(* FLINCH deleting through Radarr and Sonarr itself (`executor: native`).  *)
(* One daemon runs cycles: read the library and the plays, plan, take      *)
(* entries back, delete, announce, run the undo queue, then save           *)
(* native.json and evictions.json.  People watch, keep, take off the shelf *)
(* and delete at any moment between two of its steps; any call may fail;   *)
(* the daemon may stop anywhere, and then knows only its files.            *)
(***************************************************************************)
EXTENDS NativeLifecycle

CONSTANTS
  Section,        \* the Plex section (shelf) a card belongs to
  Marked,         \* cards carrying the keep tag in Plex
  JellyfinPlaces, \* the places whose server is Jellyfin or Emby
  UndoWindow,     \* how long a delete can be undone
  DryRun,         \* the dry-run settings a cycle may run under
  MaxTime,        \* bound: the clock stops here
  MaxEvents       \* bound: plays, operator actions, failures, restarts

ASSUME ExecutorAssumption ==
  /\ DOMAIN Section = Item
  /\ Marked \subseteq Item
  /\ JellyfinPlaces \subseteq Place \cup {NoPlace}
  /\ UndoWindow \in Nat \ {0}
  /\ DryRun \subseteq BOOLEAN
  /\ MaxTime \in Nat \ {0}
  /\ MaxEvents \in Nat

VARIABLES
  (* the world *)
  clock,
  disk,        \* cards Radarr and Sonarr hold on disk
  plays,       \* last play of a card by anyone, 0 never
  owner,       \* last play by the server's owner: what the last look reads
  finished,    \* cards everyone who played them finished
  keeps,       \* cards the operator keeps
  place,       \* the Leaving Soon title and server in the settings
  members,     \* <<card, place>>: what the media servers show on the shelf
  requests,    \* the undo queue
  ours,        \* history: cards FLINCH deleted that have not come back
  pledged,     \* history: the keep list as the cycles could know it
  (* the files *)
  keepsFile, leavingFile, deletedFile, ledgerFile,
  (* the daemon's cycle *)
  pc, view, run, todo,
  leaving, deleted, booked,
  (* the bound *)
  events

world  == <<disk, plays, owner, finished, keeps, place, members, requests, ours>>
files  == <<pledged, keepsFile, leavingFile, deletedFile, ledgerFile>>
memory == <<leaving, deleted, booked>>
vars   == <<clock, world, files, pc, view, run, todo, memory, events>>

-----------------------------------------------------------------------------
NoView == [library |-> {}, pinned |-> {}, evidence |-> [i \in Item |-> NoEvidence],
           complete |-> FALSE, selected |-> {}, unfinished |-> {}, order |-> <<>>, eligible |-> {},
           place |-> NoPlace, now |-> 0, dry |-> FALSE]

(* read: when the evidence was read; now: the run's clock; looked: the last *)
(* look before the delete under way; evicted: deletes sent so far; order:    *)
(* the plan's order of the cards.                                           *)
NoRun == [read |-> 0, now |-> 0, looked |-> 0, evicted |-> 0, order |-> <<>>,
          place |-> NoPlace, dry |-> FALSE]

NothingToDo == [gone |-> {}, back |-> {}, due |-> {}, once |-> {}, announce |-> {}, undo |-> {}]

Entry ==
  {NotLeaving} \cup
  {e \in [at : 1..MaxTime, until : Nat, place : Place] : e.until = e.at + Window}

Deletes == [id : Item, at : 1..MaxTime]

View ==
  [library : SUBSET Item, pinned : SUBSET Item, evidence : [Item -> NoEvidence..MaxTime],
   complete : BOOLEAN, selected : SUBSET Item, unfinished : SUBSET Item, order : Seq(Item),
   eligible : SUBSET Item, place : Place \cup {NoPlace}, now : 0..MaxTime, dry : BOOLEAN]

Run ==
  [read : 0..MaxTime, now : 0..MaxTime, looked : 0..MaxTime, evicted : Nat, order : Seq(Item),
   place : Place \cup {NoPlace}, dry : BOOLEAN]

Todo ==
  [gone : SUBSET Item, back : SUBSET Item, due : SUBSET Item, once : SUBSET Item,
   announce : SUBSET Item, undo : SUBSET Item]

Init ==
  /\ clock = 1
  /\ disk = Item
  /\ finished \in SUBSET Item
  /\ plays = [i \in Item |-> IF i \in finished THEN 1 ELSE 0]
  /\ owner = plays
  /\ keeps = {} /\ keepsFile = {} /\ pledged = {}
  /\ place \in Place \cup {NoPlace}
  /\ members = {} /\ requests = {} /\ ours = {}
  /\ leaving = [i \in Item |-> NotLeaving] /\ leavingFile = leaving
  /\ deleted = {} /\ deletedFile = {}
  /\ booked = {} /\ ledgerFile = {}
  /\ pc = "idle" /\ view = NoView /\ run = NoRun /\ todo = NothingToDo
  /\ events = MaxEvents

Smooth == events' = events
Mishap == events > 0 /\ events' = events - 1

-----------------------------------------------------------------------------
(* The cycle's reads and the plan (main.rs `cycle`, native.rs `eligible`).  *)

(* A source read in full gives every play of the cards it matched; one read *)
(* in part may miss the latest ones.                                        *)
Readings(complete) ==
  {e \in [Item -> NoEvidence..MaxTime] :
     \A i \in Item : /\ e[i] <= plays[i]
                     /\ complete => e[i] \in {NoEvidence, plays[i]}
                     /\ i \notin disk => e[i] = NoEvidence}

Exact == [i \in Item |-> IF i \in disk THEN plays[i] ELSE NoEvidence]

(* Cards the executor can act on: matched in Plex, or for a Jellyfin shelf   *)
(* on its server.                                                            *)
Matched(plex, where) == IF plex \/ where \in JellyfinPlaces THEN disk ELSE {}

(* candidates.rs: pinned and unmatched cards, cards without evidence, and    *)
(* never-played cards on evidence not read in full are not for the planner.  *)
Selectable(v, plex) ==
  {i \in Matched(plex, v.place) \ v.pinned : v.evidence[i] > 0 \/ (v.evidence[i] = 0 /\ v.complete)}

(* The plan lists prerequisites first. *)
InOrder(v) ==
  \A m, n \in DOMAIN v.order : GoesBefore(v, v.order[m], v.order[n]) => m < n

(* Maintainerr tells what the operator keeps by the keys Plex gave the cards *)
(* on disk: without Plex it tells nothing, and that is no error.            *)
KeepsRead(plex) == IF plex THEN keeps \cap disk ELSE {}

(* Wrong: a keep list that cannot be read counts as an empty one. *)
PinnedInOutage(readable, plex) ==
  (IF readable THEN KeepsRead(plex) ELSE {}) \cup (IF plex THEN Marked ELSE {})

(* The operator's keeps in Maintainerr, or the last ones written down, and   *)
(* the keep tag in Plex, of which an unreadable Plex shows nothing.          *)
Pinned(readable, plex) ==
  (IF readable THEN KeepsRead(plex) ELSE keepsFile) \cup (IF plex THEN Marked ELSE {})

(* What Maintainerr told is written over the last list; a failed write is    *)
(* only logged.                                                              *)
SaveKeeps(readable, plex, written) ==
  keepsFile' = IF readable /\ written THEN KeepsRead(plex) ELSE keepsFile

(* The keeps a cycle knows of: all of them when it reads both servers; in an *)
(* outage of Maintainerr those known before and on file; without Plex none.  *)
Pledge(readable, plex) ==
  pledged' = IF readable THEN KeepsRead(plex) ELSE pledged \cap keepsFile

Seen(readable, plex, complete, evidence, dry) ==
  [library |-> disk, pinned |-> Pinned(readable, plex), evidence |-> evidence,
   complete |-> complete, selected |-> {},
   unfinished |-> {i \in Item : i \notin finished \/ evidence[i] <= 0},
   order |-> <<>>, eligible |-> {}, place |-> place, now |-> clock, dry |-> dry]

(* The solver takes any closed set of what it may; ripe are those whose      *)
(* grace streak is complete.                                                 *)
Decide(seen, plex) ==
  \E selected \in SUBSET Selectable(seen, plex) :
    \E ripe \in SUBSET selected, order \in SetToSeqs(selected) :
      LET plan == [seen EXCEPT !.selected = selected, !.order = order]
      IN  /\ Closed(plan)
          /\ InOrder(plan)
          /\ \E eligible \in Releasable(plan, ripe, Shelved(leavingFile)) :
               view' = [plan EXCEPT !.eligible = eligible]

Begin ==
  /\ pc = "idle"
  /\ \E readable, written, plex, complete \in BOOLEAN, dry \in DryRun,
        evidence \in Readings(TRUE) \cup Readings(FALSE) :
       /\ evidence \in Readings(complete)
       /\ complete => plex
       /\ IF readable /\ written /\ complete /\ evidence = Exact THEN Smooth ELSE Mishap
       /\ SaveKeeps(readable, plex, written)
       /\ Pledge(readable, plex)
       /\ Decide(Seen(readable, plex, complete, evidence, dry), plex)
  /\ pc' = "planning"
  /\ UNCHANGED <<clock, world, leavingFile, deletedFile, ledgerFile, run, todo, memory>>

(* native.rs `run` up to the lifecycle's plan. *)
Plan ==
  /\ pc = "planning"
  /\ LET v == [view EXCEPT !.now = clock]
     IN  /\ deleted' = {d \in deletedFile : clock - d.at < UndoWindow}
         /\ run' = [read |-> view.now, now |-> clock, looked |-> 0, evicted |-> 0,
                    order |-> view.order, place |-> view.place, dry |-> view.dry]
         /\ \E acting \in Passes(leaving, v) :
              todo' = [gone |-> Vanished(leaving, v), back |-> TakenBack(leaving, v),
                       due |-> Due(leaving, v), once |-> DeletedAtOnce(acting, v),
                       announce |-> Announced(acting, v), undo |-> {}]
  /\ view' = NoView
  /\ pc' = "acting"
  /\ UNCHANGED <<clock, world, files, leaving, booked, events>>

-----------------------------------------------------------------------------
(* Acting (native/act.rs `execute`): withdrawals, then deletes of expired   *)
(* windows, both oldest window first, then deletes at once in plan order,   *)
(* then the announcements.                                                  *)

FirstOnShelf(S) == {i \in S : \A j \in S \ {i} : Sooner(leaving, i, j)}

FirstInPlan(S) ==
  {i \in S : \E n \in DOMAIN run.order : run.order[n] = i /\ \A m \in 1..(n - 1) : run.order[m] \notin S}

Withdrawable == todo.gone \cup todo.back

NextDelete ==
  IF Withdrawable # {} THEN {}
  ELSE IF todo.due # {} THEN FirstOnShelf(todo.due) ELSE FirstInPlan(todo.once)

Forget(i) ==
  /\ leaving' = [leaving EXCEPT ![i] = NotLeaving]
  /\ booked' = booked \ {i}

TakeOff(i) == members \ {<<i, leaving[i].place>>}

(* A card gone from the library may be gone from the server too, and a      *)
(* server no longer configured is not asked.                                *)
Forgivable(i) == i \in todo.gone \/ leaving[i].place # run.place

(* `withdraw`: a failed take-off is retried next run, unless forgivable.    *)
Withdraw(i) ==
  /\ pc = "acting" /\ i \in FirstOnShelf(Withdrawable)
  /\ todo' = [todo EXCEPT !.gone = @ \ {i}, !.back = @ \ {i}]
  /\ \/ Smooth /\ ~run.dry /\ Forget(i) /\ members' = TakeOff(i)
     \/ Mishap /\ ~run.dry /\ Forgivable(i) /\ Forget(i) /\ UNCHANGED members
     \/ Mishap /\ ~run.dry /\ i \in todo.back /\ UNCHANGED <<leaving, booked, members>>
     \/ Smooth /\ run.dry /\ UNCHANGED <<leaving, booked, members>>
  /\ UNCHANGED <<clock, disk, plays, owner, finished, keeps, place, requests, ours, files, pc, view, run, deleted>>

(* look.rs `last_look`: the decision's evidence ends here. *)
(* Wrong: the baseline is the run's own clock. *)
BaselineNow(i) == IF i \in todo.due THEN leaving[i].at ELSE run.now

Baseline(i) == IF i \in todo.due THEN leaving[i].at ELSE run.read

Clear(i) == i \in disk /\ owner[i] <= Baseline(i)

StillShelved(i) == <<i, leaving[i].place>> \in members

Skip(i) == todo' = [todo EXCEPT !.due = @ \ {i}, !.once = @ \ {i}]

(* Wrong: a card taken off by hand is skipped and stays recorded. *)
StaysRecorded(i) == UNCHANGED <<leaving, booked>>

(* It is announced afresh. *)
ForgetUnshelved(i) == IF run.dry THEN UNCHANGED <<leaving, booked>> ELSE Forget(i)

(* `delete` up to the call to the *arr: the last look, then whether the     *)
(* warning still stands.  Any answer but a clear one keeps the card.        *)
LastLook(i) ==
  /\ pc = "acting" /\ i \in NextDelete
  /\ \/ /\ Clear(i) /\ (i \in todo.due => StillShelved(i))
        /\ run' = [run EXCEPT !.looked = clock]
        /\ pc' = "deleting"
        /\ Smooth
        /\ UNCHANGED <<todo, leaving, booked>>
     \/ /\ Clear(i) /\ i \in todo.due /\ ~StillShelved(i)
        /\ Skip(i)
        /\ ForgetUnshelved(i)
        /\ Smooth
        /\ UNCHANGED <<pc, run>>
     \/ /\ Skip(i)
        /\ IF Clear(i) THEN Mishap ELSE Smooth   \* unanswered, or played since
        /\ UNCHANGED <<pc, run, leaving, booked>>
  /\ UNCHANGED <<clock, world, files, view, deleted>>

(* The bookkeeping of a delete the *arr confirmed. *)
Record(i) ==
  /\ booked' = booked \cup {i}
  /\ leaving' = [leaving EXCEPT ![i] = NotLeaving]
  /\ members' = TakeOff(i)
  /\ deleted' = deleted \cup {[id |-> i, at |-> run.now]}

(* The *arr deletes the files and is read back (radarr.rs and sonarr.rs      *)
(* `evict`).  It may refuse, or do it and the answer be lost: an error       *)
(* either way.  Afterwards the card comes off the shelf, if that call works. *)
Evict(i) ==
  /\ pc = "deleting" /\ i \in NextDelete
  /\ pc' = "acting"
  /\ Skip(i)
  /\ \/ /\ ~run.dry /\ i \in disk
        /\ disk' = disk \ {i}
        /\ ours' = ours \cup {i}
        /\ run' = [run EXCEPT !.evicted = @ + 1]
        /\ \/ Smooth /\ Record(i)
           \/ Mishap /\ UNCHANGED <<memory, members>>
     \/ /\ ~run.dry
        /\ IF i \in disk THEN Mishap ELSE Smooth
        /\ UNCHANGED <<disk, ours, run, memory, members>>
     \/ /\ run.dry /\ Smooth
        /\ UNCHANGED <<disk, ours, run, memory, members>>
  /\ UNCHANGED <<clock, plays, owner, finished, keeps, place, requests, files, view>>

(* Wrong: announced when the evidence was read, leaving a window from now. *)
WarningBackdated == [at |-> run.read, until |-> run.now + Window, place |-> run.place]

Warning == [at |-> run.now, until |-> run.now + Window, place |-> run.place]

(* `announce`, one shelf at a time.  Cards already on the shelf's server are *)
(* joined by the rest and every one is read back; a shelf made from scratch  *)
(* is read back for its first card alone.                                    *)
Shelve(group) ==
  LET at(S) == S \X {run.place}
      exists == \E j \in Item : Section[j] \in {Section[i] : i \in group} /\ <<j, run.place>> \in members
      landed == leaving' = [i \in Item |-> IF i \in group THEN Warning ELSE leaving[i]]
  IN  \/ /\ Smooth /\ ~run.dry /\ landed
         /\ booked' = booked \cup group
         /\ members' = members \cup at(group)
      \/ /\ Mishap /\ ~run.dry /\ ~exists /\ landed
         /\ booked' = booked \cup group
         /\ \E some \in (SUBSET group) \ {{}, group} : members' = members \cup at(some)
      \/ /\ Mishap /\ ~run.dry
         /\ \E some \in SUBSET group : members' = members \cup at(some)
         /\ UNCHANGED <<leaving, booked>>
      \/ Smooth /\ run.dry /\ UNCHANGED <<leaving, booked, members>>

Announce(i) ==
  LET group == {j \in todo.announce : Section[j] = Section[i]}
  IN  /\ pc = "acting" /\ Withdrawable = {} /\ todo.due = {} /\ todo.once = {}
      /\ i \in todo.announce
      /\ Shelve(group)
      /\ todo' = [todo EXCEPT !.announce = @ \ group]
      /\ UNCHANGED <<clock, disk, plays, owner, finished, keeps, place, requests, ours, files, pc, view, run, deleted>>

(* A card the media server does not know cannot be announced: it is held. *)
Unmatched(i) ==
  /\ pc = "acting" /\ Withdrawable = {} /\ todo.due = {} /\ todo.once = {}
  /\ i \in todo.announce
  /\ Mishap
  /\ todo' = [todo EXCEPT !.announce = @ \ {i}]
  /\ UNCHANGED <<clock, world, files, pc, view, run, memory>>

-----------------------------------------------------------------------------
(* The undo queue, then the two files (native/restore.rs, native.rs, main.rs). *)

Acted ==
  /\ pc = "acting"
  /\ Withdrawable \cup todo.due \cup todo.once \cup todo.announce = {}
  /\ todo' = [NothingToDo EXCEPT !.undo = requests]
  /\ pc' = "undoing"
  /\ UNCHANGED <<clock, world, files, view, run, memory, events>>

Undoable(i) == {d \in deleted : d.id = i /\ run.now - d.at < UndoWindow}

(* Wrong: a request for nothing undoable stays in the queue. *)
DropGranted(i) == requests' = IF Undoable(i) = {} THEN requests ELSE requests \ {i}

Drop(i) == requests' = requests \ {i}

(* A request that cannot be granted, or fails, is dropped; a granted one    *)
(* marks the newest delete restored and is removed; a dry run keeps it.     *)
Undo(i) ==
  /\ pc = "undoing" /\ i \in todo.undo
  /\ todo' = [todo EXCEPT !.undo = @ \ {i}]
  /\ \/ /\ Undoable(i) = {} /\ Smooth
        /\ Drop(i)
        /\ UNCHANGED deleted
     \/ /\ Undoable(i) # {} /\ ~run.dry /\ Smooth
        /\ Drop(i)
        /\ deleted' = deleted \ {d \in Undoable(i) : \A e \in Undoable(i) : e.at <= d.at}
     \/ /\ Undoable(i) # {} /\ ~run.dry /\ Mishap
        /\ Drop(i)
        /\ UNCHANGED deleted
     \/ Undoable(i) # {} /\ run.dry /\ Smooth /\ UNCHANGED <<requests, deleted>>
  /\ UNCHANGED <<clock, disk, plays, owner, finished, keeps, place, members, ours, files, pc, view, run, leaving, booked>>

(* A failed write is only logged: the cycle goes on. *)
SaveNative ==
  /\ pc = "undoing" /\ todo.undo = {}
  /\ pc' = "saving"
  /\ \/ ~run.dry /\ Smooth /\ leavingFile' = leaving /\ deletedFile' = deleted
     \/ /\ IF run.dry THEN Smooth ELSE Mishap
        /\ UNCHANGED <<leavingFile, deletedFile>>
  /\ UNCHANGED <<clock, world, pledged, keepsFile, ledgerFile, view, run, todo, memory>>

(* The cycle is over: the next one knows what the files say. *)
Rest ==
  /\ pc' = "idle" /\ view' = NoView /\ run' = NoRun /\ todo' = NothingToDo
  /\ leaving' = leavingFile' /\ deleted' = deletedFile' /\ booked' = ledgerFile'

SaveLedger ==
  /\ pc = "saving"
  /\ \/ Smooth /\ ledgerFile' = booked
     \/ Mishap /\ UNCHANGED ledgerFile
  /\ UNCHANGED <<clock, world, pledged, keepsFile, leavingFile, deletedFile>>
  /\ Rest

(* A stop, a crash, or an error that ends the cycle early. *)
Stop ==
  /\ pc # "idle"
  /\ Mishap
  /\ UNCHANGED <<clock, world, files>>
  /\ Rest

-----------------------------------------------------------------------------
(* Everyone else. *)

daemon == <<files, pc, view, run, todo, memory>>

Play(i) ==
  /\ Mishap /\ i \in disk
  /\ plays' = [plays EXCEPT ![i] = clock]
  /\ owner' \in {owner, [owner EXCEPT ![i] = clock]}
  /\ finished' \in {finished, finished \cup {i}}
  /\ UNCHANGED <<clock, disk, keeps, place, members, requests, ours, daemon>>

Keep(i) ==
  /\ Mishap
  /\ keeps' \in {keeps \cup {i}, keeps \ {i}} \ {keeps}
  /\ UNCHANGED <<clock, disk, plays, owner, finished, place, members, requests, ours, daemon>>

TakenOffByHand(i) ==
  /\ Mishap
  /\ \E p \in Place : <<i, p>> \in members /\ members' = members \ {<<i, p>>}
  /\ UNCHANGED <<clock, disk, plays, owner, finished, keeps, place, requests, ours, daemon>>

(* Deleted outside FLINCH, or downloaded again. *)
DiskChanges(i) ==
  /\ Mishap
  /\ disk' = IF i \in disk THEN disk \ {i} ELSE disk \cup {i}
  /\ ours' = ours \ {i}
  /\ UNCHANGED <<clock, plays, owner, finished, keeps, place, members, requests, daemon>>

Retitle ==
  /\ Mishap
  /\ place' \in (Place \cup {NoPlace}) \ {place}
  /\ UNCHANGED <<clock, disk, plays, owner, finished, keeps, members, requests, ours, daemon>>

AskUndo(i) ==
  /\ Mishap /\ i \notin requests
  /\ requests' = requests \cup {i}
  /\ UNCHANGED <<clock, disk, plays, owner, finished, keeps, place, members, ours, daemon>>

Tick ==
  /\ clock < MaxTime
  /\ clock' = clock + 1
  /\ UNCHANGED <<world, daemon, events>>

-----------------------------------------------------------------------------
Cycle ==
  \/ Begin \/ Plan \/ Acted \/ SaveNative \/ SaveLedger
  \/ \E i \in Item : Withdraw(i) \/ LastLook(i) \/ Evict(i) \/ Announce(i) \/ Unmatched(i) \/ Undo(i)

People ==
  \/ \E i \in Item : Play(i) \/ Keep(i) \/ TakenOffByHand(i) \/ DiskChanges(i) \/ AskUndo(i)
  \/ Retitle

Next == Cycle \/ Stop \/ People \/ Tick

Spec == Init /\ [][Next]_vars

(* The daemon keeps running its cycle, and time passes. *)
FairSpec == Spec /\ WF_vars(Cycle) /\ WF_vars(Tick)

-----------------------------------------------------------------------------
(* What must hold. *)

(* Every state is well formed; above all, every warning, in memory and in    *)
(* native.json, spans its whole window from the date it bears, on a place    *)
(* that exists.                                                              *)
TypeOK ==
  /\ clock \in 1..MaxTime
  /\ disk \subseteq Item /\ finished \subseteq Item /\ keeps \subseteq Item
  /\ keepsFile \subseteq Item /\ pledged \subseteq Item
  /\ requests \subseteq Item /\ ours \subseteq Item \ disk
  /\ plays \in [Item -> 0..MaxTime] /\ owner \in [Item -> 0..MaxTime]
  /\ place \in Place \cup {NoPlace}
  /\ members \subseteq Item \X Place
  /\ leaving \in [Item -> Entry] /\ leavingFile \in [Item -> Entry]
  /\ deleted \subseteq Deletes /\ deletedFile \subseteq Deletes
  /\ booked \subseteq Item /\ ledgerFile \subseteq Item
  /\ pc \in {"idle", "planning", "acting", "deleting", "undoing", "saving"}
  /\ view \in View /\ run \in Run /\ todo \in Todo
  /\ events \in 0..MaxEvents

(* Why the deletes are safe, step by step of a cycle. *)

Started == pc \notin {"idle", "planning"}

Working == pc \in {"acting", "deleting"}

(* The plan's view: pins are out of the selection, what it calls finished    *)
(* is, and evidence read in full is outdated only by plays since the read.   *)
ViewFits ==
  pc = "planning" =>
    /\ view.now \in 1..clock
    /\ view.eligible \subseteq view.selected
    /\ view.selected \cap pledged = {}
    /\ JellyfinPlaces = {} => view.selected \cap Marked = {}
    /\ Item \ finished \subseteq view.unfinished
    /\ \A i \in Item : view.complete /\ view.evidence[i] # NoEvidence =>
         plays[i] = view.evidence[i] \/ plays[i] >= view.now

RunFits ==
  Started => run.read \in 1..run.now /\ run.now \in 1..clock

(* What is still to do rests on the warnings as they were saved. *)
TodoFits ==
  /\ Withdrawable \cap todo.due = {}
  /\ \A i \in todo.due :
       /\ leavingFile[i] # NotLeaving /\ leaving[i] = leavingFile[i]
       /\ leavingFile[i].until <= run.now
       /\ plays[i] <= leavingFile[i].at \/ plays[i] >= run.read
  /\ \A i \in todo.once : i \in finished /\ leavingFile[i] = NotLeaving
  /\ \A i \in todo.announce : leavingFile[i] = NotLeaving /\ run.place # NoPlace
  /\ (todo.due \cup todo.once) \cap pledged = {}
  /\ JellyfinPlaces = {} => (todo.due \cup todo.once) \cap Marked = {}
  /\ ~Working => Withdrawable \cup todo.due \cup todo.once \cup todo.announce = {}

(* The shelf in memory is the saved one, less what was taken back, plus what *)
(* this run announced.                                                       *)
ShelfFits ==
  /\ \A i \in Item : leavingFile[i].at <= clock
  /\ \A i \in Item :
       \/ leaving[i] \in {NotLeaving, leavingFile[i]}
       \/ Started /\ leavingFile[i] = NotLeaving /\ leaving[i] = Warning
  /\ ~Started => leaving = leavingFile

(* The card under the last look was not played by the owner before it. *)
LookFits ==
  pc = "deleting" =>
    /\ run.looked <= clock
    /\ \A i \in NextDelete : owner[i] <= Baseline(i) \/ owner[i] >= run.looked

(* What a cycle decided stays justified while the world moves on under it. *)
DecisionsStand == ViewFits /\ RunFits /\ TodoFits /\ ShelfFits /\ LookFits

(* FLINCH deletes card i. *)
Evicts(i) == i \in ours' \ ours

(* README "No warning, no unwatched deletion": a card somebody still has to  *)
(* finish is deleted only when native.json, as it was saved by an earlier    *)
(* run, recorded it on Leaving Soon and a full window has passed since.      *)
NoWarningNoDeletion ==
  [][\A i \in Item : Evicts(i) /\ i \notin finished =>
       leavingFile[i] # NotLeaving /\ clock >= leavingFile[i].at + Window]_vars

(* A play keeps its card: none between the announcement (or, unannounced,    *)
(* the evidence) and this run's evidence read is overlooked, nor one of the  *)
(* owner's until the last look.  Plays by others after the evidence read are *)
(* the limit docs/how-it-works.md names.                                     *)
ClaimsAreHeard ==
  [][\A i \in Item : Evicts(i) =>
       LET since == IF leavingFile[i] # NotLeaving THEN leavingFile[i].at ELSE run.read
       IN  /\ ~(since < plays[i] /\ plays[i] < run.read)
           /\ ~(since < owner[i] /\ owner[i] < run.looked)]_vars

(* "Pins beat the plan": a card the operator kept when a cycle last read     *)
(* Plex and Maintainerr together is not deleted until such a cycle finds it  *)
(* kept no more, whatever the shelf and the plan say: not by that cycle,     *)
(* written down or not, and, once written down, not while Maintainerr is out *)
(* of reach.  A cycle that reads Maintainerr without Plex ends the promise   *)
(* (README, Known divergences): it writes an empty list over the last one.   *)
KeptStays == [][\A i \in Item : Evicts(i) => i \notin pledged]_vars

(* "Pins beat the plan", by the keep tag in Plex as well.  It holds while    *)
(* the shelf is on Plex, where an outage leaves nothing to act on; with the  *)
(* shelf on Jellyfin an outage hides the tag and not the card.               *)
MarkedStays == [][\A i \in Item : Evicts(i) => i \notin Marked]_vars

(* Caps, holds and pins never let a card overtake the one of its show it     *)
(* must follow (lifecycle.rs `waiting`, plan.rs `releasable`): that one goes *)
(* or is announced ahead of it in the same run, or was announced before.     *)
(* Being announced is all it takes: a finished season goes at once behind    *)
(* one whose window still runs, and which may yet be taken back, or is by    *)
(* this very run.  lifecycle.rs says never (README, Known divergences).      *)
SeasonsWait ==
  [][pc = "planning" /\ pc' = "acting" =>
       \A i \in todo'.announce \cup todo'.once :
         After(view, i) \subseteq
           Shelved(leaving) \cup ((todo'.announce \cup todo'.once) \cap Before(view, i))]_vars

(* The date a household was given stands: a saved warning is only ever       *)
(* removed, never moved to another date by announcing the card again.        *)
DatesStand ==
  [][\A i \in Item : leavingFile[i] # NotLeaving /\ leavingFile'[i] # NotLeaving =>
       leavingFile'[i] = leavingFile[i]]_vars

(* A warning ends: once failures stop, an entry whose window has run out is  *)
(* taken back or its card deleted, whatever was done to the shelf by hand.   *)
ExpiredEnds ==
  \A i \in Item, t \in 1..MaxTime :
    (leavingFile[i] # NotLeaving /\ leavingFile[i].at = t /\ t + Window <= MaxTime)
      ~> ~(leavingFile[i] # NotLeaving /\ leavingFile[i].at = t)

(* An undo request is answered: granted, or dropped for the operator to ask  *)
(* again, but never left in the queue.                                       *)
UndoAnswered == \A i \in Item : (i \in requests) ~> (i \notin requests)

(* The executor keeps the promise of WarnedDeletion: what native.json says   *)
(* is what the household was told.                                           *)
Promise == INSTANCE WarnedDeletion WITH warned <- [i \in Item |-> leavingFile[i].at]

PromiseKept == Promise!Spec

=============================================================================
