----------------------------- MODULE FleetWatch ------------------------------
(* The watch over an *arr's download queue (fleet/queue.rs, fleet/read.rs,   *)
(* fleet/act.rs, fleet/requests.rs, the daemon's and the web's fleet.rs).    *)
(* The page queues a removal by what the last read judged; the next cycle    *)
(* reads again, remembers each download's progress and takes the request.    *)
EXTENDS Integers

CONSTANTS
    Download,       \* queue records, by id
    Unlisted,       \* not in the queue, not remembered
    NotRead,        \* no read of the queue
    SizeLeft,       \* bytes a download begins with
    StalledAfter,   \* settings.json `fleet.stalled_after_minutes`
    LastHour, MaxMishaps   \* bounds: hours, and reads, writes and calls that fail

ASSUME FleetAssumption ==
    /\ SizeLeft \in Nat /\ StalledAfter \in Nat /\ LastHour \in Nat /\ MaxMishaps \in Nat
    /\ Unlisted \notin Nat

VARIABLES
    listed,        \* the app's queue: [Download -> [left, says] or Unlisted]
    movedAt,       \* the hour a download arrived or last made progress
    turned,        \* records that changed since the watch read the queue
    memory,        \* fleet-queue.json: [Download -> [left, at, amiss] or Unlisted]
    published,     \* arr-fleet-status.json: [Download -> reason], or NotRead
    asked,         \* fleet-requests/: the removals queued
    autoRemove,    \* settings.json `fleet.auto_remove_unimportable`
    watch,         \* a cycle's fleet watch, or NotRead
    hour, mishaps

queueWorld == <<listed, movedAt, turned, hour>>
fleetVars == <<queueWorld, memory, published, asked, autoRemove, watch, mishaps>>

-----------------------------------------------------------------------------
(* What a record says: "fine" downloads, "flagged" waits on someone, "fake"  *)
(* is flagged with a message no import survives, "failed" and "full" (no     *)
(* free space, whatever else it says).                                       *)
Says == {"fine", "flagged", "fake", "failed", "full"}

(* `classify`: free space first. *)
Judged(record, still) ==
    CASE record.says = "full" -> "no_space"
      [] record.says \in {"failed", "fake"} -> "unimportable"
      [] record.left > 0 /\ still >= StalledAfter -> "stalled_download"
      [] record.says = "flagged" -> "other"
      [] OTHER -> "none"

(* A record without its bytes left, or with a number that is none, reads 0. *)
SizeLeftRead(d, blank) == IF d \in blank THEN 0 ELSE listed[d].left

(* Mutant: a record progressed when it was first seen. *)
FirstSeenAt(left, before) == IF before # Unlisted THEN before.at ELSE hour

(* `judge`: progress is fewer bytes left than remembered. *)
ProgressedAt(left, before) ==
    IF before # Unlisted /\ left >= before.left THEN before.at ELSE hour

(* History, in no file: progress was last counted at a reading without its  *)
(* bytes, or they grew since; nothing the code does reads it.               *)
Amiss(d, blank, before) ==
    IF before # Unlisted /\ SizeLeftRead(d, blank) >= before.left THEN before.amiss ELSE d \in blank

Remembered(last, blank) ==
    [d \in Download |-> IF listed[d] = Unlisted THEN Unlisted
                        ELSE [left |-> SizeLeftRead(d, blank), at |-> ProgressedAt(SizeLeftRead(d, blank), last[d]),
                              amiss |-> Amiss(d, blank, last[d])]]
Reasons(last, blank) ==
    [d \in Download |-> IF listed[d] = Unlisted THEN "none"
                        ELSE Judged(listed[d], hour - ProgressedAt(SizeLeftRead(d, blank), last[d]))]

Hopeless(status, d) == status # NotRead /\ status[d] = "unimportable"

(* Mutant: by what the page showed. *)
ByPage(d) == Hopeless(published, d)

(* `remove_queue_item`, `requested`: by this cycle's read. *)
ByRead(d) == Hopeless(watch.status, d)

-----------------------------------------------------------------------------
FleetInit ==
    /\ listed = [d \in Download |-> Unlisted]
    /\ movedAt = [d \in Download |-> Unlisted]
    /\ turned = {}
    /\ memory = [d \in Download |-> Unlisted]
    /\ published = NotRead
    /\ asked = {}
    /\ autoRemove \in BOOLEAN
    /\ watch = NotRead
    /\ hour = 0 /\ mishaps = 0

Mishap(happens) == IF happens THEN mishaps < MaxMishaps /\ mishaps' = mishaps + 1 ELSE UNCHANGED mishaps

(* `remove` of the web: the published status lists it as removable. *)
AskRemoval(d) ==
    /\ Hopeless(published, d)
    /\ asked' = asked \cup {d}
    /\ UNCHANGED <<queueWorld, memory, published, autoRemove, watch, mishaps>>

(* `observe`: an app that does not answer keeps its memory, the memory may   *)
(* not be written, or have been lost, and bytes left be missing.             *)
Observe ==
    /\ watch = NotRead
    /\ \E answers, written, lost \in BOOLEAN,
          blank \in SUBSET {d \in Download : listed[d] # Unlisted /\ listed[d].left > 0} :
        /\ Mishap(~answers \/ ~written \/ lost \/ blank # {})
        /\ LET last == IF lost THEN [d \in Download |-> Unlisted] ELSE memory
           IN  /\ memory' = IF ~written THEN memory ELSE IF answers THEN Remembered(last, blank) ELSE last
               /\ watch' = [status |-> IF answers THEN Reasons(last, blank) ELSE NotRead,
                            requests |-> asked, dealt |-> {}]
    /\ turned' = {}
    /\ UNCHANGED <<listed, movedAt, hour, published, asked, autoRemove>>

(* `DELETE /api/v3/queue/{id}`: an answer may be lost, or a refusal.         *)
Sent(d) ==
    \E arrives \in BOOLEAN :
        /\ Mishap(~arrives)
        /\ listed' = IF arrives THEN [listed EXCEPT ![d] = Unlisted] ELSE listed

(* A request is taken: sent or refused, then dropped, unless its file stays. *)
TakeRequest(d) ==
    /\ watch # NotRead /\ d \in watch.requests
    /\ IF ByRead(d) THEN Sent(d) ELSE UNCHANGED <<listed, mishaps>>
    /\ watch' = [watch EXCEPT !.requests = @ \ {d}]
    /\ asked' \in {asked \ {d}, asked}
    /\ UNCHANGED <<movedAt, turned, memory, published, autoRemove, hour>>

(* `auto`: every removable item, after the requests. *)
AutoRemove(d) ==
    /\ watch # NotRead /\ watch.requests = {} /\ autoRemove
    /\ d \notin watch.dealt /\ Hopeless(watch.status, d)
    /\ Sent(d)
    /\ watch' = [watch EXCEPT !.dealt = @ \cup {d}]
    /\ UNCHANGED <<movedAt, turned, memory, published, asked, autoRemove, hour>>

(* The status is written, the watch over. *)
PublishFleet ==
    /\ watch # NotRead /\ watch.requests = {}
    /\ autoRemove => \A d \in Download : Hopeless(watch.status, d) => d \in watch.dealt
    /\ published' = watch.status
    /\ watch' = NotRead
    /\ UNCHANGED <<queueWorld, memory, asked, autoRemove, mishaps>>

(* The daemon stops, or the status cannot be written. *)
StopWatch ==
    /\ watch # NotRead /\ Mishap(TRUE)
    /\ watch' = NotRead
    /\ UNCHANGED <<queueWorld, memory, published, asked, autoRemove>>

-----------------------------------------------------------------------------
(* The client downloads; ids are never reused.                              *)
Arrive(d) ==
    /\ listed[d] = Unlisted /\ movedAt[d] = Unlisted
    /\ listed' = [listed EXCEPT ![d] = [left |-> SizeLeft, says |-> "fine"]]
    /\ movedAt' = [movedAt EXCEPT ![d] = hour]
    /\ UNCHANGED <<turned, memory, published, asked, autoRemove, watch, hour, mishaps>>

Progress(d) ==
    /\ listed[d] # Unlisted /\ listed[d].left > 0 /\ listed[d].says \in {"fine", "flagged"}
    /\ listed' = [listed EXCEPT ![d].left = @ - 1]
    /\ movedAt' = [movedAt EXCEPT ![d] = hour]
    /\ UNCHANGED <<turned, memory, published, asked, autoRemove, watch, hour, mishaps>>

(* The client checks its files again and has more bytes left than it said.  *)
Recheck(d) ==
    /\ listed[d] # Unlisted /\ Mishap(TRUE)
    /\ \E more \in (listed[d].left + 1)..SizeLeft : listed' = [listed EXCEPT ![d].left = more]
    /\ memory' = IF memory[d] = Unlisted THEN memory ELSE [memory EXCEPT ![d].amiss = TRUE]
    /\ UNCHANGED <<movedAt, turned, published, asked, autoRemove, watch, hour>>

(* The app changes its mind: a disk fills, files turn out fake, a retry.    *)
Restate(d) ==
    /\ listed[d] # Unlisted
    /\ \E says \in Says \ {listed[d].says} : listed' = [listed EXCEPT ![d].says = says]
    /\ turned' = turned \cup {d}
    /\ UNCHANGED <<movedAt, memory, published, asked, autoRemove, watch, hour, mishaps>>

(* It is imported, or removed by hand. *)
Leave(d) ==
    /\ listed[d] # Unlisted
    /\ listed' = [listed EXCEPT ![d] = Unlisted]
    /\ UNCHANGED <<movedAt, turned, memory, published, asked, autoRemove, watch, hour, mishaps>>

NextHour ==
    /\ hour < LastHour /\ watch = NotRead
    /\ hour' = hour + 1
    /\ UNCHANGED <<listed, movedAt, turned, memory, published, asked, autoRemove, watch, mishaps>>

SetFleet ==
    /\ autoRemove' = ~autoRemove /\ watch = NotRead
    /\ UNCHANGED <<queueWorld, memory, published, asked, watch, mishaps>>

FleetNext ==
    \/ Observe \/ PublishFleet \/ StopWatch \/ NextHour \/ SetFleet
    \/ \E d \in Download :
        \/ AskRemoval(d) \/ TakeRequest(d) \/ AutoRemove(d)
        \/ Arrive(d) \/ Progress(d) \/ Recheck(d) \/ Restate(d) \/ Leave(d)

FleetSpec == FleetInit /\ [][FleetNext]_fleetVars

-----------------------------------------------------------------------------
(* Only what can never import is removed: at the moment FLINCH takes a       *)
(* record out of the queue it says so itself, unless it turned after this    *)
(* cycle read it -- however old the page's request, whatever the automatic   *)
(* removal, a stop or a request file that stayed bring again.                *)
OnlyHopelessGo ==
    [][ \A d \in Download :
          (TakeRequest(d) \/ AutoRemove(d)) /\ listed'[d] # listed[d] =>
              d \in turned \/ listed[d].says \in {"failed", "fake"} ]_fleetVars

(* A download called stalled made no progress for as long as the setting     *)
(* says: reads that failed, a memory that was not written or was lost, and   *)
(* restarts may delay the judgement and never hasten it.  The exception is   *)
(* what fewer bytes than remembered cannot show: progress last counted at a  *)
(* reading without bytes left, which queue.rs takes for 0, or bytes that     *)
(* grew since, hide what the download moves until they are fewer again.      *)
StalledForLong ==
    [][ \A d \in Download :
          Observe /\ watch'.status # NotRead /\ watch'.status[d] = "stalled_download" =>
              \/ hour - movedAt[d] >= StalledAfter
              \/ memory[d] # Unlisted /\ memory[d].amiss ]_fleetVars
=============================================================================
