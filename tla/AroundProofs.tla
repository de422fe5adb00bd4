----------------------------- MODULE AroundProofs -----------------------------
(***************************************************************************)
(* Theorems about what stands around the library a cycle deletes from: the *)
(* watch over the download queues, the operator's rules over a show and    *)
(* the torrents that hold the library's bytes, for any downloads, rules,   *)
(* cards and torrents.                                                     *)
(***************************************************************************)
EXTENDS TorrentHolds, RetentionRules, FleetWatch, FiniteSetTheorems, TLAPS

-----------------------------------------------------------------------------
(***************************************************************************)
(* The download queues.  A cycle judges a download by a memory of earlier  *)
(* reads, and acts on its read while the queue moves on.                   *)
(***************************************************************************)
Verdicts == {"no_space", "unimportable", "stalled_download", "other", "none"}
QueueRecord == [left : Nat, says : Says]
Progresses == [left : Nat, at : Nat, amiss : BOOLEAN]
Statuses == {NotRead} \cup [Download -> Verdicts]
Watches == [status : Statuses, requests : SUBSET Download, dealt : SUBSET Download]

FleetTypes ==
    /\ listed \in [Download -> {Unlisted} \cup QueueRecord]
    /\ movedAt \in [Download -> {Unlisted} \cup Nat]
    /\ turned \subseteq Download
    /\ memory \in [Download -> {Unlisted} \cup Progresses]
    /\ asked \subseteq Download
    /\ watch # NotRead => watch \in Watches
    /\ hour \in Nat

(* A record in the queue has moved some time: it arrived. *)
Arrived ==
    \A d \in Download :
        /\ movedAt[d] # Unlisted => movedAt[d] <= hour
        /\ listed[d] # Unlisted \/ memory[d] # Unlisted => movedAt[d] # Unlisted

(* Unless its bytes were missing when it last counted progress, or grew      *)
(* since, the memory is never ahead of a download: it remembers at least the *)
(* bytes that are left and, when no fewer are, a time after they last shrank.*)
MemoryFits ==
    \A d \in Download :
        listed[d] # Unlisted /\ memory[d] # Unlisted /\ ~memory[d].amiss =>
            /\ listed[d].left <= memory[d].left
            /\ listed[d].left = memory[d].left => memory[d].at >= movedAt[d]

(* What a cycle read as hopeless had arrived and, while it is still listed, *)
(* says so unless it turned since.                                          *)
ReadHolds ==
    watch # NotRead /\ watch.status # NotRead =>
        \A d \in Download :
            watch.status[d] = "unimportable" =>
                /\ movedAt[d] # Unlisted
                /\ listed[d] # Unlisted => d \in turned \/ listed[d].says \in {"failed", "fake"}

FleetInv == FleetTypes /\ Arrived /\ MemoryFits /\ ReadHolds

LEMMA FleetInitHolds == FleetInit => FleetInv
  BY FleetAssumption DEF FleetInit, FleetInv, FleetTypes, Arrived, MemoryFits, ReadHolds

(* A reading is no more than the bytes left. *)
LEMMA ReadingTyped ==
  ASSUME FleetTypes, NEW d \in Download, listed[d] # Unlisted, NEW blank
  PROVE  /\ listed[d].left \in Nat /\ SizeLeftRead(d, blank) \in Nat
         /\ SizeLeftRead(d, blank) <= listed[d].left
         /\ d \notin blank => SizeLeftRead(d, blank) = listed[d].left
  BY DEF FleetTypes, QueueRecord, SizeLeftRead

(* Nothing is taken to have progressed before it did, and what a read would *)
(* remember fits, unless progress was counted amiss.                        *)
LEMMA ProgressIsNoEarlier ==
  ASSUME FleetInv, NEW before \in {Unlisted} \cup Progresses, NEW d \in Download, listed[d] # Unlisted,
         before \in {Unlisted, memory[d]}, NEW blank
  PROVE  /\ ProgressedAt(SizeLeftRead(d, blank), before) \in Nat
         /\ Amiss(d, blank, before) \in BOOLEAN
         /\ ProgressedAt(SizeLeftRead(d, blank), before) >= movedAt[d] \/ (before # Unlisted /\ before.amiss)
         /\ ~Amiss(d, blank, before) =>
               /\ listed[d].left <= SizeLeftRead(d, blank)
               /\ ProgressedAt(SizeLeftRead(d, blank), before) >= movedAt[d]
<1> DEFINE reading == SizeLeftRead(d, blank)
<1>1. /\ listed[d].left \in Nat /\ reading \in Nat /\ reading <= listed[d].left
      /\ d \notin blank => reading = listed[d].left
  BY ReadingTyped DEF FleetInv
<1>2. movedAt[d] \in Nat /\ hour \in Nat /\ movedAt[d] <= hour
  BY DEF FleetInv, FleetTypes, Arrived
<1> HIDE DEF reading
<1>3. CASE before # Unlisted /\ reading >= before.left
  <2>1. before \in Progresses /\ before = memory[d] /\ memory[d] # Unlisted
    BY <1>3
  <2>2. before.left \in Nat /\ before.at \in Nat /\ before.amiss \in BOOLEAN
    BY <2>1 DEF Progresses
  <2>3. ProgressedAt(reading, before) = before.at
    BY <1>3 DEF ProgressedAt
  <2>4. Amiss(d, blank, before) = before.amiss
    BY <1>3 DEF Amiss, reading
  <2>5. ~before.amiss => listed[d].left <= before.left /\ (listed[d].left = before.left => before.at >= movedAt[d])
    BY <2>1 DEF FleetInv, MemoryFits
  <2>6. ~before.amiss => listed[d].left <= reading /\ before.at >= movedAt[d]
    BY <1>1, <1>3, <2>2, <2>5
  <2>7. before.at >= movedAt[d] \/ before.amiss
    BY <2>6
  <2> QED BY <1>3, <2>2, <2>3, <2>4, <2>6, <2>7 DEF reading
<1>4. CASE ~(before # Unlisted /\ reading >= before.left)
  <2>1. ProgressedAt(reading, before) = hour
    BY <1>4 DEF ProgressedAt
  <2>2. Amiss(d, blank, before) = (d \in blank)
    BY <1>4 DEF Amiss, reading
  <2>3. d \notin blank => listed[d].left <= reading
    BY <1>1
  <2>4. ProgressedAt(reading, before) \in Nat /\ ProgressedAt(reading, before) >= movedAt[d]
    BY <1>2, <2>1
  <2>5. Amiss(d, blank, before) \in BOOLEAN
    BY <2>2
  <2>6. ~Amiss(d, blank, before) => listed[d].left <= reading
    BY <2>2, <2>3
  <2> QED BY <2>4, <2>5, <2>6 DEF reading
<1> QED BY <1>3, <1>4

(* A read brings the memory up to the queue, and judges what it lists.      *)
LEMMA ObserveHolds ==
  ASSUME FleetInv, Observe
  PROVE  FleetInv'
<1>1. PICK answers \in BOOLEAN, written \in BOOLEAN, lost \in BOOLEAN, blank \in SUBSET Download :
        LET last == IF lost THEN [d \in Download |-> Unlisted] ELSE memory
        IN  /\ memory' = IF ~written THEN memory ELSE IF answers THEN Remembered(last, blank) ELSE last
            /\ watch' = [status |-> IF answers THEN Reasons(last, blank) ELSE NotRead,
                         requests |-> asked, dealt |-> {}]
  BY DEF Observe
<1> DEFINE last == IF lost THEN [d \in Download |-> Unlisted] ELSE memory
           at(d) == ProgressedAt(SizeLeftRead(d, blank), last[d])
<1>2. /\ turned' = {}
      /\ UNCHANGED <<listed, movedAt, hour, asked>>
  BY DEF Observe
<1>3. last \in [Download -> {Unlisted} \cup Progresses] /\ \A d \in Download : last[d] \in {Unlisted, memory[d]}
  BY DEF FleetInv, FleetTypes
<1> HIDE DEF last
<1>7. \A d \in Download : listed[d] # Unlisted =>
        /\ at(d) \in Nat /\ Amiss(d, blank, last[d]) \in BOOLEAN
        /\ ~Amiss(d, blank, last[d]) => listed[d].left <= SizeLeftRead(d, blank) /\ at(d) >= movedAt[d]
        /\ SizeLeftRead(d, blank) \in Nat
  BY <1>3, ProgressIsNoEarlier, ReadingTyped DEF FleetInv
<1>8. /\ memory' = IF ~written THEN memory ELSE IF answers THEN Remembered(last, blank) ELSE last
      /\ watch' = [status |-> IF answers THEN Reasons(last, blank) ELSE NotRead, requests |-> asked, dealt |-> {}]
  BY <1>1 DEF last
<1>4. FleetTypes'
  <2>1. listed' \in [Download -> {Unlisted} \cup QueueRecord] /\ movedAt' \in [Download -> {Unlisted} \cup Nat]
        /\ turned' \subseteq Download /\ asked' \subseteq Download /\ hour' \in Nat
    BY <1>2 DEF FleetInv, FleetTypes
  <2>2. memory' \in [Download -> {Unlisted} \cup Progresses]
    <3>1. Remembered(last, blank) \in [Download -> {Unlisted} \cup Progresses]
      BY <1>7 DEF Remembered, Progresses
    <3> QED BY <1>3, <1>8, <3>1 DEF FleetInv, FleetTypes
  <2>3. watch' \in Watches
    <3>1. Reasons(last, blank) \in [Download -> Verdicts]
      BY DEF Reasons, Judged, Verdicts
    <3>2. asked \subseteq Download
      BY DEF FleetInv, FleetTypes
    <3> QED BY <1>8, <3>1, <3>2 DEF Watches, Statuses
  <2> QED BY <2>1, <2>2, <2>3 DEF FleetTypes
<1>5. Arrived' /\ MemoryFits'
  <2> SUFFICES ASSUME NEW d \in Download
               PROVE  /\ movedAt[d] # Unlisted => movedAt[d] <= hour
                      /\ listed[d] # Unlisted \/ memory'[d] # Unlisted => movedAt[d] # Unlisted
                      /\ listed[d] # Unlisted /\ memory'[d] # Unlisted /\ ~memory'[d].amiss =>
                           /\ listed[d].left <= memory'[d].left
                           /\ listed[d].left = memory'[d].left => memory'[d].at >= movedAt[d]
    BY <1>2 DEF Arrived, MemoryFits
  <2>1. \/ memory'[d] = memory[d]
        \/ memory'[d] = Unlisted
        \/ /\ listed[d] # Unlisted
           /\ memory'[d] = [left |-> SizeLeftRead(d, blank), at |-> at(d), amiss |-> Amiss(d, blank, last[d])]
    BY <1>3, <1>8 DEF Remembered
  <2> QED BY <1>7, <2>1 DEF FleetInv, Arrived, MemoryFits
<1>6. ReadHolds'
  <2> SUFFICES ASSUME watch'.status # NotRead, NEW d \in Download, watch'.status[d] = "unimportable"
               PROVE  /\ movedAt[d] # Unlisted
                      /\ listed[d] # Unlisted => listed[d].says \in {"failed", "fake"}
    BY <1>2 DEF ReadHolds
  <2>1. watch'.status = Reasons(last, blank)
    BY <1>8
  <2>2. listed[d] # Unlisted /\ Judged(listed[d], hour - at(d)) = "unimportable"
    BY <2>1 DEF Reasons
  <2>3. listed[d].says \in {"failed", "fake"}
    BY <2>2 DEF Judged
  <2> QED BY <2>2, <2>3 DEF FleetInv, Arrived
<1> QED BY <1>4, <1>5, <1>6 DEF FleetInv

(* A client that checks its files again marks what is remembered of it.     *)
LEMMA RecheckHolds ==
  ASSUME FleetInv, NEW d \in Download, Recheck(d)
  PROVE  FleetInv'
<1>1. PICK more \in (listed[d].left + 1)..SizeLeft : listed' = [listed EXCEPT ![d].left = more]
  BY DEF Recheck
<1>2. /\ listed[d] # Unlisted /\ listed[d] \in QueueRecord
      /\ memory' = IF memory[d] = Unlisted THEN memory ELSE [memory EXCEPT ![d].amiss = TRUE]
      /\ UNCHANGED <<movedAt, turned, asked, watch, hour>>
  BY DEF Recheck, FleetInv, FleetTypes
<1>3. more \in Nat
  BY <1>1, <1>2, FleetAssumption DEF QueueRecord
<1>4. listed'[d] \in QueueRecord /\ listed'[d].says = listed[d].says
  BY <1>1, <1>2, <1>3 DEF FleetInv, FleetTypes, QueueRecord
<1>5. \A e \in Download : e # d => listed'[e] = listed[e] /\ memory'[e] = memory[e]
  BY <1>1, <1>2 DEF FleetInv, FleetTypes
<1>6. /\ memory'[d] \in {Unlisted} \cup Progresses
      /\ memory'[d] # Unlisted => memory'[d].amiss /\ memory[d] # Unlisted
  BY <1>2 DEF FleetInv, FleetTypes, Progresses
<1>7. FleetTypes'
  <2>1. listed' \in [Download -> {Unlisted} \cup QueueRecord]
    BY <1>1, <1>4 DEF FleetInv, FleetTypes
  <2>2. memory' \in [Download -> {Unlisted} \cup Progresses]
    BY <1>2, <1>6 DEF FleetInv, FleetTypes
  <2> QED BY <1>2, <2>1, <2>2 DEF FleetInv, FleetTypes
<1>8. Arrived' /\ MemoryFits'
  BY <1>2, <1>5, <1>6 DEF FleetInv, Arrived, MemoryFits
<1>9. ReadHolds'
  BY <1>2, <1>4, <1>5 DEF FleetInv, ReadHolds
<1> QED BY <1>7, <1>8, <1>9 DEF FleetInv

(* A removal is sent or refused; what is lost only leaves the queue.        *)
LEMMA TakeHolds ==
  ASSUME FleetInv, NEW d \in Download, TakeRequest(d) \/ AutoRemove(d)
  PROVE  FleetInv'
<1>1. listed' \in {listed, [listed EXCEPT ![d] = Unlisted]}
  BY DEF TakeRequest, AutoRemove, Sent
<1>2. /\ UNCHANGED <<movedAt, turned, memory, hour>>
      /\ asked' \subseteq asked \cup Download
      /\ watch # NotRead
  BY DEF TakeRequest, AutoRemove
<1>3. watch' \in Watches /\ watch'.status = watch.status
  BY <1>2 DEF TakeRequest, AutoRemove, FleetInv, FleetTypes, Watches
<1>4. FleetTypes'
  BY <1>1, <1>2, <1>3 DEF FleetInv, FleetTypes
<1>5. \A e \in Download : listed'[e] = listed[e] \/ listed'[e] = Unlisted
  BY <1>1 DEF FleetInv, FleetTypes
<1>6. Arrived' /\ MemoryFits'
  BY <1>2, <1>5 DEF FleetInv, Arrived, MemoryFits
<1>7. ReadHolds'
  BY <1>2, <1>3, <1>5 DEF FleetInv, ReadHolds
<1> QED BY <1>4, <1>6, <1>7 DEF FleetInv

(* A download arrives once, and nothing is remembered of it. *)
LEMMA ArriveHolds ==
  ASSUME FleetInv, NEW d \in Download, Arrive(d)
  PROVE  FleetInv'
<1>1. /\ listed[d] = Unlisted /\ movedAt[d] = Unlisted /\ memory[d] = Unlisted
      /\ listed' = [listed EXCEPT ![d] = [left |-> SizeLeft, says |-> "fine"]]
      /\ movedAt' = [movedAt EXCEPT ![d] = hour]
      /\ UNCHANGED <<turned, memory, asked, watch, hour>>
  BY DEF Arrive, FleetInv, Arrived
<1>2. FleetTypes'
  BY <1>1, FleetAssumption DEF FleetInv, FleetTypes, QueueRecord, Says
<1>3. \A e \in Download : e # d => listed'[e] = listed[e] /\ movedAt'[e] = movedAt[e]
  BY <1>1 DEF FleetInv, FleetTypes
<1>4. movedAt'[d] = hour /\ movedAt'[d] # Unlisted /\ hour \in Nat
  BY <1>1, FleetAssumption DEF FleetInv, FleetTypes
<1>5. Arrived' /\ MemoryFits'
  BY <1>1, <1>3, <1>4 DEF FleetInv, Arrived, MemoryFits
<1>6. ReadHolds'
  BY <1>1, <1>3, <1>4 DEF FleetInv, ReadHolds
<1> QED BY <1>2, <1>5, <1>6 DEF FleetInv

LEMMA ProgressHolds ==
  ASSUME FleetInv, NEW d \in Download, Progress(d)
  PROVE  FleetInv'
<1>1. /\ listed[d] \in QueueRecord /\ listed[d].left > 0
      /\ listed' = [listed EXCEPT ![d].left = @ - 1]
      /\ movedAt' = [movedAt EXCEPT ![d] = hour]
      /\ UNCHANGED <<turned, memory, asked, watch, hour>>
  BY DEF Progress, FleetInv, FleetTypes
<1>2. /\ listed'[d] \in QueueRecord
      /\ listed'[d].left = listed[d].left - 1 /\ listed'[d].says = listed[d].says
      /\ listed[d] # Unlisted
  BY <1>1 DEF Progress, FleetInv, FleetTypes, QueueRecord
<1>3. \A e \in Download : e # d => listed'[e] = listed[e] /\ movedAt'[e] = movedAt[e]
  BY <1>1 DEF FleetInv, FleetTypes
<1>4. movedAt'[d] = hour /\ movedAt'[d] # Unlisted /\ hour \in Nat
  BY <1>1, FleetAssumption DEF FleetInv, FleetTypes
<1>5. FleetTypes'
  <2>1. listed' \in [Download -> {Unlisted} \cup QueueRecord]
    BY <1>1, <1>2 DEF FleetInv, FleetTypes
  <2> QED BY <1>1, <2>1 DEF FleetInv, FleetTypes
<1>6. Arrived'
  BY <1>1, <1>2, <1>3, <1>4 DEF FleetInv, Arrived
<1>7. MemoryFits'
  <2>1. memory[d] # Unlisted /\ ~memory[d].amiss =>
          memory[d].left \in Nat /\ listed[d].left <= memory[d].left
    BY <1>2 DEF FleetInv, FleetTypes, MemoryFits, Progresses
  <2>2. memory[d] # Unlisted /\ ~memory[d].amiss => listed'[d].left < memory[d].left
    BY <1>1, <1>2, <2>1 DEF QueueRecord
  <2> QED BY <1>1, <1>2, <1>3, <2>1, <2>2 DEF FleetInv, MemoryFits, QueueRecord
<1>8. ReadHolds'
  BY <1>1, <1>2, <1>3, <1>4 DEF FleetInv, ReadHolds
<1> QED BY <1>5, <1>6, <1>7, <1>8 DEF FleetInv

LEMMA RestateHolds ==
  ASSUME FleetInv, NEW d \in Download, Restate(d)
  PROVE  FleetInv'
<1>1. PICK says \in Says : listed' = [listed EXCEPT ![d].says = says]
  BY DEF Restate
<1>2. /\ listed[d] # Unlisted /\ listed[d] \in QueueRecord
      /\ turned' = turned \cup {d}
      /\ UNCHANGED <<movedAt, memory, asked, watch, hour>>
  BY DEF Restate, FleetInv, FleetTypes
<1>3. listed'[d] \in QueueRecord /\ listed'[d].left = listed[d].left
  BY <1>1, <1>2 DEF FleetInv, FleetTypes, QueueRecord
<1>4. \A e \in Download : e # d => listed'[e] = listed[e]
  BY <1>1 DEF FleetInv, FleetTypes
<1>5. FleetTypes'
  <2>1. listed' \in [Download -> {Unlisted} \cup QueueRecord]
    BY <1>1, <1>3 DEF FleetInv, FleetTypes
  <2> QED BY <1>2, <2>1 DEF FleetInv, FleetTypes
<1>6. Arrived' /\ MemoryFits'
  BY <1>2, <1>3, <1>4 DEF FleetInv, Arrived, MemoryFits
<1>7. ReadHolds'
  BY <1>2, <1>4 DEF FleetInv, ReadHolds
<1> QED BY <1>5, <1>6, <1>7 DEF FleetInv

LEMMA LeaveHolds ==
  ASSUME FleetInv, NEW d \in Download, Leave(d)
  PROVE  FleetInv'
<1>1. /\ listed' = [listed EXCEPT ![d] = Unlisted]
      /\ UNCHANGED <<movedAt, turned, memory, asked, watch, hour>>
  BY DEF Leave
<1>2. \A e \in Download : listed'[e] = listed[e] \/ listed'[e] = Unlisted
  BY <1>1 DEF FleetInv, FleetTypes
<1> QED BY <1>1, <1>2 DEF FleetInv, FleetTypes, Arrived, MemoryFits, ReadHolds

LEMMA FleetNextHolds == FleetInv /\ [FleetNext]_fleetVars => FleetInv'
<1> SUFFICES ASSUME FleetInv, [FleetNext]_fleetVars PROVE FleetInv'
  OBVIOUS
<1> USE DEF FleetInv
<1>1. CASE Observe
  BY <1>1, ObserveHolds
<1>2. CASE PublishFleet \/ StopWatch \/ SetFleet
  BY <1>2 DEF PublishFleet, StopWatch, SetFleet, queueWorld, FleetTypes, Arrived, MemoryFits, ReadHolds
<1>3. CASE NextHour
  BY <1>3 DEF NextHour, FleetTypes, Arrived, MemoryFits, ReadHolds
<1>4. CASE \E d \in Download : AskRemoval(d)
  BY <1>4 DEF AskRemoval, queueWorld, FleetTypes, Arrived, MemoryFits, ReadHolds
<1>5. CASE \E d \in Download : TakeRequest(d) \/ AutoRemove(d)
  BY <1>5, TakeHolds
<1>6. CASE \E d \in Download : Arrive(d)
  BY <1>6, ArriveHolds
<1>7. CASE \E d \in Download : Progress(d)
  BY <1>7, ProgressHolds
<1>8. CASE \E d \in Download : Restate(d)
  BY <1>8, RestateHolds
<1>9. CASE \E d \in Download : Leave(d)
  BY <1>9, LeaveHolds
<1>11. CASE \E d \in Download : Recheck(d)
  BY <1>11, RecheckHolds
<1>10. CASE UNCHANGED fleetVars
  BY <1>10 DEF fleetVars, queueWorld, FleetTypes, Arrived, MemoryFits, ReadHolds
<1> QED
  BY <1>1, <1>2, <1>3, <1>4, <1>5, <1>6, <1>7, <1>8, <1>9, <1>10, <1>11 DEF FleetNext

(* What the watch remembers of a download is never ahead of the download    *)
(* once progress was counted by bytes it has, until they grow (an exception *)
(* queue.rs makes of a reading without them), and what it read of it is     *)
(* what the download says unless it turned: over lost memories, failed      *)
(* writes and restarts (fleet/queue.rs, fleet/read.rs).                     *)
THEOREM MemoryKeepsBehind == FleetSpec => []FleetInv
  BY FleetInitHolds, FleetNextHolds, PTL DEF FleetSpec

(* A download called stalled made no progress for as long as the setting    *)
(* says, unless progress was last counted at a reading without its bytes,   *)
(* or they grew since (fleet/queue.rs `judge`, `classify`).                 *)
THEOREM StalledForLongHolds == FleetSpec => StalledForLong
<1> DEFINE Step == \A d \in Download :
                      Observe /\ watch'.status # NotRead /\ watch'.status[d] = "stalled_download" =>
                        \/ hour - movedAt[d] >= StalledAfter
                        \/ memory[d] # Unlisted /\ memory[d].amiss
<1>1. ASSUME FleetInv PROVE Step
  <2> SUFFICES ASSUME NEW d \in Download, Observe, watch'.status # NotRead, watch'.status[d] = "stalled_download",
                      ~(memory[d] # Unlisted /\ memory[d].amiss)
               PROVE  hour - movedAt[d] >= StalledAfter
    OBVIOUS
  <2>1. PICK lost \in BOOLEAN, blank \in SUBSET Download :
          watch'.status = Reasons(IF lost THEN [e \in Download |-> Unlisted] ELSE memory, blank)
    BY DEF Observe
  <2> DEFINE last == IF lost THEN [e \in Download |-> Unlisted] ELSE memory
             at == ProgressedAt(SizeLeftRead(d, blank), last[d])
  <2>2. listed[d] # Unlisted /\ Judged(listed[d], hour - at) = "stalled_download"
    BY <2>1 DEF Reasons
  <2>3. hour - at >= StalledAfter
    BY <2>2 DEF Judged
  <2>4. /\ last[d] \in {Unlisted} \cup Progresses /\ last[d] \in {Unlisted, memory[d]}
        /\ ~(last[d] # Unlisted /\ last[d].amiss)
    BY <1>1 DEF FleetInv, FleetTypes
  <2> HIDE DEF last
  <2>5. at \in Nat /\ at >= movedAt[d]
    BY <1>1, <2>2, <2>4, ProgressIsNoEarlier
  <2>6. movedAt[d] \in Nat /\ hour \in Nat
    BY <1>1, <2>2 DEF FleetInv, FleetTypes, Arrived
  <2> QED BY <2>3, <2>5, <2>6, FleetAssumption
<1>2. FleetInv /\ [FleetNext]_fleetVars => [Step]_fleetVars
  BY <1>1
<1> QED
  BY MemoryKeepsBehind, <1>2, PTL DEF FleetSpec, StalledForLong

(* Only what can never import is removed, unless it turned after the cycle  *)
(* read it (fleet/act.rs `remove_queue_item`, fleet/requests.rs).           *)
THEOREM OnlyHopelessGoHolds == FleetSpec => OnlyHopelessGo
<1> DEFINE Step == \A d \in Download :
                      (TakeRequest(d) \/ AutoRemove(d)) /\ listed'[d] # listed[d] =>
                        d \in turned \/ listed[d].says \in {"failed", "fake"}
<1>1. ASSUME FleetInv PROVE Step
  <2> SUFFICES ASSUME NEW d \in Download, TakeRequest(d) \/ AutoRemove(d), listed'[d] # listed[d]
               PROVE  d \in turned \/ listed[d].says \in {"failed", "fake"}
    OBVIOUS
  <2>1. watch # NotRead /\ watch.status # NotRead /\ watch.status[d] = "unimportable"
    BY DEF TakeRequest, AutoRemove, ByRead, Hopeless
  <2>2. listed[d] # Unlisted
    BY <1>1 DEF TakeRequest, AutoRemove, Sent, FleetInv, FleetTypes
  <2> QED BY <1>1, <2>1, <2>2 DEF FleetInv, ReadHolds
<1>2. FleetInv /\ [FleetNext]_fleetVars => [Step]_fleetVars
  BY <1>1
<1> QED
  BY MemoryKeepsBehind, <1>2, PTL DEF FleetSpec, OnlyHopelessGo

-----------------------------------------------------------------------------
(***************************************************************************)
(* The operator's rules.  What could not be read makes a rule's answer     *)
(* unknown, never another: reading more only settles unknown answers.      *)
(***************************************************************************)
Facts == {"tags", "requests", "status"}

RulesTypes == rules \subseteq RuleKinds /\ reads \subseteq Facts

LEMMA RulesTyped == RulesSpec => []RulesTypes
<1>1. RulesInit => RulesTypes
  BY DEF RulesInit, RulesTypes, Facts
<1>2. RulesTypes /\ [RulesNext]_rulesVars => RulesTypes'
  BY DEF RulesTypes, RulesNext, AddRule, ReadMore, rulesVars, Facts
<1> QED
  BY <1>1, <1>2, PTL DEF RulesSpec

(* An answer known from less stays the answer. *)
Settles(p, q) == p # "unknown" => q = p

LEMMA AndSettles ==
  ASSUME NEW p1, NEW p2, NEW q1, NEW q2, Settles(p1, p2), Settles(q1, q2),
         {p1, p2, q1, q2} \subseteq {"yes", "no", "unknown"}
  PROVE  Settles(And(p1, q1), And(p2, q2)) /\ And(p1, q1) \in {"yes", "no", "unknown"}
  BY DEF Settles, And

LEMMA ScopeSettles ==
  ASSUME NEW read, NEW more, read \subseteq more, NEW s, NEW scope \in SUBSET {"tagged", "requested"}
  PROVE  Settles(InScope(read, s, scope), InScope(more, s, scope))
<1>1. \A which \in scope : Settles(Condition(read, s, which), Condition(more, s, which))
  BY DEF Settles, Condition, Truth
<1>2. CASE InScope(read, s, scope) = "no"
  <2>1. PICK which \in scope : Condition(read, s, which) = "no"
    BY <1>2 DEF InScope
  <2>2. Condition(more, s, which) = "no"
    BY <1>1, <2>1 DEF Settles
  <2> QED BY <2>2, <1>2 DEF InScope, Settles
<1>3. CASE InScope(read, s, scope) = "yes"
  <2>1. \A which \in scope : Condition(read, s, which) \notin {"no", "unknown"}
    BY <1>3 DEF InScope
  <2>2. \A which \in scope : Condition(more, s, which) = Condition(read, s, which)
    BY <1>1, <2>1 DEF Settles
  <2> QED BY <2>1, <2>2, <1>3 DEF InScope, Settles
<1>4. InScope(read, s, scope) \in {"no", "unknown", "yes"}
  BY DEF InScope
<1> QED BY <1>2, <1>3, <1>4 DEF Settles

LEMMA VerdictSettles ==
  ASSUME NEW read, NEW more, read \subseteq more, NEW s, NEW r \in RuleKinds
  PROVE  Settles(Verdict(read, s, r), Verdict(more, s, r))
<1> DEFINE T == {"yes", "no", "unknown"}
<1>1. Settles(InScope(read, s, r.scope), InScope(more, s, r.scope))
  BY ScopeSettles, RulesAssumption
<1>2. InScope(read, s, r.scope) \in T /\ InScope(more, s, r.scope) \in T
  BY DEF InScope
<1>3. /\ Settles(AskedLately(read, s), AskedLately(more, s))
      /\ AskedLately(read, s) \in T /\ AskedLately(more, s) \in T
  BY DEF AskedLately, Settles, Truth
<1>4. /\ Settles(Latest(read, s, r.seasons), Latest(more, s, r.seasons))
      /\ Latest(read, s, r.seasons) \in T /\ Latest(more, s, r.seasons) \in T
  BY DEF Latest, Settles, And, Truth
<1>5. First(s) \in T
  BY DEF First, And, Truth
<1> HIDE DEF T
<1>6. CASE r.effect = "keep_until"
  BY <1>1, <1>2, <1>3, <1>6, AndSettles DEF Verdict, T
<1>7. CASE r.effect = "keep_latest"
  BY <1>1, <1>2, <1>4, <1>7, AndSettles DEF Verdict, T
<1>8. CASE r.effect = "keep_first"
  BY <1>1, <1>2, <1>5, <1>8, AndSettles DEF Verdict, T, Settles
<1>9. CASE r.effect \notin {"keep_until", "keep_latest", "keep_first"}
  BY <1>1, <1>9 DEF Verdict
<1> QED BY <1>6, <1>7, <1>8, <1>9

(* With more read, no more rules keep, and as many are sure to keep or force. *)
LEMMA MoreReadKeepsLess ==
  ASSUME NEW read, NEW more, read \subseteq more, NEW s, rules \subseteq RuleKinds
  PROVE  /\ Keeps(more, s) \subseteq Keeps(read, s)
         /\ CertainKeeps(read, s) \subseteq CertainKeeps(more, s)
         /\ Evicts(read, s) \subseteq Evicts(more, s)
<1>1. \A r \in rules : Settles(Verdict(read, s, r), Verdict(more, s, r))
  BY VerdictSettles
<1> QED BY <1>1 DEF Keeps, CertainKeeps, Evicts, Settles

(* Missing facts keep (rules.rs:17-19, rules/retention.rs:6-7). *)
THEOREM MissingFactsKeepHolds == RulesSpec => MissingFactsKeep
<1> DEFINE Step == ReadMore => \A s \in series.onDisk :
                     /\ Excluded(reads', s) => Excluded(reads, s)
                     /\ Loose(reads, s) => Excluded(reads', s)
                     /\ Harder(ForceOf(reads, s)) <= Harder(ForceOf(reads', s))
<1>1. ASSUME RulesTypes PROVE Step
  <2> SUFFICES ASSUME ReadMore, NEW s \in series.onDisk
               PROVE  /\ Excluded(reads', s) => Excluded(reads, s)
                      /\ Loose(reads, s) => Excluded(reads', s)
                      /\ Harder(ForceOf(reads, s)) <= Harder(ForceOf(reads', s))
    OBVIOUS
  <2>1. /\ Keeps(reads', s) \subseteq Keeps(reads, s)
        /\ CertainKeeps(reads, s) \subseteq CertainKeeps(reads', s)
        /\ Evicts(reads, s) \subseteq Evicts(reads', s)
    BY <1>1, MoreReadKeepsLess DEF ReadMore, RulesTypes
  <2>2. Excluded(reads', s) => Excluded(reads, s)
    BY <2>1 DEF Excluded
  <2>3. Loose(reads, s) => Excluded(reads', s)
    BY <2>1 DEF Loose, Unchains, Excluded, CertainKeeps, Keeps
  <2>4. Harder(ForceOf(reads, s)) <= Harder(ForceOf(reads', s))
    <3>1. CASE Keeps(reads, s) # {}
      BY <3>1 DEF ForceOf, Harder
    <3>2. CASE Keeps(reads, s) = {}
      <4> DEFINE before == {r.effect : r \in Evicts(reads, s)}
                 after == {r.effect : r \in Evicts(reads', s)}
      <4>1. before \subseteq after
        BY <2>1
      <4>2. Keeps(reads', s) = {}
        BY <2>1, <3>2
      <4>3. /\ Harder("must") = 2 /\ Harder("prefer") = 1 /\ Harder("none") = 0 /\ Harder("spare") = 0
        BY DEF Harder
      <4>4. ForceOf(reads', s) \in {"none", "spare", "must", "prefer"}
        BY DEF ForceOf
      <4>5. CASE before = {} \/ series.standing[s] \in {"excluded", "protected"}
        <5>1. ForceOf(reads, s) \in {"none", "spare"}
          BY <3>2, <4>5 DEF ForceOf
        <5> QED BY <4>3, <4>4, <5>1
      <4>6. CASE ~(before = {} \/ series.standing[s] \in {"excluded", "protected"})
        <5>1. ForceOf(reads, s) = IF "must" \in before THEN "must" ELSE "prefer"
          BY <3>2, <4>6 DEF ForceOf
        <5>2. ForceOf(reads', s) = IF "must" \in after THEN "must" ELSE "prefer"
          BY <4>1, <4>2, <4>6 DEF ForceOf
        <5> QED BY <4>1, <4>3, <5>1, <5>2
      <4> QED BY <4>5, <4>6
    <3> QED BY <3>1, <3>2
  <2> QED BY <2>2, <2>3, <2>4
<1>2. RulesTypes /\ [RulesNext]_rulesVars => [Step]_rulesVars
  BY <1>1
<1> QED
  BY RulesTyped, <1>2, PTL DEF RulesSpec, MissingFactsKeep

-----------------------------------------------------------------------------
(***************************************************************************)
(* The torrents.  A pass deletes and removes by what it gathered, while    *)
(* downloads are imported, reach their goals and are dropped.              *)
(***************************************************************************)
Gathered == [step : {"act", "done"}, cards : SUBSET Title, tied : [Title -> SUBSET Torrent],
             deleted : SUBSET Title, gaveUp : SUBSET Torrent, held : SUBSET Title,
             sawLinks : SUBSET (Torrent \X Title), sawMet : SUBSET Torrent, sawSeeding : SUBSET Torrent]

(* A card the pass may still delete is on disk, and nothing was gathered    *)
(* before the pass read the library.                                        *)
PassTypes ==
    /\ inLibrary \subseteq Title
    /\ links \subseteq Torrent \X Title
    /\ seeding \subseteq Torrent /\ met \subseteq Torrent
    /\ known \in [Title -> SUBSET Torrent]
    /\ source \in [Title -> SUBSET Torrent]
    /\ pass # NoPass =>
         \/ pass \in [step : {"read"}, cards : SUBSET Title] /\ pass.cards \subseteq inLibrary
         \/ pass \in Gathered

(* A torrent tied to a card that may go either shares nothing with it, or   *)
(* goes with it: it holds no other card, and may go.                        *)
GoesOrShares ==
    At("act") =>
        /\ pass.deleted \subseteq pass.cards \ pass.held
        /\ \A c \in pass.cards \ pass.held : \A t \in pass.tied[c] :
              <<t, c>> \in pass.sawLinks =>
                  /\ rule.native /\ rule.removes /\ (t \in pass.sawMet \/ ~rule.respect)
                  /\ \A d \in Title : t \in pass.tied[d] => d = c

(* Where goals are respected, a card that may go has no torrent short of it. *)
GoalsMet ==
    At("act") /\ rule.respect =>
        \A c \in Title \ pass.held : \A t \in known[c] : t \in pass.sawSeeding => t \in pass.sawMet

TorrentInv == PassTypes /\ GoesOrShares /\ GoalsMet

LEMMA TorrentInitHolds == TorrentInit => TorrentInv
  BY DEF TorrentInit, TorrentInv, PassTypes, GoesOrShares, GoalsMet, At

LEMMA BeginHolds ==
  ASSUME TorrentInv, BeginPass
  PROVE  TorrentInv'
<1>1. pass' = [step |-> "read", cards |-> inLibrary] /\ UNCHANGED <<inLibrary, source, links, seeding, met>>
  BY DEF BeginPass, torrentWorld
<1>2. known' \in [Title -> SUBSET Torrent]
  BY DEF BeginPass, TorrentInv, PassTypes
<1> QED BY <1>1, <1>2 DEF TorrentInv, PassTypes, GoesOrShares, GoalsMet, At

(* What a card nothing holds shares with a torrent, goes with the card. *)
LEMMA GatherHolds ==
  ASSUME TorrentInv, Gather
  PROVE  TorrentInv'
<1>1. PICK failed \in {{}} \cup {{ClientOf[t]} : t \in Torrent}, unverified \in {{}, Torrent} :
        LET listed1 == {t \in seeding : ClientOf[t] \notin failed}
            tied == [c \in Title |-> TiedTo(listed1, c)]
        IN  pass' = [step |-> "act", cards |-> pass.cards, tied |-> tied, deleted |-> {}, gaveUp |-> {},
                     held |-> {c \in Title : UnreadableAt(listed1, failed, c) \/ HeldBy(tied, unverified, c)},
                     sawLinks |-> links, sawMet |-> met, sawSeeding |-> seeding]
  BY DEF Gather
<1> DEFINE open == {t \in seeding : ClientOf[t] \notin failed}
           tied == [c \in Title |-> TiedTo(open, c)]
           held == {c \in Title : UnreadableAt(open, failed, c) \/ HeldBy(tied, unverified, c)}
<1>2. pass' = [step |-> "act", cards |-> pass.cards, tied |-> tied, deleted |-> {}, gaveUp |-> {},
               held |-> held, sawLinks |-> links, sawMet |-> met, sawSeeding |-> seeding]
  BY <1>1
<1>3. /\ UNCHANGED <<inLibrary, source, links, seeding, met, known, rule>>
      /\ pass # NoPass /\ pass.step = "read" /\ pass.cards \subseteq inLibrary /\ inLibrary \subseteq Title
  BY DEF Gather, At, torrentWorld, TorrentInv, PassTypes, Gathered
<1>4. tied \in [Title -> SUBSET Torrent]
  BY DEF TiedTo, ByHistory, TorrentInv, PassTypes
<1> HIDE DEF tied, held
<1>5. PassTypes'
  BY <1>2, <1>3, <1>4 DEF Gathered, TorrentInv, PassTypes, held
<1>6. GoesOrShares'
  <2> SUFFICES ASSUME NEW c \in pass.cards \ held, NEW t \in tied[c], <<t, c>> \in links
               PROVE  /\ rule.native /\ rule.removes /\ (t \in met \/ ~rule.respect)
                      /\ \A d \in Title : t \in tied[d] => d = c
    BY <1>2, <1>3 DEF GoesOrShares, At
  <2>1. c \in Title /\ c \in inLibrary /\ ~HeldBy(tied, unverified, c)
    BY <1>3 DEF held
  <2>2. InFolder(t, c)
    BY <2>1 DEF InFolder
  <2>3. GoesAlong(tied, t)
    BY <2>1, <2>2 DEF HeldBy
  <2> DEFINE holds == {d \in Title : t \in tied[d]}
  <2>4. IsFiniteSet(holds) /\ Cardinality(holds) = 1
    BY <2>3, TorrentAssumption, FS_Subset DEF GoesAlong
  <2>5. PICK only : holds = {only}
    BY <2>4, FS_Singleton
  <2> QED BY <2>1, <2>3, <2>5 DEF GoesAlong, MayGo
<1>7. GoalsMet'
  <2> SUFFICES ASSUME rule.respect, NEW c \in Title \ held, NEW t \in known[c], t \in seeding
               PROVE  t \in met
    BY <1>2, <1>3 DEF GoalsMet, At
  <2>1. ~UnreadableAt(open, failed, c) /\ ~HeldBy(tied, unverified, c)
    BY DEF held
  <2>2. tied[c] \subseteq met
    BY <2>1 DEF HeldBy
  <2>3. t \in open
    BY <2>1 DEF UnreadableAt
  <2>4. t \in tied[c]
    BY <2>3 DEF tied, TiedTo, ByHistory
  <2> QED BY <2>2, <2>4
<1> QED BY <1>5, <1>6, <1>7 DEF TorrentInv

LEMMA TorrentNextHolds == TorrentInv /\ [TorrentNext]_torrentVars => TorrentInv'
<1> SUFFICES ASSUME TorrentInv, [TorrentNext]_torrentVars PROVE TorrentInv'
  OBVIOUS
<1> USE DEF TorrentInv
<1>1. CASE BeginPass
  BY <1>1, BeginHolds
<1>2. CASE Gather
  BY <1>2, GatherHolds
<1>3. ASSUME NEW c \in Title, Delete(c) PROVE TorrentInv'
  <2>1. /\ At("act") /\ pass \in Gathered /\ c \in pass.cards \ pass.held
        /\ pass' = [pass EXCEPT !.deleted = @ \cup {c}]
        /\ inLibrary' = inLibrary \ {c}
        /\ UNCHANGED <<source, links, seeding, met, known, rule>>
    BY <1>3 DEF Delete, At, PassTypes
  <2>2. pass' \in Gathered /\ pass'.deleted = pass.deleted \cup {c} /\ pass'.cards = pass.cards /\ pass'.held = pass.held
        /\ pass'.tied = pass.tied /\ pass'.sawLinks = pass.sawLinks /\ pass'.sawMet = pass.sawMet
        /\ pass'.sawSeeding = pass.sawSeeding
    BY <2>1 DEF Gathered
  <2>3. PassTypes'
    BY <2>1, <2>2 DEF PassTypes
  <2> QED BY <2>1, <2>2, <2>3 DEF GoesOrShares, GoalsMet, At
<1>4. CASE RemoveTorrents
  <2>1. PICK failed \in (IF rule.native THEN {{}} \cup {{t} : t \in Unneeded} ELSE {{}}) :
          /\ seeding' = IF rule.native THEN seeding \ (Unneeded \ failed) ELSE seeding
          /\ pass' = [pass EXCEPT !.step = "done", !.gaveUp = failed]
    BY <1>4 DEF RemoveTorrents
  <2>2. /\ pass \in Gathered /\ UNCHANGED <<inLibrary, source, links, met, known, rule>>
    BY <1>4 DEF RemoveTorrents, At, PassTypes
  <2>3. Unneeded \subseteq Torrent
    BY <2>2 DEF Unneeded, Gathered
  <2>4. pass' \in Gathered /\ pass'.step = "done"
    <3>1. failed \subseteq Torrent
      BY <2>1, <2>3
    <3> QED BY <2>1, <2>2, <3>1 DEF Gathered
  <2>5. PassTypes'
    BY <2>1, <2>2, <2>4 DEF PassTypes
  <2> QED BY <2>4, <2>5 DEF GoesOrShares, GoalsMet, At
<1>5. CASE SavePass \/ StopPass
  BY <1>5 DEF SavePass, StopPass, torrentWorld, PassTypes, GoesOrShares, GoalsMet, At
<1>6. CASE Import
  <2>1. PICK t \in Torrent, into \in (SUBSET Title) \ {{}}, replaces \in BOOLEAN, linked \in BOOLEAN :
          LET old == IF replaces THEN {l \in links : l[2] \in into} ELSE {}
          IN  /\ inLibrary' = inLibrary \cup into
              /\ source' = [c \in Title |-> IF c \notin into THEN source[c]
                                            ELSE IF replaces THEN {t} ELSE source[c] \cup {t}]
              /\ links' = (links \ old) \cup (IF linked THEN {t} \X into ELSE {})
              /\ seeding' = seeding \cup {t}
              /\ met' = IF t \in seeding THEN met ELSE met \ {t}
    BY <1>6 DEF Import
  <2>2. UNCHANGED <<known, rule, pass>>
    BY <1>6 DEF Import
  <2>3. PassTypes'
    BY <2>1, <2>2 DEF PassTypes
  <2> QED BY <2>2, <2>3 DEF GoesOrShares, GoalsMet, At
<1>7. CASE ReachesGoal \/ ClientDrops
  BY <1>7 DEF ReachesGoal, ClientDrops, PassTypes, GoesOrShares, GoalsMet, At
<1>8. CASE UNCHANGED torrentVars
  BY <1>8 DEF torrentVars, PassTypes, GoesOrShares, GoalsMet, At
<1> QED
  BY <1>1, <1>2, <1>3, <1>4, <1>5, <1>6, <1>7, <1>8 DEF TorrentNext

LEMMA TorrentsHold == TorrentSpec => []TorrentInv
  BY TorrentInitHolds, TorrentNextHolds, PTL DEF TorrentSpec

(* A delete frees what it counted (torrents.rs `goes`, `holds`,             *)
(* native/act.rs `remove_torrents`).                                        *)
THEOREM DeletesFreeHolds == TorrentSpec => DeletesFree
<1> DEFINE Step == RemoveTorrents =>
                     \A c \in pass.deleted : \A t \in pass.tied[c] :
                       <<t, c>> \in pass.sawLinks /\ t \in seeding' => t \in pass'.gaveUp
<1>1. ASSUME TorrentInv PROVE Step
  <2> SUFFICES ASSUME RemoveTorrents, NEW c \in pass.deleted, NEW t \in pass.tied[c],
                      <<t, c>> \in pass.sawLinks, t \in seeding'
               PROVE  t \in pass'.gaveUp
    OBVIOUS
  <2>1. At("act") /\ pass \in Gathered
    BY <1>1 DEF RemoveTorrents, At, TorrentInv, PassTypes
  <2>2. /\ rule.native /\ rule.removes /\ (t \in pass.sawMet \/ ~rule.respect)
        /\ \A d \in Title : t \in pass.tied[d] => d = c
    BY <1>1, <2>1 DEF TorrentInv, GoesOrShares
  <2>3. t \in Unneeded
    BY <2>2 DEF Unneeded
  <2>4. PICK failed \in {{}} \cup {{u} : u \in Unneeded} :
          /\ seeding' = seeding \ (Unneeded \ failed)
          /\ pass' = [pass EXCEPT !.step = "done", !.gaveUp = failed]
    BY <2>2 DEF RemoveTorrents
  <2>5. pass'.gaveUp = failed
    BY <2>1, <2>4 DEF Gathered
  <2> QED BY <2>3, <2>4, <2>5
<1>2. TorrentInv /\ [TorrentNext]_torrentVars => [Step]_torrentVars
  BY <1>1
<1> QED
  BY TorrentsHold, <1>2, PTL DEF TorrentSpec, DeletesFree

(* A torrent short of its goal keeps its card (torrents.rs `holds`). *)
THEOREM GoalsAreKeptHolds == TorrentSpec => GoalsAreKept
<1> DEFINE Step == \A c \in Title : Delete(c) /\ rule.respect =>
                     \A t \in known[c] : t \in pass.sawSeeding => t \in pass.sawMet
<1>1. ASSUME TorrentInv PROVE Step
  BY <1>1 DEF Delete, TorrentInv, GoalsMet
<1>2. TorrentInv /\ [TorrentNext]_torrentVars => [Step]_torrentVars
  BY <1>1
<1> QED
  BY TorrentsHold, <1>2, PTL DEF TorrentSpec, GoalsAreKept
=============================================================================
