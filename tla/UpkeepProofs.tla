----------------------------- MODULE UpkeepProofs ----------------------------
(***************************************************************************)
(* Theorems about what the daemon does besides deleting by the rules, for  *)
(* any lists, copies, formats, profiles and cards: it hands back only the  *)
(* lists it took, removes only the copies the operator chose, deletes only *)
(* formats it made, and does not undo the operator's own changes.  Each    *)
(* part writes from a plan made earlier than the writes, so each invariant *)
(* carries what held when the plan was made on to the step that acts.      *)
(***************************************************************************)
EXTENDS QualityActions, ProfileSync, Duplicates, InflowControl, TLAPS

-----------------------------------------------------------------------------
(* InflowControl. *)
Record == [unmonitored : SUBSET Show, off : SUBSET List]
Plans == [on : SUBSET List, off : SUBSET List, drop : SUBSET Show]
Conf == [enabled : BOOLEAN, approved : SUBSET Show, lists : SUBSET List]
Advice == [over : BOOLEAN, suggested : SUBSET Show]

WriteKinds == {"on", "off", "drop"}
Write == [kind : WriteKinds, of : List \cup Show, at : {"put", "confirm"}]

InflowTypes ==
    /\ inflowFile \in Record
    /\ inflowConf \in Conf
    /\ pressure \in Advice
    /\ autoAdd \in [List -> BOOLEAN]

(* What FLINCH takes for its own: what it did itself, and what the operator *)
(* did in the moment between its look and its write.                        *)
Taken == switchedOff \cup crossed

(* What FLINCH remembers of a list, on file or in a run, is its own.        *)
FileHonest == inflowFile.off \subseteq Taken

(* A list being switched off was on when FLINCH looked, and still is unless *)
(* the operator crossed it; once written, it is FLINCH's own.               *)
WriteHonest(ahead, write) ==
    /\ \A v, w \in write : v = w
    /\ \A w \in write :
         /\ w.of \in ahead[w.kind]
         /\ w.kind = "off" /\ w.at = "put" => autoAdd[w.of] \/ w.of \in crossed
         /\ w.kind = "off" /\ w.at = "confirm" => w.of \in Taken
RunHonest ==
    inflowRun # NoInflow =>
        /\ inflowRun \in [record : Record, todo : Plans, write : SUBSET Write]
        /\ inflowRun.record.off \subseteq Taken
        /\ inflowRun.todo.on \subseteq inflowRun.record.off
        /\ inflowRun.todo.drop \cap inflowFile.unmonitored = {}
        /\ WriteHonest(inflowRun.todo, inflowRun.write)

HonestInv == InflowTypes /\ FileHonest /\ RunHonest

(* The first plan is made from an empty record. *)
LEMMA HonestInit == InflowInit => HonestInv
  BY DEF InflowInit, HonestInv, InflowTypes, FileHonest, RunHonest, Record, Conf, Advice

(* A plan switches on only what its record holds off, and drops no season   *)
(* the file remembers.                                                      *)
LEMMA PlanFits ==
  ASSUME HonestInv, BeginInflow
  PROVE  HonestInv'
<1> DEFINE record == Kept(inflowFile, inflowConf)
           plan == InflowPlan(inflowConf, pressure, record)
<1>1. /\ record \in Record
      /\ record.off = inflowFile.off
      /\ record.unmonitored = inflowFile.unmonitored \cap inflowConf.approved
  BY DEF HonestInv, InflowTypes, Record, Conf, Kept
<1>2. /\ plan \in Plans
      /\ plan.on \subseteq record.off
      /\ plan.drop \subseteq inflowConf.approved \ record.unmonitored
  BY <1>1 DEF HonestInv, InflowTypes, Record, Conf, Advice, Plans, InflowPlan
<1>3. inflowRun' = [record |-> record, todo |-> plan, write |-> {}]
  BY DEF BeginInflow
<1>4. inflowRun'.todo.drop \cap inflowFile'.unmonitored = {}
  BY <1>1, <1>2, <1>3 DEF BeginInflow
<1> HIDE DEF record, plan
<1>5. WriteHonest(inflowRun.todo, inflowRun.write)'
  BY <1>3 DEF WriteHonest
<1>6. QED
  BY <1>1, <1>2, <1>3, <1>4, <1>5 DEF BeginInflow, HonestInv, InflowTypes, FileHonest, RunHonest, Taken, theirs, ghosts

(* An action that is over leaves the plan without it, no write under way,   *)
(* and a record that holds FLINCH's own and what is still to be restored.   *)
LEMMA OverHonest ==
  ASSUME HonestInv, inflowRun # NoInflow, NEW kind \in WriteKinds, NEW x, NEW record \in Record,
         Over(kind, x, record), UNCHANGED <<inflowFile, inflowConf, pressure>>,
         autoAdd' \in [List -> BOOLEAN], Taken \subseteq Taken',
         record.off \subseteq Taken', inflowRun.todo.on \ (IF kind = "on" THEN {x} ELSE {}) \subseteq record.off
  PROVE  HonestInv'
<1> DEFINE ahead == [inflowRun.todo EXCEPT ![kind] = @ \ {x}]
<1>1. /\ inflowRun.todo \in Plans /\ inflowRun.todo.drop \cap inflowFile.unmonitored = {}
  BY DEF HonestInv, RunHonest
<1>2. inflowRun.todo = [on |-> inflowRun.todo.on, off |-> inflowRun.todo.off, drop |-> inflowRun.todo.drop]
  BY <1>1 DEF Plans
<1>3. /\ ahead \in Plans /\ ahead.drop \subseteq inflowRun.todo.drop
      /\ ahead.on = inflowRun.todo.on \ (IF kind = "on" THEN {x} ELSE {})
  BY <1>1, <1>2 DEF Plans, WriteKinds
<1>4. inflowRun' = [record |-> record, write |-> {}, todo |-> ahead]
  BY DEF Over
<1> HIDE DEF ahead
<1>5. WriteHonest(inflowRun.todo, inflowRun.write)'
  BY <1>4 DEF WriteHonest
<1>6. RunHonest'
  BY <1>1, <1>3, <1>4, <1>5 DEF RunHonest
<1>7. InflowTypes' /\ FileHonest'
  BY DEF HonestInv, InflowTypes, FileHonest
<1> QED BY <1>6, <1>7 DEF HonestInv

LEMMA LookHonest ==
  ASSUME HonestInv, NEW kind \in WriteKinds, NEW x, Look(kind, x)
  PROVE  HonestInv'
<1> DEFINE record == inflowRun.record
           asked == LedgerAfter(record, kind, x, FALSE)
<1>1. /\ inflowRun \in [record : Record, todo : Plans, write : SUBSET Write]
      /\ record.off \subseteq Taken /\ inflowRun.todo.on \subseteq record.off /\ x \in inflowRun.todo[kind]
      /\ inflowRun.todo.drop \cap inflowFile.unmonitored = {} /\ inflowRun # NoInflow
      /\ UNCHANGED <<autoAdd, airing, inflowConf, pressure, inflowFile, switchedOff, crossed>>
  BY DEF HonestInv, RunHonest, Look, theirs, ghosts
<1>2. (kind = "drop" => x \in Show) /\ (kind # "drop" => x \in List)
  BY <1>1 DEF Plans, WriteKinds
<1>3. autoAdd' \in [List -> BOOLEAN] /\ Taken' = Taken
  BY <1>1 DEF HonestInv, InflowTypes, Taken
<1>4. record \in Record
  BY <1>1
<1>5. /\ asked \in Record
      /\ kind = "on" => asked.off = record.off \ {x}
      /\ kind # "on" => asked.off = record.off
  <2> HIDE DEF record
  <2>1. CASE kind = "on"
    BY <1>2, <1>4, <2>1 DEF LedgerAfter, Restored, Record
  <2>2. CASE kind = "off"
    BY <1>4, <2>2 DEF LedgerAfter, HeldOff
  <2>3. CASE kind = "drop"
    BY <1>2, <1>4, <2>3 DEF LedgerAfter, Unmonitored, Record
  <2> QED BY <2>1, <2>2, <2>3 DEF WriteKinds
<1>6. CASE Over(kind, x, record)
  BY <1>1, <1>3, <1>4, <1>6, OverHonest
<1>7. CASE Over(kind, x, asked)
  <2> HIDE DEF asked, record
  <2>1. inflowRun.todo.on \ (IF kind = "on" THEN {x} ELSE {}) \subseteq asked.off /\ asked.off \subseteq Taken'
    BY <1>1, <1>3, <1>5
  <2> QED BY <1>1, <1>3, <1>5, <1>7, <2>1, OverHonest
<1>8. CASE ~AsAsked(kind, x) /\ inflowRun' = [inflowRun EXCEPT !.write = {[kind |-> kind, of |-> x, at |-> "put"]}]
  <2> DEFINE w == [kind |-> kind, of |-> x, at |-> "put"]
  <2>1. w \in Write /\ w.kind = kind /\ w.of = x /\ w.at = "put"
    BY <1>2 DEF Write
  <2> HIDE DEF w
  <2>2. /\ inflowRun' \in [record : Record, todo : Plans, write : SUBSET Write]
        /\ inflowRun'.record = inflowRun.record /\ inflowRun'.todo = inflowRun.todo /\ inflowRun'.write = {w}
    BY <1>1, <1>8, <2>1 DEF w
  <2>3. kind = "off" => autoAdd'[x]
    BY <1>1, <1>8 DEF AsAsked
  <2>4. WriteHonest(inflowRun.todo, inflowRun.write)'
    BY <1>1, <2>1, <2>2, <2>3 DEF WriteHonest
  <2> QED BY <1>1, <1>3, <2>2, <2>4 DEF HonestInv, InflowTypes, FileHonest, RunHonest
<1> QED BY <1>6, <1>7, <1>8 DEF Look

(* What a write under way is of. *)
LEMMA WritingFits ==
  ASSUME HonestInv, NEW kind \in WriteKinds, NEW x, NEW at, Writing(kind, x, at)
  PROVE  /\ inflowRun \in [record : Record, todo : Plans, write : SUBSET Write] /\ inflowRun # NoInflow
         /\ inflowRun.record.off \subseteq Taken /\ inflowRun.todo.on \subseteq inflowRun.record.off
         /\ inflowRun.todo.drop \cap inflowFile.unmonitored = {} /\ x \in inflowRun.todo[kind]
         /\ (kind = "drop" => x \in Show) /\ (kind # "drop" => x \in List)
         /\ kind = "off" /\ at = "put" => autoAdd[x] \/ x \in crossed
         /\ kind = "off" /\ at = "confirm" => x \in Taken
<1>1. /\ inflowRun \in [record : Record, todo : Plans, write : SUBSET Write] /\ inflowRun # NoInflow
      /\ inflowRun.record.off \subseteq Taken /\ inflowRun.todo.on \subseteq inflowRun.record.off
      /\ inflowRun.todo.drop \cap inflowFile.unmonitored = {} /\ WriteHonest(inflowRun.todo, inflowRun.write)
  BY DEF HonestInv, RunHonest, Writing
<1> DEFINE w == [kind |-> kind, of |-> x, at |-> at]
<1>2. w \in inflowRun.write /\ w.kind = kind /\ w.of = x /\ w.at = at
  BY DEF Writing
<1> HIDE DEF w
<1>3. /\ x \in inflowRun.todo[kind]
      /\ kind = "off" /\ at = "put" => autoAdd[x] \/ x \in crossed
      /\ kind = "off" /\ at = "confirm" => x \in Taken
  BY <1>1, <1>2 DEF WriteHonest
<1>4. (kind = "drop" => x \in Show) /\ (kind # "drop" => x \in List)
  BY <1>1, <1>3 DEF Plans, WriteKinds
<1> QED BY <1>1, <1>3, <1>4

LEMMA PutHonest ==
  ASSUME HonestInv, NEW kind \in WriteKinds, NEW x, Put(kind, x)
  PROVE  HonestInv'
<1>1. Writing(kind, x, "put")
  BY DEF Put
<1>2. /\ inflowRun \in [record : Record, todo : Plans, write : SUBSET Write] /\ inflowRun # NoInflow
      /\ inflowRun.record.off \subseteq Taken /\ inflowRun.todo.on \subseteq inflowRun.record.off
      /\ inflowRun.todo.drop \cap inflowFile.unmonitored = {} /\ x \in inflowRun.todo[kind]
      /\ (kind = "drop" => x \in Show) /\ (kind # "drop" => x \in List)
      /\ kind = "off" => autoAdd[x] \/ x \in crossed
  BY <1>1, WritingFits
<1>3. UNCHANGED <<inflowConf, pressure, inflowFile>>
  BY DEF Put
<1>4. autoAdd \in [List -> BOOLEAN]
  BY DEF HonestInv, InflowTypes
<1>5. autoAdd' \in [List -> BOOLEAN] /\ Taken \subseteq Taken'
  BY <1>2, <1>4 DEF Put, Taken, theirs, ghosts
<1>6. CASE Over(kind, x, inflowRun.record)
  BY <1>2, <1>3, <1>5, <1>6, OverHonest
<1>7. CASE /\ inflowRun' = [inflowRun EXCEPT !.write = {[kind |-> kind, of |-> x, at |-> "confirm"]}]
           /\ switchedOff' = switchedOff \cup (IF kind = "off" /\ autoAdd[x] THEN {x} ELSE {})
  <2> DEFINE w == [kind |-> kind, of |-> x, at |-> "confirm"]
  <2>1. w \in Write /\ w.kind = kind /\ w.of = x /\ w.at = "confirm"
    BY <1>2 DEF Write
  <2> HIDE DEF w
  <2>2. /\ inflowRun' \in [record : Record, todo : Plans, write : SUBSET Write]
        /\ inflowRun'.record = inflowRun.record /\ inflowRun'.todo = inflowRun.todo /\ inflowRun'.write = {w}
    BY <1>2, <1>7, <2>1 DEF w
  <2>3. kind = "off" => x \in Taken'
    BY <1>2, <1>5, <1>7 DEF Taken
  <2>4. WriteHonest(inflowRun.todo, inflowRun.write)'
    BY <1>2, <2>1, <2>2, <2>3 DEF WriteHonest
  <2> QED BY <1>2, <1>3, <1>5, <2>2, <2>4 DEF HonestInv, InflowTypes, FileHonest, RunHonest
<1> QED BY <1>6, <1>7 DEF Put

LEMMA ConfirmHonest ==
  ASSUME HonestInv, NEW kind \in WriteKinds, NEW x, Confirm(kind, x)
  PROVE  HonestInv'
<1> DEFINE confirmed == LedgerAfter(inflowRun.record, kind, x, TRUE)
<1>1. Writing(kind, x, "confirm") /\ UNCHANGED <<autoAdd, inflowConf, pressure, inflowFile, switchedOff, crossed>>
  BY DEF Confirm, theirs, ghosts
<1>2. /\ inflowRun \in [record : Record, todo : Plans, write : SUBSET Write] /\ inflowRun # NoInflow
      /\ inflowRun.record.off \subseteq Taken /\ inflowRun.todo.on \subseteq inflowRun.record.off
      /\ (kind = "drop" => x \in Show) /\ (kind # "drop" => x \in List)
      /\ kind = "off" => x \in Taken
  BY <1>1, WritingFits
<1>3. autoAdd' \in [List -> BOOLEAN] /\ Taken' = Taken
  BY <1>1 DEF HonestInv, InflowTypes, Taken
<1>4. /\ confirmed \in Record
      /\ kind = "on" => confirmed.off = inflowRun.record.off \ {x}
      /\ kind = "off" => confirmed.off = inflowRun.record.off \cup {x}
      /\ kind = "drop" => confirmed.off = inflowRun.record.off
  <2>1. inflowRun.record \in Record
    BY <1>2
  <2>2. CASE kind = "on"
    BY <1>2, <2>1, <2>2 DEF LedgerAfter, Restored, Record
  <2>3. CASE kind = "off"
    BY <1>2, <2>1, <2>3 DEF LedgerAfter, HeldOff, Record
  <2>4. CASE kind = "drop"
    BY <1>2, <2>1, <2>4 DEF LedgerAfter, Unmonitored, Record
  <2> QED BY <2>2, <2>3, <2>4 DEF WriteKinds
<1>5. CASE Over(kind, x, inflowRun.record)
  BY <1>1, <1>2, <1>3, <1>5, OverHonest
<1>6. CASE Over(kind, x, confirmed)
  <2> HIDE DEF confirmed
  <2>1. inflowRun.todo.on \ (IF kind = "on" THEN {x} ELSE {}) \subseteq confirmed.off /\ confirmed.off \subseteq Taken'
    BY <1>2, <1>3, <1>4 DEF WriteKinds
  <2> QED BY <1>1, <1>2, <1>3, <1>4, <1>6, <2>1, OverHonest
<1> QED BY <1>5, <1>6 DEF Confirm

(* A list the operator switches stays FLINCH's only while FLINCH holds it,  *)
(* and becomes so in the moment between FLINCH's look and its write.        *)
LEMMA OperatorHonest ==
  ASSUME HonestInv, OperatorSwitches
  PROVE  HonestInv'
<1>1. UNCHANGED <<inflowConf, pressure, inflowFile, inflowRun>>
  BY DEF OperatorSwitches
<1>2. CASE UNCHANGED <<autoAdd, ghosts>>
  BY <1>1, <1>2 DEF ghosts, HonestInv, InflowTypes, FileHonest, RunHonest, WriteHonest, Taken
<1>3. CASE \E l \in List : /\ autoAdd' = [autoAdd EXCEPT ![l] = ~@]
                           /\ switchedOff' = IF Holds(l) THEN switchedOff ELSE switchedOff \ {l}
                           /\ crossed' = CASE Writes(l, "put") -> crossed \cup {l}
                                           [] ~Writes(l, "put") /\ Holds(l) -> crossed
                                           [] OTHER -> crossed \ {l}
  <2>1. PICK l \in List : /\ autoAdd' = [autoAdd EXCEPT ![l] = ~@]
                          /\ switchedOff' = IF Holds(l) THEN switchedOff ELSE switchedOff \ {l}
                          /\ crossed' = CASE Writes(l, "put") -> crossed \cup {l}
                                          [] ~Writes(l, "put") /\ Holds(l) -> crossed
                                          [] OTHER -> crossed \ {l}
    BY <1>3
  <2>2. InflowTypes'
    BY <1>1, <2>1 DEF HonestInv, InflowTypes
  <2>3. \A k \in Taken : k # l \/ Holds(l) => k \in Taken'
    BY <2>1 DEF Taken
  <2>4. FileHonest'
    BY <1>1, <2>3 DEF HonestInv, FileHonest, Holds
  <2>5. ASSUME inflowRun # NoInflow PROVE inflowRun.record.off \subseteq Taken'
    BY <2>3, <2>5 DEF HonestInv, RunHonest, Holds
  <2>6. ASSUME inflowRun # NoInflow, NEW w \in inflowRun.write
        PROVE  /\ w.of \in inflowRun.todo[w.kind]
               /\ w.kind = "off" /\ w.at = "put" => autoAdd'[w.of] \/ w.of \in crossed'
               /\ w.kind = "off" /\ w.at = "confirm" => w.of \in Taken'
    <3>1. /\ inflowRun \in [record : Record, todo : Plans, write : SUBSET Write]
          /\ \A v \in inflowRun.write : v = w
          /\ w.of \in inflowRun.todo[w.kind]
          /\ w.kind = "off" /\ w.at = "put" => autoAdd[w.of] \/ w.of \in crossed
          /\ w.kind = "off" /\ w.at = "confirm" => w.of \in Taken
      BY <2>6 DEF HonestInv, RunHonest, WriteHonest
    <3>2. inflowRun.write = {w} /\ w \in Write
      BY <2>6, <3>1
    <3>3. inflowRun.write = {[kind |-> w.kind, of |-> w.of, at |-> w.at]}
      BY <3>2 DEF Write
    <3>4. w.kind = "off" => Writes(w.of, w.at)
      BY <2>6, <3>3 DEF Writes, Writing
    <3>5. ASSUME w.kind = "off", w.at = "put" PROVE autoAdd'[w.of] \/ w.of \in crossed'
      <4>1. CASE w.of = l
        BY <2>1, <3>4, <3>5, <4>1
      <4>2. CASE w.of # l
        <5>1. w.of \in List
          BY <3>1, <3>5 DEF Plans
        <5>2. crossed \ {l} \subseteq crossed'
          BY <2>1
        <5>3. autoAdd'[w.of] = autoAdd[w.of]
          BY <2>1, <4>2, <5>1 DEF HonestInv, InflowTypes
        <5> QED BY <3>1, <3>5, <4>2, <5>2, <5>3
      <4> QED BY <4>1, <4>2
    <3>6. ASSUME w.kind = "off", w.at = "confirm" PROVE w.of \in Taken'
      BY <2>3, <3>1, <3>4, <3>6 DEF Holds
    <3> QED BY <3>1, <3>5, <3>6
  <2>7. inflowRun # NoInflow => WriteHonest(inflowRun.todo, inflowRun.write)'
    BY <1>1, <2>6 DEF HonestInv, RunHonest, WriteHonest
  <2>8. RunHonest'
    BY <1>1, <2>5, <2>7 DEF HonestInv, RunHonest
  <2> QED BY <2>2, <2>4, <2>8 DEF HonestInv
<1> QED BY <1>2, <1>3 DEF OperatorSwitches

LEMMA HonestNext == HonestInv /\ [InflowNext]_inflowVars => HonestInv'
<1> SUFFICES ASSUME HonestInv, [InflowNext]_inflowVars PROVE HonestInv'
  OBVIOUS
<1>1. CASE BeginInflow
  BY <1>1, PlanFits
<1>2. CASE SaveInflow
  BY <1>2 DEF SaveInflow, HonestInv, InflowTypes, FileHonest, RunHonest, Taken, theirs, ghosts
<1>3. CASE StopInflow
  BY <1>3 DEF StopInflow, HonestInv, InflowTypes, FileHonest, RunHonest, Taken, theirs, ghosts
<1>4. CASE \E kind \in {"on", "off"}, l \in List : Look(kind, l) \/ Put(kind, l) \/ Confirm(kind, l)
  BY <1>4, LookHonest, PutHonest, ConfirmHonest DEF WriteKinds
<1>5. CASE \E s \in Show : Look("drop", s) \/ Put("drop", s) \/ Confirm("drop", s)
  BY <1>5, LookHonest, PutHonest, ConfirmHonest DEF WriteKinds
<1>6. CASE OperatorSwitches
  BY <1>6, OperatorHonest
<1>7. CASE SetInflow
  BY <1>7 DEF SetInflow, HonestInv, InflowTypes, FileHonest, RunHonest, Conf, Taken, theirs, ghosts
<1>8. CASE DisksMove
  BY <1>8 DEF DisksMove, HonestInv, InflowTypes, FileHonest, RunHonest, Advice, Taken, theirs, ghosts
<1>9. CASE UNCHANGED inflowVars
  BY <1>9 DEF inflowVars, theirs, HonestInv, InflowTypes, FileHonest, RunHonest, WriteHonest, Taken
<1> QED
  BY <1>1, <1>2, <1>3, <1>4, <1>5, <1>6, <1>7, <1>8, <1>9 DEF InflowNext

(* What FLINCH takes for its own it switched off itself, or the operator    *)
(* did between its look and its write: in the file, in a run under way, in  *)
(* what that run still plans and in the write it makes (inflow/act.rs).     *)
THEOREM InflowHonest == InflowSpec => []HonestInv
  BY HonestInit, HonestNext, PTL DEF InflowSpec

(* A list FLINCH switches on is one it switched off, or that the operator   *)
(* switched off while it did; and seasons monitored again are left alone    *)
(* while the record remembers them (inflow/act.rs:10).                      *)
THEOREM HandsBackItsOwnHolds == InflowSpec => HandsBackItsOwn
<1> DEFINE Step == /\ \A l \in List : Put("on", l) /\ autoAdd'[l] # autoAdd[l] => l \in switchedOff \cup crossed
                   /\ \A s \in Show : Put("drop", s) /\ airing'[s] # airing[s] => s \notin inflowFile.unmonitored
<1>1. HonestInv => Step
  <2> SUFFICES ASSUME HonestInv PROVE Step
    OBVIOUS
  <2>1. ASSUME NEW l \in List, Put("on", l) PROVE l \in switchedOff \cup crossed
    BY <2>1, WritingFits DEF Put, Taken, WriteKinds
  <2>2. ASSUME NEW s \in Show, Put("drop", s) PROVE s \notin inflowFile.unmonitored
    BY <2>2, WritingFits DEF Put, WriteKinds
  <2> QED BY <2>1, <2>2
<1>2. HonestInv /\ [InflowNext]_inflowVars => [Step]_inflowVars
  BY <1>1
<1> QED
  BY InflowHonest, <1>2, PTL DEF InflowSpec, HandsBackItsOwn

-----------------------------------------------------------------------------
(* Duplicates. *)
Tracks == [Radarr -> File \cup {NoFile}]
TrackedOnce == \A r, s \in Radarr : r # s /\ tracked[r] # NoFile => tracked[r] # tracked[s]

Grouped == cleanup # NoCleanup /\ cleanup.step \in {"found", "act"}
GroupFields == {"step", "at", "copies", "owner", "held", "choice", "read", "saw", "log", "budget", "todo"}
(* What a cycle removes was worked out from the group it found, and that     *)
(* group from what the Radarrs it read tracked then.                        *)
GroupFits ==
    /\ DOMAIN cleanup = GroupFields
    /\ cleanup.read \subseteq Radarr /\ cleanup.saw \in Tracks
    /\ cleanup.copies \subseteq Media
    /\ cleanup.copies # {} =>
          /\ cleanup.owner = [m \in cleanup.copies |-> OwnerOf(cleanup.read, cleanup.saw, m)]
          /\ cleanup.held = Unmatched(cleanup.copies, cleanup.read, cleanup.saw)
    /\ \A m \in cleanup.todo :
          /\ m \in cleanup.copies /\ ~cleanup.held
          /\ Confirmed(cleanup.choice, cleanup.copies)
          /\ cleanup.owner[m] # NoFile => cleanup.owner[cleanup.choice.keep] \notin {NoFile, cleanup.owner[m]}

CopiesInv ==
    /\ onDisk \subseteq File /\ plexLists \subseteq Media /\ tracked \in Tracks /\ TrackedOnce
    /\ cleanup # NoCleanup /\ cleanup.step = "read" => cleanup.listed \subseteq Media
    /\ Grouped => GroupFits

LEMMA CopiesStart == DuplicatesInit => CopiesInv
<1> SUFFICES ASSUME DuplicatesInit PROVE CopiesInv
  OBVIOUS
<1>1. onDisk \subseteq File
  BY DuplicatesAssumption DEF DuplicatesInit
<1> QED BY <1>1 DEF DuplicatesInit, CopiesInv, Tracks, TrackedOnce, Grouped

LEMMA FindFits ==
  ASSUME CopiesInv, Find
  PROVE  CopiesInv'
<1>1. PICK read \in SUBSET Radarr :
        LET many == Cardinality(cleanup.listed) > 1
            copies == IF many THEN CopiesOf(cleanup.listed, read, tracked) ELSE {}
        IN  cleanup' = [step |-> "found", at |-> cleanup.at,
                        copies |-> IF Cardinality(copies) > 1 THEN copies ELSE {},
                        owner |-> [m \in copies |-> OwnerOf(read, tracked, m)],
                        held |-> Unmatched(copies, read, tracked),
                        choice |-> decision, read |-> read, saw |-> tracked,
                        log |-> {}, budget |-> MaxPerRun, todo |-> {}]
  <2>1. \A read \in {Radarr} \cup (IF turns < MaxTurns THEN SUBSET Radarr ELSE {}) : read \in SUBSET Radarr
    OBVIOUS
  <2> QED BY <2>1 DEF Find
<1> DEFINE many == Cardinality(cleanup.listed) > 1
           copies == IF many THEN CopiesOf(cleanup.listed, read, tracked) ELSE {}
           owner == [m \in copies |-> OwnerOf(read, tracked, m)]
           held == Unmatched(copies, read, tracked)
           some == IF Cardinality(copies) > 1 THEN copies ELSE {}
<1>2. UNCHANGED <<onDisk, plexLists, tracked>> /\ cleanup.listed \subseteq Media
  BY DEF Find, copyVars, CopiesInv
<1>3. copies \subseteq Media /\ some \subseteq copies /\ (some # {} => some = copies)
  BY <1>2 DEF CopiesOf
<1> HIDE DEF copies
<1>4. cleanup' = [step |-> "found", at |-> cleanup.at, copies |-> some, owner |-> owner, held |-> held,
                  choice |-> decision, read |-> read, saw |-> tracked, log |-> {}, budget |-> MaxPerRun, todo |-> {}]
  BY <1>1 DEF copies
<1> HIDE DEF some, owner, held
<1>5. /\ cleanup'.step = "found" /\ DOMAIN cleanup' = GroupFields
      /\ cleanup'.copies = some /\ cleanup'.owner = owner /\ cleanup'.held = held
      /\ cleanup'.read = read /\ cleanup'.saw = tracked /\ cleanup'.todo = {}
  BY <1>4 DEF GroupFields
<1>6. GroupFits'
  BY <1>2, <1>3, <1>5 DEF GroupFits, CopiesInv, owner, held
<1> QED BY <1>2, <1>5, <1>6 DEF CopiesInv, TrackedOnce

LEMMA ActFits ==
  ASSUME CopiesInv, Act
  PROVE  CopiesInv'
<1> DEFINE todo2 == Removals(cleanup, pinned)
<1>1. cleanup' = [cleanup EXCEPT !.step = "act", !.log = actedLog, !.todo = todo2] /\ GroupFits
      /\ UNCHANGED <<onDisk, plexLists, tracked>>
  BY DEF Act, CopiesInv, Grouped, copyVars
<1>2. \A m \in todo2 :
        /\ m \in cleanup.copies /\ ~cleanup.held /\ Confirmed(cleanup.choice, cleanup.copies)
        /\ cleanup.owner[m] # NoFile => cleanup.owner[cleanup.choice.keep] \notin {NoFile, cleanup.owner[m]}
  BY DEF Removals, Refused
<1> HIDE DEF todo2
<1>3. /\ cleanup'.step = "act" /\ DOMAIN cleanup' = GroupFields /\ cleanup'.todo = todo2
      /\ cleanup'.copies = cleanup.copies /\ cleanup'.owner = cleanup.owner /\ cleanup'.held = cleanup.held
      /\ cleanup'.read = cleanup.read /\ cleanup'.saw = cleanup.saw /\ cleanup'.choice = cleanup.choice
  BY <1>1 DEF GroupFits, GroupFields
<1>4. GroupFits'
  BY <1>1, <1>2, <1>3 DEF GroupFits
<1> QED BY <1>1, <1>3, <1>4 DEF CopiesInv, TrackedOnce

(* One copy less to remove. *)
LEMMA NotedFits ==
  ASSUME CopiesInv, Grouped, NEW copy, NEW outcome, cleanup' = Noted(copy, outcome)
  PROVE  GroupFits' /\ (cleanup # NoCleanup /\ cleanup.step = "read" => cleanup.listed \subseteq Media)'
<1> DEFINE log2 == cleanup.log \cup {[copy |-> copy, outcome |-> outcome, at |-> cleanup.at]}
           todo2 == IF outcome = "failed" THEN {} ELSE cleanup.todo \ {copy}
           budget2 == cleanup.budget - 1
<1>1. cleanup' = [cleanup EXCEPT !.budget = budget2, !.log = log2, !.todo = todo2] /\ GroupFits
  BY DEF Noted, CopiesInv
<1>2. todo2 \subseteq cleanup.todo
  OBVIOUS
<1> HIDE DEF log2, todo2, budget2
<1>3. /\ cleanup'.step = cleanup.step /\ DOMAIN cleanup' = GroupFields /\ cleanup'.todo = todo2
      /\ cleanup'.copies = cleanup.copies /\ cleanup'.owner = cleanup.owner /\ cleanup'.held = cleanup.held
      /\ cleanup'.read = cleanup.read /\ cleanup'.saw = cleanup.saw /\ cleanup'.choice = cleanup.choice
  BY <1>1 DEF GroupFits, GroupFields
<1>4. GroupFits'
  BY <1>1, <1>2, <1>3 DEF GroupFits
<1> QED BY <1>3, <1>4 DEF Grouped

LEMMA CopiesStep == CopiesInv /\ [DuplicatesNext]_dupeVars => CopiesInv'
<1> SUFFICES ASSUME CopiesInv, [DuplicatesNext]_dupeVars PROVE CopiesInv'
  OBVIOUS
<1>1. CASE Find
  BY <1>1, FindFits
<1>2. CASE Act
  BY <1>2, ActFits
<1>3. CASE Choose \/ Clear \/ PinOrUnpin \/ UNCHANGED dupeVars
  BY <1>3 DEF Choose, Clear, PinOrUnpin, dupeVars, copyVars, CopiesInv, TrackedOnce, Grouped, GroupFits
<1>4. CASE BeginCleanup
  <2>1. cleanup'.step = "read" /\ cleanup'.listed = plexLists /\ UNCHANGED <<onDisk, plexLists, tracked>>
    BY <1>4 DEF BeginCleanup, copyVars
  <2> QED BY <2>1 DEF CopiesInv, TrackedOnce, Grouped
<1>5. CASE Publish \/ CutShort
  BY <1>5 DEF Publish, CutShort, copyVars, CopiesInv, TrackedOnce, Grouped
<1>6. ASSUME NEW m \in Media, NotRemoved(m) PROVE CopiesInv'
  <2>1. Grouped /\ cleanup' = Noted(m, "failed") /\ UNCHANGED <<onDisk, plexLists, tracked>>
    BY <1>6 DEF NotRemoved, Reaches, Acting, Grouped, copyVars
  <2> QED BY <2>1, NotedFits DEF CopiesInv, TrackedOnce
<1>7. ASSUME NEW m \in Media, RemoveCopy(m) PROVE CopiesInv'
  <2>1. Grouped /\ (cleanup' = Noted(m, "removed") \/ cleanup' = Noted(m, "failed"))
    BY <1>7 DEF RemoveCopy, Reaches, Acting, Grouped
  <2>2. onDisk' \subseteq onDisk /\ plexLists' \subseteq plexLists
        /\ (tracked' = tracked \/ \E r : tracked' = [tracked EXCEPT ![r] = NoFile])
    BY <1>7 DEF RemoveCopy
  <2>3. tracked' \in Tracks /\ TrackedOnce'
    BY <2>2 DEF CopiesInv, Tracks, TrackedOnce
  <2> QED BY <2>1, <2>2, <2>3, NotedFits DEF CopiesInv
<1>8. CASE Scan
  <2>1. plexLists' \subseteq Media /\ UNCHANGED <<onDisk, tracked, cleanup>>
    BY <1>8 DEF Scan
  <2> QED BY <2>1 DEF CopiesInv, TrackedOnce, Grouped, GroupFits
<1>9. CASE Retrack
  <2>1. UNCHANGED <<onDisk, plexLists, cleanup>>
    BY <1>9 DEF Retrack
  <2>2. tracked' \in Tracks /\ TrackedOnce'
    BY <1>9 DEF Retrack, CopiesInv, Tracks, TrackedOnce
  <2> QED BY <2>1, <2>2 DEF CopiesInv, Grouped, GroupFits
<1> QED BY <1>1, <1>2, <1>3, <1>4, <1>5, <1>6, <1>7, <1>8, <1>9 DEF DuplicatesNext

(* A cycle's removals fit the group it found, and no file has two Radarrs.   *)
THEOREM CopiesInvHolds == DuplicatesSpec => []CopiesInv
<1> QED BY CopiesStart, CopiesStep, PTL DEF DuplicatesSpec

LEMMA OwnerTracks ==
  ASSUME NEW read, NEW at, NEW m, OwnerOf(read, at, m) # NoFile
  PROVE  /\ OwnerOf(read, at, m) \in read /\ at[OwnerOf(read, at, m)] = FileOf[m]
         /\ m \notin Renamed
BY DEF OwnerOf

LEMMA RemovalIsChosen ==
  ASSUME CopiesInv, NEW m \in Media, RemoveCopy(m)
  PROVE  /\ cleanup.choice.confirmed /\ m \in cleanup.choice.copies
         /\ \A r \in Radarr : tracked[r] \in onDisk \ onDisk' =>
              \/ cleanup.owner[m] = r /\ cleanup.owner[Keep] \notin {NoFile, r}
              \/ Unknown(r)
              \/ \E n \in cleanup.copies \ {m} : FileOf[n] = FileOf[m]
<1>1. GroupFits /\ m \in cleanup.todo
  BY DEF CopiesInv, RemoveCopy, Reaches, Acting, Grouped
<1>2. cleanup.choice.confirmed /\ m \in cleanup.choice.copies
  BY <1>1 DEF GroupFits, Confirmed, Matches
<1>3. /\ m \in cleanup.copies /\ cleanup.copies \subseteq Media
      /\ cleanup.owner[m] = OwnerOf(cleanup.read, cleanup.saw, m)
      /\ ~Unmatched(cleanup.copies, cleanup.read, cleanup.saw)
      /\ cleanup.read \subseteq Radarr
      /\ cleanup.owner[m] # NoFile => cleanup.owner[Keep] \notin {NoFile, cleanup.owner[m]}
  BY <1>1 DEF GroupFits, Keep
<1>4. NoFile \notin File /\ NoFile \notin Radarr /\ FileOf[m] \in File
  BY DuplicatesAssumption
<1>5. ASSUME NEW r \in Radarr, tracked[r] \in onDisk \ onDisk', ~Unknown(r)
      PROVE  \/ cleanup.owner[m] = r /\ cleanup.owner[Keep] \notin {NoFile, r}
             \/ \E n \in cleanup.copies \ {m} : FileOf[n] = FileOf[m]
  <2>1. CASE cleanup.owner[m] = NoFile
    <3>1. tracked[r] = FileOf[m]
      BY <1>5, <2>1 DEF RemoveCopy
    <3>2. r \in cleanup.read /\ cleanup.saw[r] = FileOf[m]
      BY <1>5, <3>1 DEF Unknown
    <3>3. r \in {OwnerOf(cleanup.read, cleanup.saw, n) : n \in cleanup.copies}
      BY <1>3, <1>4, <3>2 DEF Unmatched
    <3>4. PICK n \in cleanup.copies : r = OwnerOf(cleanup.read, cleanup.saw, n)
      BY <3>3
    <3>5. cleanup.saw[r] = FileOf[n]
      BY <1>4, <3>4, OwnerTracks
    <3>6. n # m
      BY <1>3, <1>4, <2>1, <3>4
    <3> QED BY <3>2, <3>4, <3>5, <3>6
  <2>2. CASE cleanup.owner[m] # NoFile
    <3> DEFINE o == cleanup.owner[m]
    <3>1. o \in Radarr
      BY <1>3, <2>2, OwnerTracks
    <3>2. onDisk' = onDisk \ {tracked[o]}
      BY <2>2 DEF RemoveCopy
    <3> HIDE DEF o
    <3>3. tracked[r] = tracked[o] /\ tracked[r] # NoFile
      BY <1>4, <1>5, <3>2 DEF CopiesInv
    <3>4. r = o
      BY <3>1, <3>3 DEF CopiesInv, TrackedOnce
    <3> QED BY <1>3, <2>2, <3>4 DEF o
  <2> QED BY <2>1, <2>2
<1> QED BY <1>2, <1>5

(* A removal takes one of the copies the operator was shown when confirming, *)
(* and a file a Radarr tracks only through that Radarr, while another holds  *)
(* the kept copy, for any copies, mounts, Radarrs and orders of steps; but   *)
(* for a Radarr the cycle could not read or that took the file over since,   *)
(* and a file that is two copies (dupes/group.rs:5-7, remove.rs).            *)
THEOREM OnlyTheChosenGoHolds == DuplicatesSpec => OnlyTheChosenGo
<1>1. CopiesInv /\ [DuplicatesNext]_dupeVars
      => [ \A m \in Media : Deleted(m) =>
              /\ cleanup.choice.confirmed /\ m \in cleanup.choice.copies
              /\ \A r \in Radarr : tracked[r] \in onDisk \ onDisk' =>
                   \/ cleanup.owner[m] = r /\ cleanup.owner[Keep] \notin {NoFile, r}
                   \/ Unknown(r)
                   \/ \E n \in cleanup.copies \ {m} : FileOf[n] = FileOf[m] ]_dupeVars
  BY RemovalIsChosen DEF Deleted
<1> QED BY <1>1, CopiesInvHolds, PTL DEF DuplicatesSpec, OnlyTheChosenGo

-----------------------------------------------------------------------------
(* ProfileSync. *)
FormatFields == {"id", "name", "body", "by"}
ProfileFields == {"id", "name", "body", "scores", "by", "used"}
RunFields == {"counted", "owned", "config", "todo", "preview", "asked", "all", "wrote", "calm", "known", "ids"}

(* Ids are given once: every object's is behind the counter, and no two     *)
(* profiles share one.                                                      *)
ObjectsFit ==
    /\ nextId \in Nat
    /\ \A f \in formats : DOMAIN f = FormatFields /\ f.id \in Nat /\ f.id < nextId
    /\ \A p \in profiles : DOMAIN p = ProfileFields /\ p.id \in Nat /\ p.id < nextId
    /\ \A p, q \in profiles : p.id = q.id => p = q

(* A format under this id, if there is one, is FLINCH's; there never will   *)
(* be another's.                                                            *)
Flinchs(id) == id \in Nat /\ id < nextId /\ \A f \in formats : f.id = id => f.by = "flinch"

(* A format's deletion was asked for by the settings, or is of FLINCH's     *)
(* own; a profile's was picked by the operator.                             *)
MayGo(job) ==
    /\ job.kind = "delete format" => run.config.others \/ Flinchs(job.at)
    /\ job.kind = "delete profile" => job.key = job.at /\ IdOf(job) \in run.asked

SyncInv ==
    /\ ObjectsFit
    /\ DOMAIN syncFile = {"owned", "preview"}
    /\ \A m \in syncFile.owned : Flinchs(m.id)
    /\ run # NoRun =>
        /\ DOMAIN run = RunFields
        /\ \A m \in run.owned : Flinchs(m.id)
        /\ \A job \in run.todo : MayGo(job)

(* A step creates objects under new ids only, and a format that stays under *)
(* its id stays who made it.                                                *)
Tracked ==
    /\ nextId' \in Nat /\ nextId' >= nextId
    /\ \A f \in formats' : f.id >= nextId \/ \E g \in formats : g.id = f.id /\ g.by = f.by

LEMMA FlinchsStays ==
  ASSUME NEW id, nextId \in Nat, Tracked, Flinchs(id), \A f \in formats' : f.id \in Nat
  PROVE  Flinchs(id)'
<1>1. id \in Nat /\ id < nextId /\ id < nextId'
  BY DEF Flinchs, Tracked
<1>2. ASSUME NEW f \in formats', f.id = id PROVE f.by = "flinch"
  <2>1. PICK g \in formats : g.id = f.id /\ g.by = f.by
    BY <1>1, <1>2 DEF Tracked
  <2>2. QED
    BY <1>2, <2>1 DEF Flinchs
<1>3. QED
  BY <1>1, <1>2 DEF Flinchs

LEMMA SyncStart == TrashInit => SyncInv
<1> SUFFICES ASSUME TrashInit PROVE SyncInv
  OBVIOUS
<1>1. ObjectsFit
  <2>1. \A f \in formats : DOMAIN f = FormatFields /\ f.id = 1
    BY DEF TrashInit, FormatFields
  <2>2. /\ \A p \in profiles : DOMAIN p = ProfileFields /\ p.id = 2
        /\ \A p, q \in profiles : p = q
    <3>1. CASE profiles = {}
      BY <3>1
    <3>2. CASE profiles = {[id |-> 2, name |-> "other", body |-> Own, scores |-> {}, by |-> "operator", used |-> FALSE]}
      BY <3>2 DEF ProfileFields
    <3>3. QED
      BY <3>1, <3>2 DEF TrashInit
  <2>3. QED
    BY <2>1, <2>2 DEF ObjectsFit, TrashInit
<1>2. QED
  BY <1>1 DEF TrashInit, SyncInv

(* What a run takes on, it may do. *)
LEMMA StartFits ==
  ASSUME SyncInv, Start
  PROVE  SyncInv'
<1>1. PICK counted :
        LET owned == Forgotten(Live(counted), syncFile.owned)
            first == Preview(Live(counted), owned, config)
        IN  run' = [counted |-> counted, owned |-> owned, config |-> config, todo |-> Picked(first),
                    preview |-> {IdOf(c) : c \in first}, asked |-> request, all |-> Picked(first) = All(first),
                    wrote |-> FALSE, calm |-> TRUE, known |-> Ids(formats),
                    ids |-> {[key |-> t, id |-> Match(formats, owned, t)] : t \in config.wanted}]
  BY Zenon DEF Start
<1> DEFINE live == Live(counted)
           owned == Forgotten(live, syncFile.owned)
           first == Preview(live, owned, config)
           picked == Picked(first)
<1>2. /\ run'.owned = owned /\ run'.config = config /\ run'.todo = picked /\ run'.asked = request
      /\ DOMAIN run' = RunFields
  BY <1>1 DEF RunFields
<1>3. UNCHANGED <<formats, profiles, nextId, syncFile>>
  BY DEF Start, app
<1>4. \A id : Flinchs(id)' <=> Flinchs(id)
  BY <1>3 DEF Flinchs
<1>5. owned \subseteq syncFile.owned
  BY DEF Forgotten
<1>6. \A m \in owned : Flinchs(m.id)
  BY <1>5 DEF SyncInv
<1>7. ASSUME NEW job \in picked PROVE MayGo(job)'
  <2>1. job \in first
    BY DEF Picked, All
  <2>2. job.kind = "delete profile" => IdOf(job) \in request
    BY DEF Picked, All
  <2> HIDE DEF live, picked
  <2> DEFINE wanted == IF config.profile THEN config.wanted ELSE {}
  <2>3. \/ job \in FormatChanges(live, owned, wanted)
        \/ job \in ProfileChanges(live, owned, wanted)
        \/ job \in SizeChanges(live)
        \/ job \in FormatDeletions(live, owned, wanted, config.others)
        \/ job \in Unused(live, owned, config)
    BY <2>1 DEF Preview
  <2> HIDE DEF wanted, first, owned
  <2>4. CASE job \in FormatChanges(live, owned, wanted)
    <3>1. job.kind = "format"
      BY <2>4 DEF FormatChanges, Change
    <3>2. QED
      BY <3>1 DEF MayGo
  <2>5. CASE job \in ProfileChanges(live, owned, wanted)
    <3>1. job.kind = "profile"
      BY <2>5 DEF ProfileChanges, Change
    <3>2. QED
      BY <3>1 DEF MayGo
  <2>6. CASE job \in SizeChanges(live)
    <3>1. job.kind = "sizes"
      BY <2>6 DEF SizeChanges, Change
    <3>2. QED
      BY <3>1 DEF MayGo
  <2>7. CASE job \in FormatDeletions(live, owned, wanted, config.others)
    <3>1. /\ job.kind = "delete format"
          /\ config.others \/ job.at \in Ids(owned)
      <4>1. PICK f : /\ job = Change("delete format", f.id, f.id)
                     /\ config.others \/ f.id \in Ids(owned)
        BY <2>7, Zenon DEF FormatDeletions
      <4>2. QED
        BY <4>1 DEF Change
    <3>2. config.others \/ Flinchs(job.at)
      BY <3>1, <1>6 DEF Ids
    <3>3. QED
      BY <3>1, <3>2, <1>2, <1>4 DEF MayGo
  <2>8. CASE job \in Unused(live, owned, config)
    <3>1. job.kind = "delete profile" /\ job.key = job.at
      <4>1. PICK q : job = Change("delete profile", q.id, q.id)
        BY <2>8, Zenon DEF Unused
      <4>2. QED
        BY <4>1 DEF Change
    <3>2. QED
      BY <3>1, <2>2, <1>2 DEF MayGo, IdOf
  <2>9. QED
    BY <2>3, <2>4, <2>5, <2>6, <2>7, <2>8
<1>8. ObjectsFit'
  BY <1>3 DEF SyncInv, ObjectsFit
<1> HIDE DEF live, owned, first, picked
<1>9. QED
  BY <1>2, <1>3, <1>4, <1>6, <1>7, <1>8 DEF SyncInv

(* What a write leaves of the run: fewer jobs, and no more on record than   *)
(* what it created.                                                         *)
LEMMA WroteFits ==
  ASSUME SyncInv, NEW job \in run.todo, NEW outcome, NEW upd, run # NoRun,
         DOMAIN upd = RunFields, upd.todo = run.todo, upd.asked = run.asked, upd.config = run.config,
         Wrote(job, outcome, upd), Tracked, ObjectsFit',
         \A m \in upd.owned : Flinchs(m.id)'
  PROVE  /\ DOMAIN run' = RunFields
         /\ \A m \in run'.owned : Flinchs(m.id)'
         /\ \A j \in run'.todo : MayGo(j)'
<1>1. DOMAIN run = RunFields /\ \A j \in run.todo : MayGo(j)
  BY DEF SyncInv
<1>2. /\ DOMAIN run' = RunFields
      /\ run'.todo \subseteq run.todo
      /\ run'.asked = run.asked
      /\ run'.config = run.config
      /\ run'.owned = upd.owned \/ run'.owned = run.owned
  BY <1>1 DEF Wrote, RunFields
<1>3. nextId \in Nat /\ \A f \in formats' : f.id \in Nat
  BY DEF SyncInv, ObjectsFit
<1>4. \A m \in run.owned : Flinchs(m.id)'
  BY <1>3, FlinchsStays DEF SyncInv
<1>5. ASSUME NEW j \in run'.todo PROVE MayGo(j)'
  <2>1. MayGo(j)
    BY <1>1, <1>2, <1>5
  <2>2. Flinchs(j.at) => Flinchs(j.at)'
    BY <1>3, FlinchsStays
  <2>3. QED
    BY <1>2, <2>1, <2>2 DEF MayGo
<1>6. QED
  BY <1>2, <1>4, <1>5

(* The rest of the invariant when the record on file is left alone. *)
LEMMA FileStays ==
  ASSUME SyncInv, Tracked, ObjectsFit', syncFile' = syncFile
  PROVE  /\ DOMAIN syncFile' = {"owned", "preview"}
         /\ \A m \in syncFile'.owned : Flinchs(m.id)'
<1>1. nextId \in Nat /\ \A f \in formats' : f.id \in Nat
  BY DEF SyncInv, ObjectsFit
<1>2. QED
  BY <1>1, FlinchsStays DEF SyncInv

(* A run nobody's write touches keeps its jobs; the operator only disturbs  *)
(* it.                                                                      *)
LEMMA DisturbedFits ==
  ASSUME SyncInv, Tracked, ObjectsFit', syncFile' = syncFile, Disturbed
  PROVE  SyncInv'
<1>1. nextId \in Nat /\ \A f \in formats' : f.id \in Nat
  BY DEF SyncInv, ObjectsFit
<1>2. ASSUME run # NoRun
      PROVE  /\ DOMAIN run' = RunFields
             /\ run'.todo = run.todo /\ run'.asked = run.asked /\ run'.config = run.config /\ run'.owned = run.owned
  BY <1>2 DEF Disturbed, Idle, SyncInv, RunFields
<1>3. run = NoRun => run' = NoRun
  BY DEF Disturbed, Idle
<1>4. ASSUME run' # NoRun
      PROVE  /\ DOMAIN run' = RunFields
             /\ \A m \in run'.owned : Flinchs(m.id)'
             /\ \A j \in run'.todo : MayGo(j)'
  <2>1. \A m \in run.owned : Flinchs(m.id)'
    BY <1>1, <1>3, <1>4, FlinchsStays DEF SyncInv
  <2>2. ASSUME NEW j \in run.todo PROVE MayGo(j)'
    <3>1. MayGo(j)
      BY <1>3, <1>4 DEF SyncInv
    <3>2. Flinchs(j.at) => Flinchs(j.at)'
      BY <1>1, FlinchsStays
    <3>3. QED
      BY <1>2, <1>3, <1>4, <3>1, <3>2 DEF MayGo
  <2>3. QED
    BY <1>2, <1>3, <1>4, <2>1, <2>2
<1>5. QED
  BY <1>4, FileStays DEF SyncInv

(* With(objects, id) is one of the objects, under that id. *)
LEMMA WithIs ==
  ASSUME NEW objects, NEW id, id \in Ids(objects)
  PROVE  With(objects, id) \in objects /\ With(objects, id).id = id
  BY DEF Ids, With

(* A format is written under a new id, or over the one that had it.         *)
LEMMA FormatTracked ==
  ASSUME SyncInv, NEW job, NEW outcome,
         LET new == job.at = Nobody
             id == IF new THEN nextId ELSE job.at
             by == IF new THEN "flinch" ELSE With(formats, id).by
         IN  /\ outcome # "refused" => new \/ id \in Ids(formats)
             /\ formats' = IF outcome = "refused" THEN formats
                           ELSE {f \in formats : f.id # id} \cup {[id |-> id, name |-> job.key, body |-> job.key, by |-> by]}
             /\ nextId' = IF new /\ outcome # "refused" THEN nextId + 1 ELSE nextId,
         profiles' = profiles
  PROVE  Tracked /\ ObjectsFit'
<1> DEFINE new == job.at = Nobody
           id == IF new THEN nextId ELSE job.at
           by == IF new THEN "flinch" ELSE With(formats, id).by
           made == [id |-> id, name |-> job.key, body |-> job.key, by |-> by]
<1>1. ObjectsFit
  BY DEF SyncInv
<1>2. CASE outcome = "refused"
  BY <1>1, <1>2 DEF ObjectsFit, Tracked
<1>3. CASE outcome # "refused"
  <2>1. formats' = {f \in formats : f.id # id} \cup {made}
    BY <1>3
  <2>2. DOMAIN made = FormatFields /\ made.id = id /\ made.by = by
    BY DEF FormatFields
  <2>3. CASE new
    <3>1. id = nextId /\ nextId' = nextId + 1
      BY <1>3, <2>3
    <3> HIDE DEF made, id, new, by
    <3>2. QED
      BY <1>1, <2>1, <2>2, <3>1 DEF ObjectsFit, Tracked
  <2>4. CASE ~new
    <3>1. id \in Ids(formats) /\ nextId' = nextId /\ by = With(formats, id).by
      BY <1>3, <2>4
    <3>2. PICK g \in formats : g.id = id /\ g.by = by
      BY <3>1, WithIs
    <3> HIDE DEF made, id, new, by
    <3>3. QED
      BY <1>1, <2>1, <2>2, <3>1, <3>2 DEF ObjectsFit, Tracked
  <2>5. QED
    BY <2>3, <2>4
<1>4. QED
  BY <1>2, <1>3

LEMMA ProfileTracked ==
  ASSUME SyncInv, NEW job, NEW outcome, NEW scores,
         LET new == job.at = Nobody
             id == IF new THEN nextId ELSE job.at
             was == IF new THEN [by |-> "flinch", used |-> FALSE] ELSE With(profiles, id)
             body == [id |-> id, name |-> Synced, body |-> Synced, scores |-> scores, by |-> was.by, used |-> was.used]
         IN  /\ outcome # "refused" => new \/ id \in Ids(profiles)
             /\ profiles' = IF outcome = "refused" THEN profiles ELSE {p \in profiles : p.id # id} \cup {body}
             /\ nextId' = IF new /\ outcome # "refused" THEN nextId + 1 ELSE nextId,
         formats' = formats
  PROVE  Tracked /\ ObjectsFit'
<1> DEFINE new == job.at = Nobody
           id == IF new THEN nextId ELSE job.at
           was == IF new THEN [by |-> "flinch", used |-> FALSE] ELSE With(profiles, id)
           body == [id |-> id, name |-> Synced, body |-> Synced, scores |-> scores, by |-> was.by, used |-> was.used]
<1>1. ObjectsFit
  BY DEF SyncInv
<1>2. CASE outcome = "refused"
  BY <1>1, <1>2 DEF ObjectsFit, Tracked
<1>3. CASE outcome # "refused"
  <2>1. profiles' = {p \in profiles : p.id # id} \cup {body}
    BY <1>3
  <2>2. DOMAIN body = ProfileFields /\ body.id = id
    BY DEF ProfileFields
  <2>3. id \in Nat /\ id < nextId' /\ nextId' \in Nat /\ nextId' >= nextId
    <3>1. CASE new
      BY <1>1, <1>3, <3>1 DEF ObjectsFit
    <3>2. CASE ~new
      <4>1. id \in Ids(profiles) /\ nextId' = nextId
        BY <1>3, <3>2
      <4> HIDE DEF id, new
      <4>2. QED
        BY <1>1, <4>1 DEF ObjectsFit, Ids
    <3>3. QED
      BY <3>1, <3>2
  <2> HIDE DEF body, was, id, new
  <2>4. \A p \in profiles' : p = body \/ (p \in profiles /\ p.id # id)
    BY <2>1
  <2>5. Tracked
    BY <1>1, <2>3 DEF ObjectsFit, Tracked
  <2>6. \A p \in profiles' : DOMAIN p = ProfileFields /\ p.id \in Nat /\ p.id < nextId'
    <3>1. nextId \in Nat /\ \A p \in profiles : DOMAIN p = ProfileFields /\ p.id \in Nat /\ p.id < nextId
      BY <1>1 DEF ObjectsFit
    <3>2. \A n \in Nat : n < nextId => n < nextId'
      BY <2>3, <3>1
    <3>3. QED
      BY <2>2, <2>3, <2>4, <3>1, <3>2
  <2>7. \A p, q \in profiles' : p.id = q.id => p = q
    BY <1>1, <2>2, <2>4 DEF ObjectsFit
  <2>8. \A f \in formats' : DOMAIN f = FormatFields /\ f.id \in Nat /\ f.id < nextId'
    BY <1>1, <2>3 DEF ObjectsFit
  <2>9. QED
    BY <2>3, <2>5, <2>6, <2>7, <2>8 DEF ObjectsFit
<1>4. QED
  BY <1>2, <1>3

(* What a write may add to the record is what it created.                   *)
LEMMA CreatedFits ==
  ASSUME SyncInv, run # NoRun, Tracked, ObjectsFit', NEW key, NEW id, NEW at,
         at = Nobody => Flinchs(id)'
  PROVE  \A m \in Created(run.owned, key, id, at) : Flinchs(m.id)'
<1>1. nextId \in Nat /\ \A f \in formats' : f.id \in Nat
  BY DEF SyncInv, ObjectsFit
<1>2. \A m \in run.owned : Flinchs(m.id)'
  BY <1>1, FlinchsStays DEF SyncInv
<1>3. \A m \in Created(run.owned, key, id, at) : m \in run.owned \/ (at = Nobody /\ m.id = id)
  BY DEF Created, Without
<1>4. QED
  BY <1>2, <1>3

LEMMA FormatWritten ==
  ASSUME SyncInv, NEW job \in run.todo, WriteFormat(job)
  PROVE  SyncInv'
<1> DEFINE new == job.at = Nobody
           id == IF new THEN nextId ELSE job.at
           ok == Free(formats, job.key, id) /\ (new \/ id \in Ids(formats))
           by == IF new THEN "flinch" ELSE With(formats, id).by
           upd == [run EXCEPT !.owned = Created(@, job.key, id, job.at), !.known = @ \cup {id},
                              !.ids = Without(@, job.key) \cup {[key |-> job.key, id |-> id]}]
<1>1. PICK outcome \in Outcome(ok) :
        /\ formats' = IF outcome = "refused" THEN formats
                      ELSE {f \in formats : f.id # id} \cup {[id |-> id, name |-> job.key, body |-> job.key, by |-> by]}
        /\ nextId' = IF new /\ outcome # "refused" THEN nextId + 1 ELSE nextId
        /\ Wrote(job, outcome, upd)
  BY Zenon DEF WriteFormat
<1>2. run # NoRun /\ DOMAIN run = RunFields
  BY DEF WriteFormat, Takes, Idle, SyncInv
<1>3. outcome # "refused" => new \/ id \in Ids(formats)
  BY <1>1 DEF Outcome
<1>4. profiles' = profiles /\ syncFile' = syncFile
  BY DEF WriteFormat
<1>5. Tracked /\ ObjectsFit'
  BY <1>1, <1>3, <1>4, FormatTracked
<1>6. /\ DOMAIN upd = RunFields
      /\ upd.todo = run.todo /\ upd.asked = run.asked /\ upd.config = run.config
      /\ upd.owned = Created(run.owned, job.key, id, job.at)
  BY <1>2 DEF RunFields
<1>7. CASE outcome = "refused"
  <2>1. run' = [run EXCEPT !.todo = @ \ {job}, !.calm = FALSE]
    BY <1>1, <1>7 DEF Wrote
  <2>2. Wrote(job, outcome, run)
    BY <1>7, <2>1 DEF Wrote
  <2>3. \A m \in run.owned : Flinchs(m.id)'
    <3>1. nextId \in Nat /\ \A f \in formats' : f.id \in Nat
      BY <1>5 DEF SyncInv, ObjectsFit
    <3>2. QED
      BY <1>2, <1>5, <3>1, FlinchsStays DEF SyncInv
  <2>4. QED
    BY <1>2, <1>4, <1>5, <2>2, <2>3, WroteFits, FileStays DEF SyncInv
<1>8. CASE outcome # "refused"
  <2>0. PICK i : i = id
    OBVIOUS
  <2>1. job.at = Nobody => Flinchs(i)'
    <3> SUFFICES ASSUME new PROVE Flinchs(i)'
      OBVIOUS
    <3>1. id = nextId /\ nextId' = nextId + 1 /\ nextId \in Nat
      BY <1>1, <1>8 DEF SyncInv, ObjectsFit
    <3>2. \A f \in formats' : f.id = id => f.by = "flinch"
      BY <1>1, <1>8
    <3> HIDE DEF id, new
    <3>3. QED
      BY <2>0, <3>1, <3>2 DEF Flinchs
  <2> HIDE DEF id, new, ok, by, upd
  <2>2. \A m \in upd.owned : Flinchs(m.id)'
    BY <1>2, <1>5, <1>6, <2>0, <2>1, CreatedFits
  <2>3. QED
    BY <1>1, <1>2, <1>4, <1>5, <1>6, <2>2, WroteFits, FileStays DEF SyncInv
<1>9. QED
  BY <1>7, <1>8

LEMMA ProfileWritten ==
  ASSUME SyncInv, NEW job \in run.todo, WriteProfile(job)
  PROVE  SyncInv'
<1> DEFINE new == job.at = Nobody
           id == IF new THEN nextId ELSE job.at
           ok == /\ Free(profiles, Synced, id) /\ (new \/ id \in Ids(profiles))
                 /\ run.known = Ids(formats)
           was == IF new THEN [by |-> "flinch", used |-> FALSE] ELSE With(profiles, id)
           body == [id |-> id, name |-> Synced, body |-> Synced,
                    scores |-> {m.id : m \in run.ids} \ {Nobody}, by |-> was.by, used |-> was.used]
           upd == [run EXCEPT !.owned = Created(@, Synced, id, job.at)]
<1>1. PICK outcome \in Outcome(ok) :
        /\ profiles' = IF outcome = "refused" THEN profiles ELSE {p \in profiles : p.id # id} \cup {body}
        /\ nextId' = IF new /\ outcome # "refused" THEN nextId + 1 ELSE nextId
        /\ Wrote(job, outcome, upd)
  BY Zenon DEF WriteProfile
<1>2. run # NoRun /\ DOMAIN run = RunFields
  BY DEF WriteProfile, Takes, Idle, SyncInv
<1>3. outcome # "refused" => new \/ id \in Ids(profiles)
  BY <1>1 DEF Outcome
<1>4. formats' = formats /\ syncFile' = syncFile
  BY DEF WriteProfile
<1>5. Tracked /\ ObjectsFit'
  BY <1>1, <1>3, <1>4, ProfileTracked
<1>6. /\ DOMAIN upd = RunFields
      /\ upd.todo = run.todo /\ upd.asked = run.asked /\ upd.config = run.config
      /\ upd.owned = Created(run.owned, Synced, id, job.at)
  BY <1>2 DEF RunFields
<1>7. CASE outcome = "refused"
  <2>1. run' = [run EXCEPT !.todo = @ \ {job}, !.calm = FALSE]
    BY <1>1, <1>7 DEF Wrote
  <2>2. Wrote(job, outcome, run)
    BY <1>7, <2>1 DEF Wrote
  <2>3. \A m \in run.owned : Flinchs(m.id)'
    <3>1. nextId \in Nat /\ \A f \in formats' : f.id \in Nat
      BY <1>5 DEF SyncInv, ObjectsFit
    <3>2. QED
      BY <1>2, <1>5, <3>1, FlinchsStays DEF SyncInv
  <2>4. QED
    BY <1>2, <1>4, <1>5, <2>2, <2>3, WroteFits, FileStays DEF SyncInv
<1>8. CASE outcome # "refused"
  <2>0. PICK i : i = id
    OBVIOUS
  <2>1. job.at = Nobody => Flinchs(i)'
    <3> SUFFICES ASSUME new PROVE Flinchs(i)'
      OBVIOUS
    <3>1. id = nextId /\ nextId' = nextId + 1
      BY <1>1, <1>8
    <3> HIDE DEF id, new
    <3>2. QED
      BY <1>4, <2>0, <3>1 DEF Flinchs, SyncInv, ObjectsFit
  <2> HIDE DEF id, new, ok, was, body, upd
  <2>2. \A m \in upd.owned : Flinchs(m.id)'
    BY <1>2, <1>5, <1>6, <2>0, <2>1, CreatedFits
  <2>3. QED
    BY <1>1, <1>2, <1>4, <1>5, <1>6, <2>2, WroteFits, FileStays DEF SyncInv
<1>9. QED
  BY <1>7, <1>8

(* A write that leaves the formats that stay as they were.                  *)
LEMMA PlainWritten ==
  ASSUME SyncInv, NEW job \in run.todo, NEW outcome, NEW upd, run # NoRun,
         DOMAIN upd = RunFields, upd.todo = run.todo, upd.asked = run.asked, upd.config = run.config,
         upd.owned \subseteq run.owned,
         Wrote(job, outcome, upd), Tracked, ObjectsFit', syncFile' = syncFile
  PROVE  SyncInv'
<1>1. nextId \in Nat /\ \A f \in formats' : f.id \in Nat
  BY DEF SyncInv, ObjectsFit
<1>2. \A m \in upd.owned : Flinchs(m.id)'
  BY <1>1, FlinchsStays DEF SyncInv
<1>3. QED
  BY <1>2, WroteFits, FileStays DEF SyncInv

LEMMA DroppedFits ==
  ASSUME SyncInv, run # NoRun, NEW id
  PROVE  /\ DOMAIN Dropped(id) = RunFields
         /\ Dropped(id).todo = run.todo /\ Dropped(id).asked = run.asked /\ Dropped(id).config = run.config
         /\ Dropped(id).owned \subseteq run.owned
  BY DEF SyncInv, Dropped, RunFields

LEMMA SizesWritten ==
  ASSUME SyncInv, NEW job \in run.todo, WriteSizes(job)
  PROVE  SyncInv'
<1>1. PICK outcome : Wrote(job, outcome, run)
  BY DEF WriteSizes
<1>2. run # NoRun /\ DOMAIN run = RunFields
  BY DEF WriteSizes, Takes, Idle, SyncInv
<1>3. UNCHANGED <<formats, profiles, nextId, syncFile>>
  BY DEF WriteSizes
<1>4. Tracked /\ ObjectsFit'
  BY <1>3 DEF SyncInv, ObjectsFit, Tracked
<1>5. QED
  BY <1>1, <1>2, <1>3, <1>4, PlainWritten

(* A deleted format leaves the profiles' scores, not their names.           *)
LEMMA ScoresDropped ==
  ASSUME NEW p, NEW scores, DOMAIN p = ProfileFields
  PROVE  LET q == [p EXCEPT !.scores = scores]
         IN  DOMAIN q = ProfileFields /\ q.id = p.id /\ q.used = p.used
  BY DEF ProfileFields

(* An object rewritten under its own id fits as it did. *)
LEMMA Rewritten ==
  ASSUME ObjectsFit, nextId' = nextId,
         \A f \in formats' : DOMAIN f = FormatFields /\ \E g \in formats : g.id = f.id /\ g.by = f.by,
         \A p \in profiles' : DOMAIN p = ProfileFields /\ \E q \in profiles : q.id = p.id,
         \A p, q \in profiles' : p.id = q.id => p = q
  PROVE  Tracked /\ ObjectsFit'
  BY DEF ObjectsFit, Tracked

LEMMA RescoredFits ==
  ASSUME ObjectsFit, NEW rewritten,
         profiles' = {rewritten[p] : p \in profiles},
         \A p \in profiles : DOMAIN rewritten[p] = ProfileFields /\ rewritten[p].id = p.id
  PROVE  /\ \A p \in profiles' : DOMAIN p = ProfileFields /\ \E q \in profiles : q.id = p.id
         /\ \A p, q \in profiles' : p.id = q.id => p = q
<1>1. \A r \in profiles' : \E p \in profiles : r = rewritten[p]
  OBVIOUS
<1>2. ASSUME NEW r \in profiles', NEW s \in profiles', r.id = s.id PROVE r = s
  <2>1. PICK p \in profiles : r = rewritten[p]
    BY <1>1
  <2>2. PICK q \in profiles : s = rewritten[q]
    BY <1>1
  <2>3. p.id = q.id
    BY <1>2, <2>1, <2>2
  <2>4. p = q
    BY <2>3 DEF ObjectsFit
  <2>5. QED
    BY <2>1, <2>2, <2>4
<1>3. \A r \in profiles' : DOMAIN r = ProfileFields /\ \E q \in profiles : q.id = r.id
  BY <1>1
<1>4. QED
  BY <1>2, <1>3

LEMMA FormatDeleted ==
  ASSUME SyncInv, NEW job \in run.todo, DeleteFormat(job)
  PROVE  SyncInv'
<1>1. PICK outcome :
        /\ IF outcome = "refused" THEN UNCHANGED <<formats, profiles>>
           ELSE /\ formats' = {f \in formats : f.id # job.at}
                /\ profiles' = {[p EXCEPT !.scores = @ \ {job.at}] : p \in profiles}
        /\ Wrote(job, outcome, Dropped(job.at))
  BY DEF DeleteFormat
<1>2. run # NoRun /\ DOMAIN run = RunFields /\ ObjectsFit
  BY DEF DeleteFormat, Takes, Idle, SyncInv
<1>3. nextId' = nextId /\ syncFile' = syncFile
  BY DEF DeleteFormat
<1>4. Tracked /\ ObjectsFit'
  <2>1. CASE outcome = "refused"
    BY <1>1, <1>2, <1>3, <2>1 DEF ObjectsFit, Tracked
  <2>2. CASE outcome # "refused"
    <3> DEFINE rewritten == [p \in profiles |-> [p EXCEPT !.scores = @ \ {job.at}]]
    <3>1. profiles' = {rewritten[p] : p \in profiles}
      BY <1>1, <2>2
    <3>2. \A p \in profiles : DOMAIN rewritten[p] = ProfileFields /\ rewritten[p].id = p.id
      BY <1>2, ScoresDropped DEF ObjectsFit
    <3> HIDE DEF rewritten
    <3>3. /\ \A p \in profiles' : DOMAIN p = ProfileFields /\ \E q \in profiles : q.id = p.id
          /\ \A p, q \in profiles' : p.id = q.id => p = q
      BY <1>2, <3>1, <3>2, RescoredFits
    <3>4. \A f \in formats' : DOMAIN f = FormatFields /\ \E g \in formats : g.id = f.id /\ g.by = f.by
      BY <1>1, <1>2, <2>2 DEF ObjectsFit
    <3>5. QED
      BY <1>2, <1>3, <3>3, <3>4, Rewritten
  <2>3. QED
    BY <2>1, <2>2
<1>5. QED
  BY <1>1, <1>2, <1>3, <1>4, DroppedFits, PlainWritten

LEMMA ProfileDeleted ==
  ASSUME SyncInv, NEW job \in run.todo, DeleteProfile(job)
  PROVE  SyncInv'
<1>1. PICK outcome :
        /\ profiles' = IF outcome = "refused" THEN profiles ELSE {p \in profiles : p.id # job.at}
        /\ Wrote(job, outcome, Dropped(job.at))
  BY DEF DeleteProfile
<1>2. run # NoRun /\ DOMAIN run = RunFields /\ ObjectsFit
  BY DEF DeleteProfile, Takes, Idle, SyncInv
<1>3. formats' = formats /\ nextId' = nextId /\ syncFile' = syncFile
  BY DEF DeleteProfile
<1>4. Tracked /\ ObjectsFit'
  BY <1>1, <1>2, <1>3 DEF ObjectsFit, Tracked
<1>5. QED
  BY <1>1, <1>2, <1>3, <1>4, DroppedFits, PlainWritten

(* The operator's own format has a new id. *)
LEMMA OperatorMakes ==
  ASSUME SyncInv, MakeFormat
  PROVE  SyncInv'
<1>1. PICK t \in Guide :
        formats' = formats \cup {[id |-> nextId, name |-> t, body |-> Own, by |-> "operator"]}
  BY DEF MakeFormat
<1>2. nextId' = nextId + 1 /\ profiles' = profiles /\ syncFile' = syncFile /\ Disturbed
  BY DEF MakeFormat
<1>3. Tracked /\ ObjectsFit'
  <2> DEFINE made == [id |-> nextId, name |-> t, body |-> Own, by |-> "operator"]
  <2>1. DOMAIN made = FormatFields /\ made.id = nextId
    BY DEF FormatFields
  <2>2. formats' = formats \cup {made}
    BY <1>1
  <2> HIDE DEF made
  <2>3. QED
    BY <1>2, <2>1, <2>2 DEF SyncInv, ObjectsFit, Tracked
<1>4. QED
  BY <1>2, <1>3, DisturbedFits

(* The operator deletes a format, or leaves another under its id, with a    *)
(* name of its own.                                                         *)
Edited(f, g) ==
    /\ DOMAIN g = FormatFields /\ g.id = f.id /\ g.by = f.by
    /\ g.name = f.name \/ Named(formats, g.name) = {}

LEMMA FormatEdited ==
  ASSUME ObjectsFit, EditFormat
  PROVE  \E f \in formats : \E changed :
           /\ formats' = (formats \ {f}) \cup changed
           /\ changed = {} \/ \E g : changed = {g} /\ Edited(f, g)
<1>1. PICK f \in formats : \E changed \in {{}, {[f EXCEPT !.body = Own]}} \cup Renamings(f) :
        formats' = (formats \ {f}) \cup changed
  BY Zenon DEF EditFormat
<1>2. PICK changed \in {{}, {[f EXCEPT !.body = Own]}} \cup Renamings(f) : formats' = (formats \ {f}) \cup changed
  BY Zenon, <1>1
<1>3. DOMAIN f = FormatFields
  BY DEF ObjectsFit
<1>4. CASE changed \in Renamings(f)
  <2>1. PICK name \in {n \in Guide \cup {Own} : Named(formats, n) = {}} : changed = {[f EXCEPT !.name = name]}
    BY <1>4, Zenon DEF Renamings
  <2>2. PICK g : g = [f EXCEPT !.name = name]
    OBVIOUS
  <2>3. DOMAIN g = FormatFields /\ g.id = f.id /\ g.by = f.by /\ g.name = name
    BY <1>3, <2>2 DEF FormatFields
  <2>4. QED
    BY <1>2, <2>1, <2>2, <2>3 DEF Edited
<1>5. CASE changed = {[f EXCEPT !.body = Own]}
  <2>1. PICK g : g = [f EXCEPT !.body = Own]
    OBVIOUS
  <2>2. DOMAIN g = FormatFields /\ g.id = f.id /\ g.by = f.by /\ g.name = f.name
    BY <1>3, <2>1 DEF FormatFields
  <2>3. QED
    BY <1>2, <1>5, <2>1, <2>2 DEF Edited
<1>6. CASE changed = {}
  BY <1>2, <1>6
<1>7. QED
  BY <1>2, <1>4, <1>5, <1>6

LEMMA OperatorEditsFormat ==
  ASSUME SyncInv, EditFormat
  PROVE  SyncInv'
<1>1. nextId' = nextId /\ syncFile' = syncFile /\ Disturbed /\ ObjectsFit
  BY DEF EditFormat, SyncInv
<1>2. PICK f \in formats : \E changed :
           /\ formats' = (formats \ {f}) \cup changed
           /\ changed = {} \/ \E g : changed = {g} /\ Edited(f, g)
  BY <1>1, FormatEdited
<1>3. \A g \in formats' : DOMAIN g = FormatFields /\ \E h \in formats : h.id = g.id /\ h.by = g.by
  BY <1>1, <1>2 DEF ObjectsFit, Edited
<1>4. /\ \A p \in profiles' : DOMAIN p = ProfileFields /\ \E q \in profiles : q.id = p.id
      /\ \A p, q \in profiles' : p.id = q.id => p = q
  <2>1. PICK ids : ids = Ids(formats')
    OBVIOUS
  <2> DEFINE rewritten == [p \in profiles |-> [p EXCEPT !.scores = @ \cap ids]]
  <2>2. profiles' = {rewritten[p] : p \in profiles}
    BY <2>1 DEF EditFormat
  <2>3. \A p \in profiles : DOMAIN rewritten[p] = ProfileFields /\ rewritten[p].id = p.id
    BY <1>1, ScoresDropped DEF ObjectsFit
  <2> HIDE DEF rewritten
  <2>4. QED
    BY <1>1, <2>2, <2>3, RescoredFits
<1>5. QED
  BY <1>1, <1>3, <1>4, Rewritten, DisturbedFits

LEMMA OperatorEditsProfile ==
  ASSUME SyncInv, EditProfile
  PROVE  SyncInv'
<1>0. PICK p \in profiles :
        \E q \in {[p EXCEPT !.used = ~@], [p EXCEPT !.body = Own], [p EXCEPT !.scores = Ids(formats)]} :
            profiles' = (profiles \ {p}) \cup {q}
  BY Zenon DEF EditProfile
<1>1. PICK q \in {[p EXCEPT !.used = ~@], [p EXCEPT !.body = Own], [p EXCEPT !.scores = Ids(formats)]} :
        profiles' = (profiles \ {p}) \cup {q}
  BY Zenon, <1>0
<1>2. formats' = formats /\ nextId' = nextId /\ syncFile' = syncFile /\ Disturbed /\ ObjectsFit
  BY DEF EditProfile, SyncInv
<1>3. DOMAIN q = ProfileFields /\ q.id = p.id
  BY <1>2 DEF ObjectsFit, ProfileFields
<1>4. \A r \in profiles' : r = q \/ (r \in profiles /\ r.id # q.id)
  BY <1>1, <1>2, <1>3 DEF ObjectsFit
<1>5. /\ \A r \in profiles' : DOMAIN r = ProfileFields /\ \E s \in profiles : s.id = r.id
      /\ \A r, s \in profiles' : r.id = s.id => r = s
  BY <1>2, <1>3, <1>4 DEF ObjectsFit
<1>6. \A f \in formats' : DOMAIN f = FormatFields /\ \E g \in formats : g.id = f.id /\ g.by = f.by
  BY <1>2 DEF ObjectsFit
<1>7. QED
  BY <1>2, <1>5, <1>6, Rewritten, DisturbedFits

LEMMA SyncStep == SyncInv /\ [TrashNext]_trashVars => SyncInv'
<1> SUFFICES ASSUME SyncInv, [TrashNext]_trashVars PROVE SyncInv'
  OBVIOUS
<1> DEFINE Still == /\ UNCHANGED <<formats, profiles, nextId>>
                    /\ syncFile' = syncFile \/ syncFile' = [syncFile EXCEPT !.preview = {}]
                    /\ run' = run \/ run' = NoRun
<1>1. ASSUME Still PROVE SyncInv'
  <2>1. \A id : Flinchs(id)' <=> Flinchs(id)
    BY <1>1 DEF Flinchs
  <2>2. DOMAIN syncFile' = {"owned", "preview"} /\ syncFile'.owned = syncFile.owned
    BY <1>1 DEF SyncInv
  <2>3. ObjectsFit'
    BY <1>1 DEF SyncInv, ObjectsFit
  <2>4. ASSUME run' # NoRun
        PROVE  /\ DOMAIN run' = RunFields
               /\ \A m \in run'.owned : Flinchs(m.id)'
               /\ \A job \in run'.todo : MayGo(job)'
    <3>1. run' = run
      BY <1>1, <2>4
    <3>2. QED
      BY <2>1, <2>4, <3>1 DEF SyncInv, MayGo
  <2>5. QED
    BY <2>1, <2>2, <2>3, <2>4 DEF SyncInv
<1>2. CASE Pick \/ Unread \/ Stop \/ Configure \/ UNCHANGED trashVars
  BY <1>1, <1>2 DEF Pick, Unread, Stop, Configure, app, trashVars
<1>3. CASE Start
  BY <1>3, StartFits
<1>4. CASE \E job \in run.todo :
             WriteFormat(job) \/ WriteProfile(job) \/ WriteSizes(job) \/ DeleteFormat(job) \/ DeleteProfile(job)
  BY <1>4, FormatWritten, ProfileWritten, SizesWritten, FormatDeleted, ProfileDeleted
<1>5. CASE SaveSync
  <2>1. run # NoRun /\ run' = NoRun
    BY <1>5 DEF SaveSync, Idle
  <2>2. UNCHANGED <<formats, profiles, nextId>>
    BY <1>5 DEF SaveSync, app
  <2>3. \A id : Flinchs(id)' <=> Flinchs(id)
    BY <2>2 DEF Flinchs
  <2>4. DOMAIN syncFile' = {"owned", "preview"} /\ syncFile'.owned = run.owned
    BY <1>5 DEF SaveSync
  <2>5. ObjectsFit'
    BY <2>2 DEF SyncInv, ObjectsFit
  <2>6. QED
    BY <2>1, <2>3, <2>4, <2>5 DEF SyncInv
<1>6. CASE MakeFormat \/ EditFormat \/ EditProfile
  BY <1>6, OperatorMakes, OperatorEditsFormat, OperatorEditsProfile
<1>7. QED
  BY <1>2, <1>3, <1>4, <1>5, <1>6 DEF TrashNext

(* Every reachable state knows whose format an id on record is: there is no *)
(* step, lost answer or restart after which one of the operator's is on     *)
(* FLINCH's record.                                                         *)
THEOREM SyncInvHolds == TrashSpec => []SyncInv
<1> QED BY SyncStart, SyncStep, PTL DEF TrashSpec

(* A format that goes is the one the job names. *)
LEMMA FormatGoes ==
  ASSUME SyncInv, NEW job \in run.todo, DeleteFormat(job), NEW f \in formats, f.id \notin Ids(formats')
  PROVE  f.by = "operator" => run.config.others
<1>1. run # NoRun /\ job.kind = "delete format"
  BY DEF DeleteFormat, Takes, Idle
<1>2. MayGo(job)
  BY <1>1 DEF SyncInv
<1>3. f.id = job.at
  BY DEF DeleteFormat, Ids
<1>4. QED
  BY <1>1, <1>2, <1>3 DEF MayGo, Flinchs

LEMMA ProfileGoes ==
  ASSUME SyncInv, NEW job \in run.todo, DeleteProfile(job), NEW p \in profiles, p.id \notin Ids(profiles')
  PROVE  ~p.used /\ <<"delete profile", p.id>> \in run.asked
<1>1. run # NoRun /\ job.kind = "delete profile" /\ MayGo(job)
  BY DEF DeleteProfile, Takes, Idle, SyncInv
<1>2. PICK outcome \in Outcome(job.at \in Ids({q \in profiles : ~q.used})) :
        profiles' = IF outcome = "refused" THEN profiles ELSE {q \in profiles : q.id # job.at}
  BY Zenon DEF DeleteProfile
<1>3. p.id = job.at /\ outcome # "refused"
  BY <1>2 DEF Ids
<1>4. PICK q \in profiles : q.id = job.at /\ ~q.used
  BY <1>2, <1>3 DEF Outcome, Ids
<1>5. p = q
  BY <1>3, <1>4 DEF SyncInv, ObjectsFit
<1>6. QED
  BY <1>1, <1>3, <1>4, <1>5 DEF MayGo, IdOf

(* A deletion of formats leaves every profile, one of profiles every format.*)
LEMMA DeletionsSpare ==
  ASSUME SyncInv, NEW job \in run.todo
  PROVE  /\ DeleteFormat(job) => Ids(profiles') = Ids(profiles)
         /\ DeleteProfile(job) => Ids(formats') = Ids(formats)
<1>1. ASSUME DeleteFormat(job) PROVE Ids(profiles') = Ids(profiles)
  <2>1. profiles' = profiles \/ profiles' = {[p EXCEPT !.scores = @ \ {job.at}] : p \in profiles}
    BY <1>1 DEF DeleteFormat
  <2>2. \A p \in profiles : [p EXCEPT !.scores = @ \ {job.at}].id = p.id
    BY ScoresDropped DEF SyncInv, ObjectsFit
  <2>3. \A r \in profiles' : \E p \in profiles : p.id = r.id
    <3>1. CASE profiles' = profiles
      BY <3>1
    <3>2. CASE profiles' = {[p EXCEPT !.scores = @ \ {job.at}] : p \in profiles}
      <4> TAKE r \in profiles'
      <4>1. PICK p \in profiles : r = [p EXCEPT !.scores = @ \ {job.at}]
        BY <3>2
      <4>2. QED
        BY <2>2, <4>1
    <3>3. QED
      BY <2>1, <3>1, <3>2
  <2>4. \A p \in profiles : \E r \in profiles' : r.id = p.id
    <3>1. CASE profiles' = profiles
      BY <3>1
    <3>2. CASE profiles' = {[p EXCEPT !.scores = @ \ {job.at}] : p \in profiles}
      <4> TAKE p \in profiles
      <4>1. [p EXCEPT !.scores = @ \ {job.at}] \in profiles'
        BY <3>2
      <4>2. QED
        BY <2>2, <4>1
    <3>3. QED
      BY <2>1, <3>1, <3>2
  <2>5. QED
    BY <2>3, <2>4 DEF Ids
<1>2. QED
  BY <1>1 DEF DeleteProfile

(* Nothing FLINCH did not create is deleted unasked: a format the operator  *)
(* made only under `delete_unmanaged_custom_formats`, a profile only when   *)
(* its deletion was picked and nothing is on it -- whatever was adopted by  *)
(* its name, recreated, lost or half done in between.                       *)
THEOREM OthersStayHolds == TrashSpec => OthersStay
<1>1. SyncInv => [ (~Idle /\ \E job \in run.todo : DeleteFormat(job) \/ DeleteProfile(job)) =>
                      /\ \A f \in formats : f.by = "operator" /\ f.id \notin Ids(formats') => run.config.others
                      /\ \A p \in profiles : p.id \notin Ids(profiles') =>
                            ~p.used /\ <<"delete profile", p.id>> \in run.asked ]_trashVars
  <2> SUFFICES ASSUME SyncInv, NEW job \in run.todo, DeleteFormat(job) \/ DeleteProfile(job)
               PROVE  /\ \A f \in formats : f.by = "operator" /\ f.id \notin Ids(formats') => run.config.others
                      /\ \A p \in profiles : p.id \notin Ids(profiles') =>
                            ~p.used /\ <<"delete profile", p.id>> \in run.asked
    OBVIOUS
  <2>1. ASSUME NEW f \in formats, f.by = "operator", f.id \notin Ids(formats') PROVE run.config.others
    BY <2>1, FormatGoes, DeletionsSpare DEF Ids
  <2>2. ASSUME NEW p \in profiles, p.id \notin Ids(profiles')
        PROVE  ~p.used /\ <<"delete profile", p.id>> \in run.asked
    BY <2>2, ProfileGoes, DeletionsSpare DEF Ids
  <2>3. QED
    BY <2>1, <2>2
<1> QED BY <1>1, SyncInvHolds, PTL DEF TrashSpec, OthersStay

-----------------------------------------------------------------------------
(* AppliedSettles: what a full, undisturbed run has left to do.              *)
Wants(conf) == IF conf.profile THEN conf.wanted ELSE {}
OncePerKey(owned) == \A m, n \in owned : m.key = n.key => m.id = n.id

(* No id is used twice or is Nobody, no name by two formats, the synced      *)
(* profile's not by two profiles; the record has one id for a key.           *)
NamesFit ==
    /\ \A f, g \in formats : f.id = g.id \/ f.name = g.name => f = g
    /\ \A p, q \in profiles : p.name = Synced /\ q.name = Synced => p = q
    /\ \A f \in formats, p \in profiles : f.id # p.id
    /\ nextId > Nobody
    /\ \A f \in formats : f.id # Nobody
    /\ \A p \in profiles : p.id # Nobody /\ Nobody \notin p.scores
    /\ DOMAIN config = {"wanted", "profile", "others", "unused", "apply"} /\ config.wanted \subseteq Guide
    /\ OncePerKey(syncFile.owned)

(* A run's jobs are about what there was when it read the app, and those of  *)
(* formats about the one matched then.                                       *)
JobsFit ==
    run # NoRun =>
        /\ run.config.wanted \subseteq Guide
        /\ OncePerKey(run.owned) /\ OncePerKey(run.ids)
        /\ \A c \in run.todo :
            /\ c = Change(c.kind, c.key, c.at)
            /\ c.at \in Nat /\ c.at < nextId
            /\ c.kind = "delete format" => c.at # Nobody
            /\ c.kind = "format" =>
                 c.key \in Wants(run.config) /\ [key |-> c.key, id |-> c.at] \in run.ids

FormatOf(t) == Match(formats, run.owned, t)
FormatsOf(wanted) == {FormatOf(t) : t \in wanted}
ProfileOf == Match(profiles, run.owned, Synced)

Pends(kind) == \E c \in run.todo : c.kind = kind
Laid(t) == \E f \in formats : f.id = FormatOf(t) /\ f.name = t /\ f.body = t
ProfileLaid ==
    \E p \in profiles :
        p.id = ProfileOf /\ p.name = Synced /\ p.body = Synced /\ p.scores = FormatsOf(Wants(run.config))

(* What is not as the settings ask is on the list, and what is on the list   *)
(* is about the objects the settings lead to now.                            *)
FormatsPend ==
    /\ \A t \in Wants(run.config) : Laid(t) \/ \E c \in run.todo : c.kind = "format" /\ c.key = t
    /\ \A c \in run.todo : c.kind = "format" => c.at = FormatOf(c.key)
ProfilePends ==
    run.config.profile =>
        /\ run.ids = {[key |-> t, id |-> FormatOf(t)] : t \in run.config.wanted}
        /\ ProfileLaid \/ Pends("profile")
        /\ \A c \in run.todo : c.kind = "profile" => c.at = ProfileOf
        /\ sizes = Synced \/ Pends("sizes")
DeletionsPend ==
    /\ \A c \in run.todo : c.kind = "delete format" => c.at \notin FormatsOf(Wants(run.config))
    /\ \A f \in formats :
        f.id \notin FormatsOf(Wants(run.config)) /\ (run.config.others \/ f.id \in Ids(run.owned)) =>
            \E c \in run.todo : c.kind = "delete format" /\ c.at = f.id
    /\ ~Pends("delete profile")
Settles == FormatsPend /\ ProfilePends /\ DeletionsPend

Undisturbed == run # NoRun /\ run.calm /\ run.all /\ ~Collide

SettleInv == SyncInv /\ NamesFit /\ JobsFit /\ (Undisturbed => Settles)

(* What an object is matched by: the record of it, while it is there, else   *)
(* its name.                                                                 *)
Recorded(objects, owned, key, id) == id \in Ids(objects) /\ \E m \in owned : m.key = key /\ m.id = id
OneNamed(objects, key) == \A o, q \in objects : o.name = key /\ q.name = key => o = q

LEMMA MatchIs ==
  ASSUME NEW objects, NEW owned, NEW key, OncePerKey(owned), OneNamed(objects, key)
  PROVE  /\ \A id : Recorded(objects, owned, key, id) => Match(objects, owned, key) = id
         /\ (\A id : ~Recorded(objects, owned, key, id)) =>
              /\ \A o \in objects : o.name = key => Match(objects, owned, key) = o.id
              /\ Named(objects, key) = {} => Match(objects, owned, key) = Nobody
<1> DEFINE mine == {m.id : m \in {x \in owned : x.key = key}} \cap Ids(objects)
<1>1. \A id : id \in mine <=> Recorded(objects, owned, key, id)
  BY DEF Recorded
<1>2. Match(objects, owned, key) =
        CASE mine # {} -> CHOOSE id \in mine : TRUE
          [] mine = {} /\ Named(objects, key) # {} -> (CHOOSE o \in Named(objects, key) : TRUE).id
          [] OTHER -> Nobody
  BY DEF Match
<1> HIDE DEF mine
<1>3. ASSUME NEW id, Recorded(objects, owned, key, id) PROVE Match(objects, owned, key) = id
  <2>1. id \in mine /\ \A j \in mine : j = id
    BY <1>1, <1>3 DEF Recorded, OncePerKey
  <2>2. (CHOOSE j \in mine : TRUE) \in mine
    BY <2>1
  <2>3. QED
    BY <1>2, <2>1, <2>2
<1>4. ASSUME \A id : ~Recorded(objects, owned, key, id)
      PROVE  /\ \A o \in objects : o.name = key => Match(objects, owned, key) = o.id
             /\ Named(objects, key) = {} => Match(objects, owned, key) = Nobody
  <2>1. mine = {}
    BY <1>1, <1>4
  <2>2. ASSUME NEW o \in objects, o.name = key PROVE Match(objects, owned, key) = o.id
    <3>1. o \in Named(objects, key) /\ \A q \in Named(objects, key) : q = o
      BY <2>2 DEF Named, OneNamed
    <3>2. (CHOOSE q \in Named(objects, key) : TRUE) \in Named(objects, key)
      BY <3>1
    <3>3. QED
      BY <1>2, <2>1, <3>1, <3>2
  <2>3. QED
    BY <1>2, <2>1, <2>2
<1>5. QED
  BY <1>3, <1>4

LEMMA MatchCases ==
  ASSUME NEW objects, NEW owned, NEW key, OncePerKey(owned), OneNamed(objects, key)
  PROVE  \/ Recorded(objects, owned, key, Match(objects, owned, key))
         \/ /\ \A id : ~Recorded(objects, owned, key, id)
            /\ \E o \in objects : o.name = key /\ o.id = Match(objects, owned, key)
         \/ /\ \A id : ~Recorded(objects, owned, key, id)
            /\ Named(objects, key) = {}
            /\ Match(objects, owned, key) = Nobody
<1>1. CASE \E id : Recorded(objects, owned, key, id)
  BY <1>1, MatchIs
<1>2. CASE \A id : ~Recorded(objects, owned, key, id)
  <2>1. CASE Named(objects, key) = {}
    BY <1>2, <2>1, MatchIs
  <2>2. CASE Named(objects, key) # {}
    <3>1. PICK o \in objects : o.name = key
      BY <2>2 DEF Named
    <3>2. QED
      BY <1>2, <3>1, MatchIs
  <2>3. QED
    BY <2>1, <2>2
<1>3. QED
  BY <1>1, <1>2

(* What is matched is there. *)
LEMMA MatchThere ==
  ASSUME NEW objects, NEW owned, NEW key, OncePerKey(owned), OneNamed(objects, key)
  PROVE  Match(objects, owned, key) = Nobody \/ Match(objects, owned, key) \in Ids(objects)
  BY MatchCases DEF Recorded, Ids

(* A match stands while its record does, and no other object takes its name. *)
LEMMA MatchStays ==
  ASSUME NEW objects, NEW owned, NEW later, NEW kept, NEW key,
         OncePerKey(owned), OncePerKey(kept), OneNamed(objects, key), OneNamed(later, key),
         \A id : Recorded(objects, owned, key, id) <=> Recorded(later, kept, key, id),
         \A o \in objects : o.name = key /\ o.id = Match(objects, owned, key) =>
           \E q \in later : q.name = key /\ q.id = o.id,
         Match(objects, owned, key) = Nobody => Named(objects, key) # {} \/ Named(later, key) = {}
  PROVE  Match(later, kept, key) = Match(objects, owned, key)
<1>1. CASE Recorded(objects, owned, key, Match(objects, owned, key))
  BY <1>1, MatchIs
<1>2. CASE /\ \A id : ~Recorded(objects, owned, key, id)
           /\ \E o \in objects : o.name = key /\ o.id = Match(objects, owned, key)
  <2>1. PICK q \in later : q.name = key /\ q.id = Match(objects, owned, key)
    BY <1>2
  <2>2. QED
    BY <1>2, <2>1, MatchIs
<1>3. CASE /\ \A id : ~Recorded(objects, owned, key, id)
           /\ Named(objects, key) = {}
           /\ Match(objects, owned, key) = Nobody
  BY <1>3, MatchIs
<1>4. QED
  BY <1>1, <1>2, <1>3, MatchCases

(* What a write leaves of the run's list and records. *)
LEMMA WroteJobs ==
  ASSUME SyncInv, JobsFit, run # NoRun, NEW job \in run.todo, NEW outcome, NEW upd,
         DOMAIN upd = RunFields, upd.todo = run.todo, upd.config = run.config,
         Wrote(job, outcome, upd), nextId' \in Nat, nextId' >= nextId,
         OncePerKey(upd.owned), OncePerKey(upd.ids),
         \A c \in run.todo \ {job} : c.kind = "format" => [key |-> c.key, id |-> c.at] \in upd.ids
  PROVE  JobsFit'
<1>1. DOMAIN run = RunFields /\ nextId \in Nat
  BY DEF SyncInv, ObjectsFit
<1>2. /\ run'.todo = run.todo \ {job} /\ run'.config = run.config
      /\ \/ run'.owned = upd.owned /\ run'.ids = upd.ids
         \/ run'.owned = run.owned /\ run'.ids = run.ids
  BY <1>1 DEF Wrote, RunFields
<1>3. /\ run'.config.wanted \subseteq Guide /\ Wants(run'.config) = Wants(run.config)
      /\ OncePerKey(run'.owned) /\ OncePerKey(run'.ids)
  BY <1>2 DEF JobsFit
<1>4. ASSUME NEW c \in run'.todo
      PROVE  /\ c = Change(c.kind, c.key, c.at)
             /\ c.at \in Nat /\ c.at < nextId'
             /\ c.kind = "delete format" => c.at # Nobody
             /\ c.kind = "format" => c.key \in Wants(run.config) /\ [key |-> c.key, id |-> c.at] \in run'.ids
  <2>1. /\ c \in run.todo /\ c # job
        /\ c = Change(c.kind, c.key, c.at) /\ c.at \in Nat /\ c.at < nextId
        /\ c.kind = "delete format" => c.at # Nobody
        /\ c.kind = "format" => c.key \in Wants(run.config) /\ [key |-> c.key, id |-> c.at] \in run.ids
    BY <1>2, <1>4 DEF JobsFit
  <2>2. c.at < nextId'
    <3>1. PICK at : at = c.at
      OBVIOUS
    <3>2. at \in Nat /\ at < nextId
      BY <2>1, <3>1
    <3>3. at < nextId'
      BY <1>1, <3>2
    <3>4. QED
      BY <3>1, <3>3
  <2>3. c.kind = "format" => [key |-> c.key, id |-> c.at] \in run'.ids
    BY <1>2, <2>1
  <2>4. QED
    BY <2>1, <2>2, <2>3
<1>5. QED
  BY <1>3, <1>4 DEF JobsFit

LEMMA WithoutOnce ==
  ASSUME NEW pairs, NEW key, NEW id, OncePerKey(pairs)
  PROVE  OncePerKey(Without(pairs, key) \cup {[key |-> key, id |-> id]})
  BY DEF OncePerKey, Without

LEMMA CreatedOnce ==
  ASSUME NEW made, NEW key, NEW id, NEW at, OncePerKey(made)
  PROVE  OncePerKey(Created(made, key, id, at))
<1>1. OncePerKey(Without(made, key) \cup {[key |-> key, id |-> id]})
  BY WithoutOnce
<1>2. QED
  BY <1>1 DEF Created

(* Two format jobs of one name are one job. *)
LEMMA OneJob ==
  ASSUME JobsFit, run # NoRun, NEW c \in run.todo, NEW d \in run.todo,
         c.kind = "format", d.kind = "format", c.key = d.key
  PROVE  c = d
<1>1. /\ [key |-> c.key, id |-> c.at] \in run.ids /\ [key |-> d.key, id |-> d.at] \in run.ids
      /\ OncePerKey(run.ids) /\ c = Change(c.kind, c.key, c.at) /\ d = Change(d.kind, d.key, d.at)
  BY DEF JobsFit
<1>2. PICK m, n : m = [key |-> c.key, id |-> c.at] /\ n = [key |-> d.key, id |-> d.at]
  OBVIOUS
<1>3. m \in run.ids /\ n \in run.ids /\ m.key = c.key /\ n.key = d.key /\ m.id = c.at /\ n.id = d.at
  BY <1>1, <1>2
<1>4. c.at = d.at
  BY <1>1, <1>3 DEF OncePerKey
<1>5. QED
  BY <1>1, <1>4

LEMMA FormatNames ==
  ASSUME SyncInv, NamesFit, JobsFit, NEW job \in run.todo, WriteFormat(job)
  PROVE  NamesFit' /\ JobsFit'
<1> DEFINE new == job.at = Nobody
           id == IF new THEN nextId ELSE job.at
           ok == Free(formats, job.key, id) /\ (new \/ id \in Ids(formats))
           by == IF new THEN "flinch" ELSE With(formats, id).by
           made == [id |-> id, name |-> job.key, body |-> job.key, by |-> by]
           upd == [run EXCEPT !.owned = Created(@, job.key, id, job.at), !.known = @ \cup {id},
                              !.ids = Without(@, job.key) \cup {[key |-> job.key, id |-> id]}]
<1>1. PICK outcome \in Outcome(ok) :
        /\ formats' = IF outcome = "refused" THEN formats ELSE {f \in formats : f.id # id} \cup {made}
        /\ nextId' = IF new /\ outcome # "refused" THEN nextId + 1 ELSE nextId
        /\ Wrote(job, outcome, upd)
  BY Zenon DEF WriteFormat
<1>2. /\ run # NoRun /\ job.kind = "format" /\ DOMAIN run = RunFields
      /\ UNCHANGED <<profiles, sizes, config, syncFile>>
      /\ nextId \in Nat /\ nextId' \in Nat /\ nextId' >= nextId
  BY <1>1 DEF WriteFormat, Takes, Idle, SyncInv, ObjectsFit
<1>3. outcome # "refused" => Free(formats, job.key, id) /\ (new \/ id \in Ids(formats))
  BY <1>1 DEF Outcome
<1>4. made.id = id /\ made.name = job.key
  OBVIOUS
<1>5. id \in Nat /\ (new => id = nextId)
  BY <1>2 DEF JobsFit
<1> HIDE DEF made, ok, by
<1>6. NamesFit'
  <2>1. CASE outcome = "refused"
    BY <1>1, <1>2, <2>1 DEF NamesFit
  <2>2. CASE outcome # "refused"
    <3>1. formats' = {f \in formats : f.id # id} \cup {made}
      BY <1>1, <2>2
    <3>2. id # Nobody /\ \A p \in profiles : p.id # id
      <4>1. CASE new
        BY <1>2, <1>5, <4>1 DEF NamesFit, SyncInv, ObjectsFit
      <4>2. CASE ~new
        BY <1>3, <2>2, <4>2 DEF NamesFit, Ids
      <4>3. QED
        BY <4>1, <4>2
    <3>3. \A f \in formats : f.id # id => f.name # job.key
      BY <1>3, <2>2 DEF Free
    <3>4. \A f, g \in formats' : f.id = g.id \/ f.name = g.name => f = g
      BY <1>4, <3>1, <3>3 DEF NamesFit
    <3>5. \A f \in formats' : f.id # Nobody /\ \A p \in profiles : f.id # p.id
      BY <1>4, <3>1, <3>2 DEF NamesFit
    <3>6. nextId' > Nobody
      BY <1>2 DEF NamesFit, Nobody
    <3>7. QED
      BY <1>2, <3>4, <3>5, <3>6 DEF NamesFit
  <2>3. QED
    BY <2>1, <2>2
<1>7. /\ DOMAIN upd = RunFields /\ upd.todo = run.todo /\ upd.config = run.config
      /\ upd.owned = Created(run.owned, job.key, id, job.at)
      /\ upd.ids = Without(run.ids, job.key) \cup {[key |-> job.key, id |-> id]}
  BY <1>2 DEF RunFields
<1> HIDE DEF upd, id, new
<1>8. OncePerKey(upd.owned) /\ OncePerKey(upd.ids)
  <2>1. OncePerKey(run.owned) /\ OncePerKey(run.ids)
    BY <1>2 DEF JobsFit
  <2>2. OncePerKey(Created(run.owned, job.key, id, job.at))
    BY <2>1, CreatedOnce
  <2>3. OncePerKey(Without(run.ids, job.key) \cup {[key |-> job.key, id |-> id]})
    BY <2>1, WithoutOnce
  <2>4. QED
    BY <1>7, <2>2, <2>3
<1>9. ASSUME NEW c \in run.todo \ {job}, c.kind = "format"
      PROVE  [key |-> c.key, id |-> c.at] \in upd.ids
  <2>1. c.key # job.key
    BY <1>2, <1>9, OneJob
  <2>2. [key |-> c.key, id |-> c.at] \in run.ids
    BY <1>2, <1>9 DEF JobsFit
  <2>3. QED
    BY <1>7, <2>1, <2>2 DEF Without
<1>10. JobsFit'
  BY <1>1, <1>2, <1>7, <1>8, <1>9, WroteJobs
<1>11. QED
  BY <1>6, <1>10

LEMMA ProfileNames ==
  ASSUME SyncInv, NamesFit, JobsFit, NEW job \in run.todo, WriteProfile(job)
  PROVE  NamesFit' /\ JobsFit'
<1> DEFINE new == job.at = Nobody
           id == IF new THEN nextId ELSE job.at
           ok == /\ Free(profiles, Synced, id) /\ (new \/ id \in Ids(profiles))
                 /\ run.known = Ids(formats)
           was == IF new THEN [by |-> "flinch", used |-> FALSE] ELSE With(profiles, id)
           body == [id |-> id, name |-> Synced, body |-> Synced,
                    scores |-> {m.id : m \in run.ids} \ {Nobody}, by |-> was.by, used |-> was.used]
           upd == [run EXCEPT !.owned = Created(@, Synced, id, job.at)]
<1>1. PICK outcome \in Outcome(ok) :
        /\ profiles' = IF outcome = "refused" THEN profiles ELSE {p \in profiles : p.id # id} \cup {body}
        /\ nextId' = IF new /\ outcome # "refused" THEN nextId + 1 ELSE nextId
        /\ Wrote(job, outcome, upd)
  BY Zenon DEF WriteProfile
<1>2. /\ run # NoRun /\ job.kind = "profile" /\ DOMAIN run = RunFields
      /\ UNCHANGED <<formats, sizes, config, syncFile>>
      /\ nextId \in Nat /\ nextId' \in Nat /\ nextId' >= nextId
  BY <1>1 DEF WriteProfile, Takes, Idle, SyncInv, ObjectsFit
<1>3. outcome # "refused" => Free(profiles, Synced, id) /\ (new \/ id \in Ids(profiles))
  BY <1>1 DEF Outcome
<1>4. body.id = id /\ body.name = Synced /\ Nobody \notin body.scores
  OBVIOUS
<1>5. id \in Nat /\ (new => id = nextId)
  BY <1>2 DEF JobsFit
<1> HIDE DEF body, ok, was
<1>6. NamesFit'
  <2>1. CASE outcome = "refused"
    BY <1>1, <1>2, <2>1 DEF NamesFit
  <2>2. CASE outcome # "refused"
    <3>1. profiles' = {p \in profiles : p.id # id} \cup {body}
      BY <1>1, <2>2
    <3>2. id # Nobody /\ \A f \in formats : f.id # id
      <4>1. CASE new
        BY <1>2, <1>5, <4>1 DEF NamesFit, SyncInv, ObjectsFit
      <4>2. CASE ~new
        BY <1>3, <2>2, <4>2 DEF NamesFit, Ids
      <4>3. QED
        BY <4>1, <4>2
    <3>3. \A p \in profiles : p.id # id => p.name # Synced
      BY <1>3, <2>2 DEF Free
    <3>4. \A p, q \in profiles' : p.name = Synced /\ q.name = Synced => p = q
      BY <1>4, <3>1, <3>3 DEF NamesFit
    <3>5. \A p \in profiles' : p.id # Nobody /\ Nobody \notin p.scores /\ \A f \in formats : f.id # p.id
      BY <1>4, <3>1, <3>2 DEF NamesFit
    <3>6. nextId' > Nobody
      BY <1>2 DEF NamesFit, Nobody
    <3>7. QED
      BY <1>2, <3>4, <3>5, <3>6 DEF NamesFit
  <2>3. QED
    BY <2>1, <2>2
<1>7. /\ DOMAIN upd = RunFields /\ upd.todo = run.todo /\ upd.config = run.config
      /\ upd.owned = Created(run.owned, Synced, id, job.at) /\ upd.ids = run.ids
  BY <1>2 DEF RunFields
<1> HIDE DEF upd, id, new
<1>8. OncePerKey(upd.owned) /\ OncePerKey(upd.ids)
  <2>1. OncePerKey(run.owned) /\ OncePerKey(run.ids)
    BY <1>2 DEF JobsFit
  <2>2. QED
    BY <1>7, <2>1, CreatedOnce
<1>9. JobsFit'
  BY <1>1, <1>2, <1>7, <1>8, WroteJobs DEF JobsFit
<1>10. QED
  BY <1>6, <1>9

(* A deletion leaves names and ids as they are. *)
LEMMA DroppedJobs ==
  ASSUME SyncInv, JobsFit, run # NoRun, NEW job \in run.todo, NEW outcome, NEW id,
         Wrote(job, outcome, Dropped(id)), nextId' = nextId
  PROVE  JobsFit'
<1>1. DOMAIN run = RunFields /\ nextId \in Nat
  BY DEF SyncInv, ObjectsFit
<1>2. /\ DOMAIN Dropped(id) = RunFields /\ Dropped(id).todo = run.todo /\ Dropped(id).config = run.config
      /\ Dropped(id).owned \subseteq run.owned /\ Dropped(id).ids = run.ids
  BY <1>1 DEF Dropped, RunFields
<1>3. OncePerKey(Dropped(id).owned) /\ OncePerKey(Dropped(id).ids)
  BY <1>2 DEF JobsFit, OncePerKey
<1>4. \A c \in run.todo \ {job} : c.kind = "format" => [key |-> c.key, id |-> c.at] \in Dropped(id).ids
  BY <1>2 DEF JobsFit
<1>5. PICK upd : upd = Dropped(id)
  OBVIOUS
<1>6. QED
  BY <1>1, <1>2, <1>3, <1>4, <1>5, WroteJobs

LEMMA ScoresLess ==
  ASSUME NEW p, NEW scores, DOMAIN p = ProfileFields
  PROVE  LET q == [p EXCEPT !.scores = scores]
         IN  q.id = p.id /\ q.name = p.name /\ q.body = p.body /\ q.scores = scores
  BY DEF ProfileFields

(* Profiles that lose scores keep names and ids. *)
LEMMA RescoredNames ==
  ASSUME ObjectsFit, NamesFit, NEW less, \A p \in profiles : less[p] \subseteq p.scores,
         profiles' = {[p EXCEPT !.scores = less[p]] : p \in profiles}
  PROVE  /\ \A p, q \in profiles' : p.name = Synced /\ q.name = Synced => p = q
         /\ \A p \in profiles' : p.id # Nobody /\ Nobody \notin p.scores
         /\ \A p \in profiles' : \E q \in profiles : q.id = p.id
<1>1. ASSUME NEW r \in profiles'
      PROVE  \E p \in profiles : r = [p EXCEPT !.scores = less[p]] /\ r.id = p.id /\ r.name = p.name /\ r.scores = less[p]
  <2>1. PICK p \in profiles : r = [p EXCEPT !.scores = less[p]]
    OBVIOUS
  <2>2. QED
    BY <2>1, ScoresLess DEF ObjectsFit
<1>2. QED
  BY <1>1 DEF NamesFit

LEMMA DeletionNames ==
  ASSUME SyncInv, NamesFit, JobsFit, NEW job \in run.todo, DeleteFormat(job) \/ DeleteProfile(job)
  PROVE  NamesFit' /\ JobsFit'
<1>1. CASE DeleteFormat(job)
  <2>1. PICK outcome :
          /\ IF outcome = "refused" THEN UNCHANGED <<formats, profiles>>
             ELSE /\ formats' = {f \in formats : f.id # job.at}
                  /\ profiles' = {[p EXCEPT !.scores = @ \ {job.at}] : p \in profiles}
          /\ Wrote(job, outcome, Dropped(job.at))
    BY <1>1 DEF DeleteFormat
  <2>2. run # NoRun /\ UNCHANGED <<nextId, config, syncFile>> /\ ObjectsFit
    BY <1>1 DEF DeleteFormat, Takes, Idle, SyncInv
  <2>3. CASE outcome = "refused"
    BY <2>1, <2>2, <2>3, DroppedJobs DEF NamesFit
  <2>4. CASE outcome # "refused"
    <3> DEFINE less == [p \in profiles |-> p.scores \ {job.at}]
    <3>1. profiles' = {[p EXCEPT !.scores = less[p]] : p \in profiles}
      BY <2>1, <2>4
    <3>2. \A p \in profiles : less[p] \subseteq p.scores
      OBVIOUS
    <3> HIDE DEF less
    <3>3. /\ \A p, q \in profiles' : p.name = Synced /\ q.name = Synced => p = q
          /\ \A p \in profiles' : p.id # Nobody /\ Nobody \notin p.scores
          /\ \A p \in profiles' : \E q \in profiles : q.id = p.id
      BY <2>2, <3>1, <3>2, RescoredNames
    <3>4. formats' \subseteq formats
      BY <2>1, <2>4
    <3>5. NamesFit'
      BY <2>2, <3>3, <3>4 DEF NamesFit
    <3>6. QED
      BY <2>1, <2>2, <3>5, DroppedJobs
  <2>5. QED
    BY <2>3, <2>4
<1>2. CASE DeleteProfile(job)
  <2>1. PICK outcome :
          /\ profiles' = IF outcome = "refused" THEN profiles ELSE {p \in profiles : p.id # job.at}
          /\ Wrote(job, outcome, Dropped(job.at))
    BY <1>2 DEF DeleteProfile
  <2>2. run # NoRun /\ UNCHANGED <<formats, nextId, config, syncFile>> /\ profiles' \subseteq profiles
    BY <1>2, <2>1 DEF DeleteProfile, Takes, Idle
  <2>3. NamesFit'
    BY <2>2 DEF NamesFit
  <2>4. QED
    BY <2>1, <2>2, <2>3, DroppedJobs
<1>3. QED
  BY <1>1, <1>2

(* What a preview lists. *)
LEMMA Listed ==
  ASSUME NEW live, NEW owned, NEW conf, NEW c, c \in Preview(live, owned, conf)
  PROVE  \/ /\ c.kind = "format" /\ c.key \in Wants(conf) /\ c.at = Match(live.formats, owned, c.key)
            /\ c \in FormatChanges(live, owned, Wants(conf))
         \/ /\ c.kind = "profile" /\ conf.profile /\ c.key = Synced /\ c.at = Match(live.profiles, owned, Synced)
            /\ c \in ProfileChanges(live, owned, Wants(conf))
         \/ c.kind = "sizes" /\ conf.profile /\ c.at = Nobody /\ live.sizes # Synced
         \/ /\ c.kind = "delete format" /\ c.at \in Ids(live.formats) /\ c.at \notin Matched(live, owned, Wants(conf))
            /\ conf.others \/ c.at \in Ids(owned)
         \/ c.kind = "delete profile" /\ c.at \in Ids(live.profiles)
<1>0. PICK W : W = Wants(conf)
  OBVIOUS
<1>1. \/ c \in FormatChanges(live, owned, W)
      \/ conf.profile /\ c \in ProfileChanges(live, owned, W)
      \/ conf.profile /\ c \in SizeChanges(live)
      \/ c \in FormatDeletions(live, owned, W, conf.others)
      \/ c \in Unused(live, owned, conf)
  BY <1>0 DEF Preview, Wants
<1>2. CASE c \in FormatChanges(live, owned, W)
  <2>1. PICK t \in W : c = Change("format", t, Match(live.formats, owned, t))
    BY <1>2 DEF FormatChanges
  <2>2. QED
    BY <1>0, <1>2, <2>1 DEF Change
<1>3. CASE conf.profile /\ c \in ProfileChanges(live, owned, W)
  <2>1. c = Change("profile", Synced, Match(live.profiles, owned, Synced))
    BY <1>3 DEF ProfileChanges
  <2>2. QED
    BY <1>0, <1>3, <2>1 DEF Change
<1>4. CASE conf.profile /\ c \in SizeChanges(live)
  <2>1. c = Change("sizes", Synced, Nobody) /\ live.sizes # Synced
    BY <1>4 DEF SizeChanges
  <2>2. QED
    BY <1>4, <2>1 DEF Change
<1>5. CASE c \in FormatDeletions(live, owned, W, conf.others)
  <2>1. PICK f \in {g \in live.formats : g.id \notin Matched(live, owned, W) /\ (conf.others \/ g.id \in Ids(owned))} :
          c = Change("delete format", f.id, f.id)
    BY <1>5, Zenon DEF FormatDeletions
  <2>2. QED
    BY <1>0, <2>1 DEF Change, Ids
<1>6. CASE c \in Unused(live, owned, conf)
  <2>1. PICK p \in {q \in live.profiles : ~q.used /\ ~(conf.profile /\ q.id = Match(live.profiles, owned, Synced))} :
          c = Change("delete profile", p.id, p.id)
    BY <1>6, Zenon DEF Unused
  <2>2. QED
    BY <2>1 DEF Change, Ids
<1>7. QED
  BY <1>1, <1>2, <1>3, <1>4, <1>5, <1>6

LEMMA IsChange ==
  ASSUME NEW live, NEW owned, NEW conf, NEW c, c \in Preview(live, owned, conf)
  PROVE  c = Change(c.kind, c.key, c.at)
<1> SUFFICES \E kind, key, at : c = Change(kind, key, at)
  BY DEF Change
<1>1. CASE \E W : c \in FormatChanges(live, owned, W)
  BY <1>1 DEF FormatChanges
<1>2. CASE \E W : c \in ProfileChanges(live, owned, W)
  BY <1>2 DEF ProfileChanges
<1>3. CASE c \in SizeChanges(live)
  BY <1>3 DEF SizeChanges
<1>4. CASE \E W : c \in FormatDeletions(live, owned, W, conf.others)
  BY <1>4 DEF FormatDeletions
<1>5. CASE c \in Unused(live, owned, conf)
  BY <1>5 DEF Unused
<1>6. QED
  BY <1>1, <1>2, <1>3, <1>4, <1>5 DEF Preview

(* What a run starts with. *)
LEMMA StartIs ==
  ASSUME SyncInv, NamesFit, Start
  PROVE  \E counted \in BOOLEAN : \E owned, first :
           /\ owned = Forgotten(Live(counted), syncFile.owned) /\ first = Preview(Live(counted), owned, config)
           /\ run'.counted = counted /\ run'.owned = owned /\ run'.config = config /\ run'.todo = Picked(first)
           /\ run'.all = (Picked(first) = All(first))
           /\ run'.ids = {[key |-> t, id |-> Match(formats, owned, t)] : t \in config.wanted}
           /\ OncePerKey(owned)
<1>1. PICK counted \in BOOLEAN :
        LET owned == Forgotten(Live(counted), syncFile.owned)
            first == Preview(Live(counted), owned, config)
        IN  run' = [counted |-> counted, owned |-> owned, config |-> config, todo |-> Picked(first),
                    preview |-> {IdOf(c) : c \in first}, asked |-> request, all |-> Picked(first) = All(first),
                    wrote |-> FALSE, calm |-> TRUE, known |-> Ids(formats),
                    ids |-> {[key |-> t, id |-> Match(formats, owned, t)] : t \in config.wanted}]
  BY Zenon DEF Start
<1>2. PICK owned : owned = Forgotten(Live(counted), syncFile.owned)
  OBVIOUS
<1>3. PICK first : first = Preview(Live(counted), owned, config)
  OBVIOUS
<1>4. run' = [counted |-> counted, owned |-> owned, config |-> config, todo |-> Picked(first),
              preview |-> {IdOf(c) : c \in first}, asked |-> request, all |-> Picked(first) = All(first),
              wrote |-> FALSE, calm |-> TRUE, known |-> Ids(formats),
              ids |-> {[key |-> t, id |-> Match(formats, owned, t)] : t \in config.wanted}]
  BY <1>1, <1>2, <1>3, Zenon
<1>5. OncePerKey(owned)
  BY <1>2 DEF Forgotten, NamesFit, OncePerKey
<1>6. QED
  BY <1>2, <1>3, <1>4, <1>5

LEMMA StartNames ==
  ASSUME SyncInv, NamesFit, Start
  PROVE  NamesFit' /\ JobsFit'
<1>1. PICK counted \in BOOLEAN : \E owned, first :
           /\ owned = Forgotten(Live(counted), syncFile.owned) /\ first = Preview(Live(counted), owned, config)
           /\ run'.counted = counted /\ run'.owned = owned /\ run'.config = config /\ run'.todo = Picked(first)
           /\ run'.all = (Picked(first) = All(first))
           /\ run'.ids = {[key |-> t, id |-> Match(formats, owned, t)] : t \in config.wanted}
           /\ OncePerKey(owned)
  BY StartIs
<1>2. PICK owned, first :
           /\ first = Preview(Live(counted), owned, config)
           /\ run'.owned = owned /\ run'.config = config /\ run'.todo = Picked(first)
           /\ run'.ids = {[key |-> t, id |-> Match(formats, owned, t)] : t \in config.wanted}
           /\ OncePerKey(owned)
  BY <1>1
<1>3. UNCHANGED <<formats, profiles, nextId, config, syncFile>>
  BY DEF Start, app
<1>4. NamesFit'
  BY <1>3 DEF NamesFit
<1>5. Live(counted).formats = formats /\ Live(counted).profiles = profiles
  BY DEF Live
<1>6. /\ nextId \in Nat /\ Nobody \in Nat /\ Nobody < nextId
      /\ \A f \in formats : f.id \in Nat /\ f.id < nextId /\ f.id # Nobody
      /\ \A p \in profiles : p.id \in Nat /\ p.id < nextId
  BY DEF SyncInv, ObjectsFit, NamesFit, Nobody
<1>7. ASSUME NEW t PROVE LET at == Match(formats, owned, t) IN at \in Nat /\ at < nextId
  <2>1. OneNamed(formats, t)
    BY DEF OneNamed, NamesFit
  <2>2. Match(formats, owned, t) = Nobody \/ Match(formats, owned, t) \in Ids(formats)
    BY <1>2, <2>1, MatchThere
  <2>3. QED
    BY <1>6, <2>2 DEF Ids
<1>8. LET at == Match(profiles, owned, Synced) IN at \in Nat /\ at < nextId
  <2>1. OneNamed(profiles, Synced)
    BY DEF OneNamed, NamesFit
  <2>2. Match(profiles, owned, Synced) = Nobody \/ Match(profiles, owned, Synced) \in Ids(profiles)
    BY <1>2, <2>1, MatchThere
  <2>3. QED
    BY <1>6, <2>2 DEF Ids
<1>9. ASSUME NEW c \in run'.todo
      PROVE  /\ c = Change(c.kind, c.key, c.at)
             /\ c.at \in Nat /\ c.at < nextId
             /\ c.kind = "delete format" => c.at # Nobody
             /\ c.kind = "format" => c.key \in Wants(config) /\ [key |-> c.key, id |-> c.at] \in run'.ids
  <2>1. c \in Preview(Live(counted), owned, config)
    BY <1>2 DEF Picked, All
  <2>2. /\ c = Change(c.kind, c.key, c.at)
        /\ \/ c.kind = "format" /\ c.key \in Wants(config) /\ c.at = Match(formats, owned, c.key)
           \/ c.kind = "profile" /\ c.at = Match(profiles, owned, Synced)
           \/ c.kind = "sizes" /\ c.at = Nobody
           \/ c.kind = "delete format" /\ c.at \in Ids(formats)
           \/ c.kind = "delete profile" /\ c.at \in Ids(profiles)
    BY <1>5, <2>1, Listed, IsChange
  <2>3. CASE c.kind = "format" /\ c.key \in Wants(config) /\ c.at = Match(formats, owned, c.key)
    <3>1. PICK t, at : t = c.key /\ at = c.at
      OBVIOUS
    <3>2. at = Match(formats, owned, t) /\ t \in config.wanted
      BY <2>3, <3>1 DEF Wants
    <3>3. at \in Nat /\ at < nextId
      BY <1>7, <3>2
    <3>4. [key |-> t, id |-> at] \in run'.ids
      BY <1>2, <3>2
    <3>5. QED
      BY <2>2, <2>3, <3>1, <3>3, <3>4
  <2>4. CASE c.kind = "profile" /\ c.at = Match(profiles, owned, Synced)
    BY <1>8, <2>2, <2>4
  <2>5. CASE c.kind = "sizes" /\ c.at = Nobody
    BY <1>6, <2>2, <2>5
  <2>6. CASE c.kind = "delete format" /\ c.at \in Ids(formats)
    BY <1>6, <2>2, <2>6 DEF Ids
  <2>7. CASE c.kind = "delete profile" /\ c.at \in Ids(profiles)
    BY <1>6, <2>2, <2>7 DEF Ids
  <2>8. QED
    BY <2>2, <2>3, <2>4, <2>5, <2>6, <2>7
<1>10. OncePerKey(run'.ids)
  <2>1. \A m \in run'.ids : m.id = Match(formats, owned, m.key)
    BY <1>2
  <2>2. QED
    BY <2>1 DEF OncePerKey
<1>11. config.wanted \subseteq Guide
  BY DEF NamesFit
<1>12. JobsFit'
  BY <1>2, <1>3, <1>9, <1>10, <1>11 DEF JobsFit
<1>13. QED
  BY <1>4, <1>12

(* The operator's steps leave a run its jobs. *)
LEMMA DisturbedJobs ==
  ASSUME SyncInv, JobsFit, Disturbed, nextId' \in Nat, nextId' >= nextId
  PROVE  JobsFit'
<1>1. CASE run = NoRun
  BY <1>1 DEF Disturbed, Idle, JobsFit
<1>2. CASE run # NoRun
  <2>1. DOMAIN run = RunFields /\ nextId \in Nat
    BY <1>2 DEF SyncInv, ObjectsFit
  <2>2. /\ run'.config = run.config /\ run'.owned = run.owned /\ run'.todo = run.todo /\ run'.ids = run.ids
    BY <1>2, <2>1 DEF Disturbed, Idle, RunFields
  <2>3. \A n \in Nat : n < nextId => n < nextId'
    BY <2>1
  <2>4. QED
    BY <1>2, <2>2, <2>3 DEF JobsFit
<1>3. QED
  BY <1>1, <1>2

LEMMA OperatorNames ==
  ASSUME SyncInv, NamesFit, JobsFit, MakeFormat \/ EditFormat \/ EditProfile
  PROVE  NamesFit' /\ JobsFit'
<1>1. CASE MakeFormat
  <2>1. PICK t \in Guide :
          Named(formats, t) = {} /\ formats' = formats \cup {[id |-> nextId, name |-> t, body |-> Own, by |-> "operator"]}
    BY <1>1 DEF MakeFormat
  <2>2. nextId' = nextId + 1 /\ UNCHANGED <<profiles, config, syncFile>> /\ Disturbed
    BY <1>1 DEF MakeFormat
  <2>3. PICK made : made = [id |-> nextId, name |-> t, body |-> Own, by |-> "operator"]
    OBVIOUS
  <2>4. made.id = nextId /\ made.name = t /\ formats' = formats \cup {made}
    BY <2>1, <2>3
  <2>5. nextId \in Nat
    BY DEF SyncInv, ObjectsFit
  <2>6. \A f \in formats : f.id # nextId /\ f.name # t
    BY <2>1 DEF SyncInv, ObjectsFit, Named
  <2>7. nextId # Nobody /\ nextId' > Nobody /\ \A p \in profiles : p.id # nextId
    BY <2>2, <2>5 DEF SyncInv, ObjectsFit, NamesFit, Nobody
  <2>8. NamesFit'
    BY <2>2, <2>4, <2>6, <2>7 DEF NamesFit
  <2>9. QED
    BY <2>2, <2>5, <2>8, DisturbedJobs
<1>2. CASE EditFormat
  <2>1. PICK f \in formats : \E changed :
           /\ formats' = (formats \ {f}) \cup changed
           /\ changed = {} \/ \E g : changed = {g} /\ Edited(f, g)
    BY <1>2, FormatEdited DEF SyncInv
  <2>2. UNCHANGED <<nextId, config, syncFile>> /\ Disturbed /\ nextId \in Nat
    BY <1>2 DEF EditFormat, SyncInv, ObjectsFit
  <2>3. \A g \in formats' : (g \in formats /\ g # f) \/ Edited(f, g)
    BY <2>1
  <2>4. \A g, h \in formats' : Edited(f, g) /\ Edited(f, h) => g = h
    BY <2>1 DEF Edited, NamesFit
  <2>5. \A g, h \in formats' : g.id = h.id \/ g.name = h.name => g = h
    BY <2>3, <2>4 DEF NamesFit, Edited, Named
  <2>6. \A g \in formats' : g.id # Nobody /\ \A p \in profiles : g.id # p.id
    BY <2>3 DEF NamesFit, Edited
  <2>7. PICK ids : ids = Ids(formats')
    OBVIOUS
  <2> DEFINE less == [p \in profiles |-> p.scores \cap ids]
  <2>8. profiles' = {[p EXCEPT !.scores = less[p]] : p \in profiles}
    BY <1>2, <2>7 DEF EditFormat
  <2>9. \A p \in profiles : less[p] \subseteq p.scores
    OBVIOUS
  <2> HIDE DEF less
  <2>10. /\ \A p, q \in profiles' : p.name = Synced /\ q.name = Synced => p = q
         /\ \A p \in profiles' : p.id # Nobody /\ Nobody \notin p.scores
         /\ \A p \in profiles' : \E q \in profiles : q.id = p.id
    BY <2>8, <2>9, RescoredNames DEF SyncInv
  <2>11. NamesFit'
    BY <2>2, <2>5, <2>6, <2>10 DEF NamesFit
  <2>12. QED
    BY <2>2, <2>11, DisturbedJobs
<1>3. CASE EditProfile
  <2>1. PICK p \in profiles :
          \E q \in {[p EXCEPT !.used = ~@], [p EXCEPT !.body = Own], [p EXCEPT !.scores = Ids(formats)]} :
              profiles' = (profiles \ {p}) \cup {q}
    BY <1>3, Zenon DEF EditProfile
  <2>2. PICK q \in {[p EXCEPT !.used = ~@], [p EXCEPT !.body = Own], [p EXCEPT !.scores = Ids(formats)]} :
          profiles' = (profiles \ {p}) \cup {q}
    BY Zenon, <2>1
  <2>3. UNCHANGED <<formats, nextId, config, syncFile>> /\ Disturbed /\ nextId \in Nat /\ DOMAIN p = ProfileFields
    BY <1>3 DEF EditProfile, SyncInv, ObjectsFit
  <2>4. q.id = p.id /\ q.name = p.name /\ (q.scores = p.scores \/ q.scores = Ids(formats))
    BY <2>3 DEF ProfileFields
  <2>5. Nobody \notin Ids(formats)
    BY DEF NamesFit, Ids
  <2>6. \A r \in profiles' : r.id # Nobody /\ Nobody \notin r.scores /\ \A f \in formats : f.id # r.id
    BY <2>2, <2>4, <2>5 DEF NamesFit
  <2>7. \A r, s \in profiles' : r.name = Synced /\ s.name = Synced => r = s
    BY <2>2, <2>4 DEF NamesFit
  <2>8. NamesFit'
    BY <2>3, <2>6, <2>7 DEF NamesFit
  <2>9. QED
    BY <2>3, <2>8, DisturbedJobs
<1>4. QED
  BY <1>1, <1>2, <1>3

LEMMA NamesStart == TrashInit => NamesFit /\ JobsFit
<1> SUFFICES ASSUME TrashInit PROVE NamesFit /\ JobsFit
  OBVIOUS
<1>1. run = NoRun /\ nextId = 3 /\ syncFile.owned = {}
  BY DEF TrashInit
<1>2. DOMAIN config = {"wanted", "profile", "others", "unused", "apply"} /\ config.wanted \subseteq Guide
  BY DEF TrashInit
<1>3. \E t : \A f \in formats : f = [id |-> 1, name |-> t, body |-> Own, by |-> "operator"]
  <2>1. formats \in {{}, {[id |-> 1, name |-> t, body |-> Own, by |-> "operator"] : t \in {CHOOSE t \in Guide : TRUE}}}
    BY DEF TrashInit
  <2>2. PICK u : u = CHOOSE t \in Guide : TRUE
    OBVIOUS
  <2>3. \A f \in formats : f \in {[id |-> 1, name |-> t, body |-> Own, by |-> "operator"] : t \in {u}}
    BY <2>1, <2>2
  <2>4. QED
    BY <2>3
<1>4. \A f \in formats : f.id = 1 /\ \A g \in formats : f = g
  BY <1>3
<1>5. profiles \in {{}, {[id |-> 2, name |-> "other", body |-> Own, scores |-> {}, by |-> "operator", used |-> FALSE]}}
  BY DEF TrashInit
<1>6. \A p \in profiles : p.id = 2 /\ p.scores = {} /\ \A q \in profiles : p = q
  <2>1. PICK r : r = [id |-> 2, name |-> "other", body |-> Own, scores |-> {}, by |-> "operator", used |-> FALSE]
    OBVIOUS
  <2>2. r.id = 2 /\ r.scores = {} /\ (profiles = {} \/ profiles = {r})
    BY <1>5, <2>1
  <2>3. QED
    BY <2>2
<1>7. NamesFit
  BY <1>1, <1>2, <1>4, <1>6 DEF NamesFit, OncePerKey, Nobody
<1>8. QED
  BY <1>1, <1>7 DEF JobsFit

LEMMA SizesNames ==
  ASSUME SyncInv, NamesFit, JobsFit, NEW job \in run.todo, WriteSizes(job)
  PROVE  NamesFit' /\ JobsFit'
<1>1. PICK outcome : Wrote(job, outcome, run)
  BY DEF WriteSizes
<1>2. /\ run # NoRun /\ DOMAIN run = RunFields /\ nextId \in Nat
      /\ UNCHANGED <<formats, profiles, nextId, config, syncFile>>
  BY DEF WriteSizes, Takes, Idle, SyncInv, ObjectsFit
<1>3. NamesFit'
  BY <1>2 DEF NamesFit
<1>4. /\ OncePerKey(run.owned) /\ OncePerKey(run.ids)
      /\ \A c \in run.todo : c.kind = "format" => [key |-> c.key, id |-> c.at] \in run.ids
  BY <1>2 DEF JobsFit
<1>5. nextId' \in Nat /\ nextId' >= nextId
  BY <1>2
<1>6. PICK upd : upd = run
  OBVIOUS
<1>7. JobsFit'
  BY <1>1, <1>2, <1>4, <1>5, <1>6, WroteJobs
<1>8. QED
  BY <1>3, <1>7

LEMMA NamesStep == SyncInv /\ NamesFit /\ JobsFit /\ [TrashNext]_trashVars => NamesFit' /\ JobsFit'
<1> SUFFICES ASSUME SyncInv, NamesFit, JobsFit, [TrashNext]_trashVars
             PROVE  NamesFit' /\ JobsFit'
  OBVIOUS
<1>1. CASE Pick \/ UNCHANGED trashVars
  <2>1. UNCHANGED <<formats, profiles, nextId, config, run>> /\ syncFile' = syncFile
    BY <1>1 DEF Pick, trashVars, app
  <2>2. QED
    BY <2>1 DEF NamesFit, JobsFit
<1>2. CASE Unread
  <2>1. UNCHANGED <<formats, profiles, nextId, config, run>> /\ syncFile'.owned = syncFile.owned
    BY <1>2 DEF Unread, app, SyncInv
  <2>2. QED
    BY <2>1 DEF NamesFit, JobsFit
<1>3. CASE Start
  BY <1>3, StartNames
<1>4. ASSUME NEW job \in run.todo,
             WriteFormat(job) \/ WriteProfile(job) \/ WriteSizes(job) \/ DeleteFormat(job) \/ DeleteProfile(job)
      PROVE  NamesFit' /\ JobsFit'
  BY <1>4, FormatNames, ProfileNames, SizesNames, DeletionNames
<1>5. CASE SaveSync
  <2>1. /\ UNCHANGED <<formats, profiles, nextId, config>>
        /\ run # NoRun /\ run' = NoRun /\ syncFile'.owned = run.owned
    BY <1>5 DEF SaveSync, app, Idle
  <2>2. QED
    BY <2>1 DEF NamesFit, JobsFit
<1>6. CASE Stop
  <2>1. UNCHANGED <<formats, profiles, nextId, config, syncFile>> /\ run' = NoRun
    BY <1>6 DEF Stop, app
  <2>2. QED
    BY <2>1 DEF NamesFit, JobsFit
<1>7. CASE MakeFormat \/ EditFormat \/ EditProfile
  BY <1>7, OperatorNames
<1>8. CASE Configure
  <2>1. run = NoRun /\ UNCHANGED <<formats, profiles, nextId, syncFile, run>>
    BY <1>8 DEF Configure, Idle, app
  <2>2. DOMAIN config' = DOMAIN config /\ config'.wanted \subseteq Guide
    <3>1. CASE \E some \in SUBSET Guide : config' = [config EXCEPT !.wanted = some]
      BY <3>1 DEF NamesFit
    <3>2. CASE config' = [config EXCEPT !.profile = ~@]
      BY <3>2 DEF NamesFit
    <3>3. CASE config' = [config EXCEPT !.others = ~@] \/ config' = [config EXCEPT !.unused = ~@]
      BY <3>3 DEF NamesFit
    <3>4. QED
      BY <1>8, <3>1, <3>2, <3>3 DEF Configure
  <2>3. QED
    BY <2>1, <2>2 DEF NamesFit, JobsFit
<1>9. QED
  BY <1>1, <1>2, <1>3, <1>4, <1>5, <1>6, <1>7, <1>8 DEF TrashNext

(* Only writes that are taken leave a run undisturbed. *)
LEMMA CalmWrite ==
  ASSUME SyncInv, run # NoRun, NEW job \in run.todo, NEW outcome, NEW upd,
         DOMAIN upd = RunFields, upd.todo = run.todo, upd.config = run.config,
         upd.calm = run.calm, upd.all = run.all, Wrote(job, outcome, upd), Undisturbed'
  PROVE  /\ outcome = "done" /\ run.calm /\ run.all
         /\ run'.todo = run.todo \ {job} /\ run'.config = run.config
         /\ run'.owned = upd.owned /\ run'.ids = upd.ids
<1>1. DOMAIN run = RunFields
  BY DEF SyncInv
<1>2. run'.calm /\ run'.all
  BY DEF Undisturbed
<1>3. CASE outcome # "done"
  <2>1. run' = [run EXCEPT !.todo = @ \ {job}, !.calm = FALSE]
    BY <1>3 DEF Wrote
  <2>2. QED
    BY <1>1, <1>2, <2>1 DEF RunFields
<1>4. CASE outcome = "done"
  <2>1. run' = [upd EXCEPT !.todo = @ \ {job}, !.wrote = TRUE]
    BY <1>4 DEF Wrote
  <2>2. /\ run'.todo = run.todo \ {job} /\ run'.config = run.config
        /\ run'.owned = upd.owned /\ run'.ids = upd.ids
        /\ run'.calm = run.calm /\ run'.all = run.all
    BY <2>1 DEF RunFields
  <2>3. QED
    BY <1>2, <1>4, <2>2
<1>5. QED
  BY <1>3, <1>4

(* What is matched stays while neither the objects nor the records of the   *)
(* key change.                                                               *)
LEMMA SameMatch ==
  ASSUME NEW objects, NEW owned, NEW kept, NEW key,
         OncePerKey(owned), OncePerKey(kept), OneNamed(objects, key),
         \A id \in Ids(objects) : (\E m \in owned : m.key = key /\ m.id = id) <=> (\E m \in kept : m.key = key /\ m.id = id)
  PROVE  Match(objects, kept, key) = Match(objects, owned, key)
<1>1. \A id : Recorded(objects, owned, key, id) <=> Recorded(objects, kept, key, id)
  BY DEF Recorded
<1>2. Named(objects, key) # {} \/ Named(objects, key) = {}
  OBVIOUS
<1>3. QED
  BY <1>1, <1>2, MatchStays

LEMMA FormatsNamed == ASSUME NamesFit, NEW t PROVE OneNamed(formats, t)
  BY DEF NamesFit, OneNamed
LEMMA ProfilesNamed == ASSUME NamesFit PROVE OneNamed(profiles, Synced)
  BY DEF NamesFit, OneNamed

LEMMA SizesSettle ==
  ASSUME SettleInv, NEW job \in run.todo, WriteSizes(job), Undisturbed'
  PROVE  Settles'
<1>1. PICK outcome : Wrote(job, outcome, run) /\ (outcome # "refused" => sizes' = Synced)
  BY DEF WriteSizes
<1>2. /\ run # NoRun /\ DOMAIN run = RunFields /\ SyncInv
      /\ job.kind = "sizes" /\ UNCHANGED <<formats, profiles>>
  BY DEF WriteSizes, Takes, Idle, SyncInv, SettleInv
<1>3. PICK upd : upd = run
  OBVIOUS
<1>4. /\ outcome = "done" /\ run.calm /\ run.all
      /\ run'.todo = run.todo \ {job} /\ run'.config = run.config
      /\ run'.owned = run.owned /\ run'.ids = run.ids
  BY <1>1, <1>2, <1>3, CalmWrite
<1>5. ~Collide
  BY <1>4 DEF Undisturbed, Collide
<1>6. Settles
  BY <1>2, <1>4, <1>5 DEF SettleInv, Undisturbed
<1>7. sizes' = Synced
  BY <1>1, <1>4
<1>8. \A c \in run.todo : c.kind # "sizes" => c \in run'.todo
  BY <1>2, <1>4
<1>9. \A t : FormatOf(t)' = FormatOf(t)
  BY <1>2, <1>4 DEF FormatOf
<1>10. ProfileOf' = ProfileOf
  BY <1>2, <1>4 DEF ProfileOf
<1>11. PICK W : W = Wants(run.config) /\ W = Wants(run'.config)
  BY <1>4
<1>12. FormatsOf(W)' = FormatsOf(W)
  BY <1>9 DEF FormatsOf
<1>13. FormatsPend'
  <2>1. \A t : Laid(t) => Laid(t)'
    BY <1>2, <1>9 DEF Laid
  <2>2. QED
    BY <1>4, <1>6, <1>8, <1>9, <2>1 DEF Settles, FormatsPend
<1>14. ProfilePends'
  <2>1. ProfileLaid => ProfileLaid'
    BY <1>2, <1>10, <1>11, <1>12 DEF ProfileLaid
  <2>2. Pends("profile") => Pends("profile")'
    BY <1>8 DEF Pends
  <2>3. QED
    BY <1>4, <1>6, <1>7, <1>9, <1>10, <2>1, <2>2 DEF Settles, ProfilePends
<1>15. DeletionsPend'
  BY <1>2, <1>4, <1>6, <1>8, <1>11, <1>12 DEF Settles, DeletionsPend, Pends
<1>16. QED
  BY <1>13, <1>14, <1>15 DEF Settles

LEMMA FormatMatchIs ==
  ASSUME NamesFit, JobsFit, run # NoRun, NEW t
  PROVE  /\ FormatOf(t) = Nobody \/ FormatOf(t) \in Ids(formats)
         /\ \A id : Recorded(formats, run.owned, t, id) => FormatOf(t) = id
<1>1. OncePerKey(run.owned) /\ OneNamed(formats, t)
  BY FormatsNamed DEF JobsFit
<1>2. QED
  BY <1>1, MatchThere, MatchIs DEF FormatOf

LEMMA DeletionSettles ==
  ASSUME SettleInv, (NamesFit /\ JobsFit)', NEW job \in run.todo, DeleteFormat(job), Undisturbed'
  PROVE  Settles'
<1>1. PICK outcome :
        /\ outcome # "refused" => /\ job.at \in Ids(formats)
                                  /\ formats' = {f \in formats : f.id # job.at}
                                  /\ profiles' = {[p EXCEPT !.scores = @ \ {job.at}] : p \in profiles}
        /\ Wrote(job, outcome, Dropped(job.at))
  BY DEF DeleteFormat, Outcome
<1>2. /\ run # NoRun /\ DOMAIN run = RunFields /\ SyncInv /\ NamesFit /\ JobsFit
      /\ job.kind = "delete format" /\ sizes' = sizes
  BY DEF DeleteFormat, Takes, Idle, SyncInv, SettleInv
<1>3. PICK upd : upd = Dropped(job.at)
  OBVIOUS
<1>4. /\ DOMAIN upd = RunFields /\ upd.todo = run.todo /\ upd.config = run.config /\ upd.ids = run.ids
      /\ upd.calm = run.calm /\ upd.all = run.all /\ upd.owned = {m \in run.owned : m.id # job.at}
  BY <1>2, <1>3 DEF Dropped, RunFields
<1>5. /\ outcome = "done" /\ run.calm /\ run.all
      /\ run'.todo = run.todo \ {job} /\ run'.config = run.config
      /\ run'.owned = {m \in run.owned : m.id # job.at} /\ run'.ids = run.ids
  <2>1. Wrote(job, outcome, upd)
    BY <1>1, <1>3
  <2>2. /\ outcome = "done" /\ run.calm /\ run.all
        /\ run'.todo = run.todo \ {job} /\ run'.config = run.config
        /\ run'.owned = upd.owned /\ run'.ids = upd.ids
    BY <1>2, <1>4, <2>1, CalmWrite
  <2>3. QED
    BY <1>4, <2>2
<1>6. ~Collide
  BY <1>5 DEF Undisturbed, Collide
<1>7. Settles
  BY <1>2, <1>5, <1>6 DEF SettleInv, Undisturbed
<1>8. \A c \in run.todo : c.kind # "delete format" => c \in run'.todo
  BY <1>2, <1>5
<1>9. PICK W : W = Wants(run.config) /\ W = Wants(run'.config)
  BY <1>5
<1>10. PICK gone : gone = job.at
  OBVIOUS
<1>11. /\ gone \in Ids(formats) /\ gone \notin FormatsOf(W) /\ gone # Nobody
       /\ formats' = {f \in formats : f.id # gone}
       /\ profiles' = {[p EXCEPT !.scores = @ \ {gone}] : p \in profiles}
       /\ run'.owned = {m \in run.owned : m.id # gone}
       /\ \A p \in profiles : p.id # gone
  <2>1. job.at \notin FormatsOf(W) /\ job.at # Nobody
    BY <1>2, <1>7, <1>9 DEF Settles, DeletionsPend, JobsFit
  <2>2. \A p \in profiles : p.id # job.at
    <3>1. PICK f \in formats : f.id = job.at
      BY <1>1, <1>5 DEF Ids
    <3>2. QED
      BY <1>2, <3>1 DEF NamesFit
  <2>3. QED
    BY <1>1, <1>5, <1>10, <2>1, <2>2
<1>12. /\ OncePerKey(run.owned) /\ OncePerKey(run'.owned)
       /\ \A t : OneNamed(formats, t) /\ OneNamed(formats', t)
       /\ OneNamed(profiles, Synced) /\ OneNamed(profiles', Synced)
  <2>1. OncePerKey(run.owned) /\ OncePerKey(run'.owned)
    BY <1>2, <1>5 DEF JobsFit, OncePerKey
  <2>2. QED
    BY <1>2, <2>1 DEF NamesFit, OneNamed
<1>13. ASSUME NEW t \in W PROVE FormatOf(t)' = FormatOf(t)
  <2>1. FormatOf(t) # gone
    BY <1>11 DEF FormatsOf
  <2>2. \A id : Recorded(formats, run.owned, t, id) => id # gone
    BY <1>2, <2>1, FormatMatchIs
  <2>3. \A id : Recorded(formats, run.owned, t, id) <=> Recorded(formats', run'.owned, t, id)
    BY <1>11, <2>2 DEF Recorded, Ids
  <2>4. \A o \in formats : o.name = t /\ o.id = Match(formats, run.owned, t) =>
           \E q \in formats' : q.name = t /\ q.id = o.id
    BY <1>11, <2>1 DEF FormatOf
  <2>5. Named(formats, t) # {} \/ Named(formats', t) = {}
    BY <1>11 DEF Named
  <2>6. Match(formats', run'.owned, t) = Match(formats, run.owned, t)
    BY <1>12, <2>3, <2>4, <2>5, MatchStays
  <2>7. QED
    BY <2>6 DEF FormatOf
<1>14. /\ \A p \in profiles : \E q \in profiles' : q.id = p.id /\ q.name = p.name /\ q.body = p.body /\ q.scores = p.scores \ {gone}
       /\ \A q \in profiles' : \E p \in profiles : q.id = p.id /\ q.name = p.name
  <2>1. ASSUME NEW p \in profiles
        PROVE  LET q == [p EXCEPT !.scores = @ \ {gone}]
               IN  q \in profiles' /\ q.id = p.id /\ q.name = p.name /\ q.body = p.body /\ q.scores = p.scores \ {gone}
    BY <1>2, <1>11 DEF SyncInv, ObjectsFit, ProfileFields
  <2>2. \A q \in profiles' : \E p \in profiles : q = [p EXCEPT !.scores = @ \ {gone}]
    BY <1>11
  <2>3. QED
    BY <2>1, <2>2
<1>15. ProfileOf' = ProfileOf
  <2>1. \A id : Recorded(profiles, run.owned, Synced, id) <=> Recorded(profiles', run'.owned, Synced, id)
    <3>1. \A id : id \in Ids(profiles) <=> id \in Ids(profiles')
      BY <1>14 DEF Ids
    <3>2. \A id \in Ids(profiles) : id # gone
      BY <1>11 DEF Ids
    <3>3. QED
      BY <1>11, <3>1, <3>2 DEF Recorded
  <2>2. \A o \in profiles : o.name = Synced /\ o.id = Match(profiles, run.owned, Synced) =>
           \E q \in profiles' : q.name = Synced /\ q.id = o.id
    BY <1>14
  <2>3. Named(profiles, Synced) # {} \/ Named(profiles', Synced) = {}
    BY <1>14 DEF Named
  <2>4. Match(profiles', run'.owned, Synced) = Match(profiles, run.owned, Synced)
    BY <1>12, <2>1, <2>2, <2>3, MatchStays
  <2>5. QED
    BY <2>4 DEF ProfileOf
<1>16. FormatsOf(W)' = FormatsOf(W)
  BY <1>13 DEF FormatsOf
<1>17. FormatsPend'
  <2>1. \A t \in W : Laid(t) => Laid(t)'
    BY <1>11, <1>13 DEF Laid, FormatsOf
  <2>2. \A c \in run.todo : c.kind = "format" => c.key \in W
    BY <1>2, <1>9 DEF JobsFit
  <2>3. \A c \in run'.todo : c \in run.todo
    BY <1>5
  <2>4. QED
    BY <1>7, <1>8, <1>9, <1>13, <2>1, <2>2, <2>3 DEF Settles, FormatsPend
<1>18. ProfilePends'
  <2>1. ProfileLaid => ProfileLaid'
    <3>1. SUFFICES ASSUME ProfileLaid PROVE ProfileLaid'
      OBVIOUS
    <3>2. PICK p \in profiles : p.id = ProfileOf /\ p.name = Synced /\ p.body = Synced /\ p.scores = FormatsOf(W)
      BY <1>9, <3>1 DEF ProfileLaid
    <3>3. PICK q \in profiles' : q.id = p.id /\ q.name = p.name /\ q.body = p.body /\ q.scores = p.scores \ {gone}
      BY <1>14
    <3>4. q.scores = FormatsOf(W)
      BY <1>11, <3>2, <3>3
    <3>5. QED
      BY <1>9, <1>15, <1>16, <3>2, <3>3, <3>4 DEF ProfileLaid
  <2>2. Pends("profile") => Pends("profile")'
    BY <1>8 DEF Pends
  <2>3. Pends("sizes") => Pends("sizes")'
    BY <1>8 DEF Pends
  <2>4. \A c \in run'.todo : c \in run.todo
    BY <1>5
  <2>5. SUFFICES ASSUME run.config.profile PROVE ProfilePends'
    BY <1>5 DEF ProfilePends
  <2>6. run.config.wanted = W
    BY <1>9, <2>5 DEF Wants
  <2>7. run'.ids = {[key |-> t, id |-> FormatOf(t)'] : t \in W}
    <3>1. run'.ids = {[key |-> t, id |-> FormatOf(t)] : t \in W}
      BY <1>5, <1>7, <2>5, <2>6 DEF Settles, ProfilePends
    <3>2. QED
      BY <1>13, <3>1
  <2>8. ProfileLaid' \/ Pends("profile")'
    BY <1>7, <2>1, <2>2, <2>5 DEF Settles, ProfilePends
  <2>9. sizes' = Synced \/ Pends("sizes")'
    BY <1>2, <1>7, <2>3, <2>5 DEF Settles, ProfilePends
  <2>10. \A c \in run'.todo : c.kind = "profile" => c.at = ProfileOf'
    BY <1>7, <1>15, <2>4, <2>5 DEF Settles, ProfilePends
  <2>11. QED
    BY <1>5, <2>6, <2>7, <2>8, <2>9, <2>10 DEF ProfilePends
<1>19. DeletionsPend'
  <2>1. \A c \in run'.todo : c \in run.todo
    BY <1>5
  <2>2. \A c \in run'.todo : c.kind = "delete format" => c.at \notin FormatsOf(W)
    BY <1>7, <1>9, <2>1 DEF Settles, DeletionsPend
  <2>3. ASSUME NEW f \in formats', f.id \notin FormatsOf(W), run.config.others \/ f.id \in Ids(run'.owned)
        PROVE  \E c \in run'.todo : c.kind = "delete format" /\ c.at = f.id
    <3>1. f \in formats /\ f.id # gone /\ (run.config.others \/ f.id \in Ids(run.owned))
      BY <1>11, <2>3 DEF Ids
    <3>2. PICK c \in run.todo : c.kind = "delete format" /\ c.at = f.id
      BY <1>7, <1>9, <2>3, <3>1 DEF Settles, DeletionsPend
    <3>3. QED
      BY <1>5, <1>10, <3>1, <3>2
  <2>4. ~Pends("delete profile")'
    BY <1>7, <2>1 DEF Settles, DeletionsPend, Pends
  <2>5. QED
    BY <1>5, <1>9, <1>16, <2>2, <2>3, <2>4 DEF DeletionsPend
<1>20. QED
  BY <1>17, <1>18, <1>19 DEF Settles

(* A write nothing on the list comes before. *)
LEMMA ProfileFirst ==
  ASSUME JobsFit, run # NoRun, NEW job \in run.todo, job.kind = "profile", Foremost(job, run.todo)
  PROVE  /\ ~Pends("format")
         /\ \A c \in run.todo : c.kind = "profile" /\ c.at = job.at => c = job
<1>1. \A c \in run.todo \ {job} :
        Stage(job.kind) < Stage(c.kind) \/ (Stage(job.kind) = Stage(c.kind) /\ Within(job) < Within(c))
  BY DEF Foremost
<1>2. Stage("format") = 0 /\ Stage("profile") = 1
  BY DEF Stage
<1>3. ASSUME NEW c \in run.todo, c.kind = "format" PROVE FALSE
  <2>1. Stage(job.kind) < Stage(c.kind) \/ Stage(job.kind) = Stage(c.kind)
    BY <1>1, <1>3
  <2>2. Stage(job.kind) = 1 /\ Stage(c.kind) = 0
    BY <1>2, <1>3
  <2>3. QED
    BY <2>1, <2>2
<1>4. ASSUME NEW c \in run.todo, c.kind = "profile", c.at = job.at, c # job PROVE FALSE
  <2>1. Stage(job.kind) = 1 /\ Stage(c.kind) = 1
    BY <1>2, <1>4
  <2>2. Within(job) < Within(c)
    BY <1>1, <1>4, <2>1
  <2>3. PICK at : at = job.at
    OBVIOUS
  <2>4. Within(job) = at /\ Within(c) = at /\ at \in Nat
    BY <1>4, <2>3 DEF Within, JobsFit
  <2>5. QED
    BY <2>2, <2>4
<1>5. QED
  BY <1>3, <1>4 DEF Pends

LEMMA ProfileSettles ==
  ASSUME SettleInv, (NamesFit /\ JobsFit)', NEW job \in run.todo, WriteProfile(job), Undisturbed'
  PROVE  Settles'
<1> DEFINE new == job.at = Nobody
           id == IF new THEN nextId ELSE job.at
           ok == /\ Free(profiles, Synced, id) /\ (new \/ id \in Ids(profiles))
                 /\ run.known = Ids(formats)
           was == IF new THEN [by |-> "flinch", used |-> FALSE] ELSE With(profiles, id)
           body == [id |-> id, name |-> Synced, body |-> Synced,
                    scores |-> {m.id : m \in run.ids} \ {Nobody}, by |-> was.by, used |-> was.used]
           upd == [run EXCEPT !.owned = Created(@, Synced, id, job.at)]
<1>1. PICK outcome \in Outcome(ok) :
        /\ profiles' = IF outcome = "refused" THEN profiles ELSE {p \in profiles : p.id # id} \cup {body}
        /\ Wrote(job, outcome, upd)
  BY Zenon DEF WriteProfile
<1>2. /\ run # NoRun /\ DOMAIN run = RunFields /\ SyncInv /\ NamesFit /\ JobsFit
      /\ job.kind = "profile" /\ Foremost(job, run.todo)
      /\ formats' = formats /\ sizes' = sizes /\ nextId \in Nat
  BY DEF WriteProfile, Takes, Idle, SyncInv, ObjectsFit, SettleInv
<1>3. PICK made : made = body
  OBVIOUS
<1>4. /\ made.id = id /\ made.name = Synced /\ made.body = Synced
      /\ made.scores = {m.id : m \in run.ids} \ {Nobody}
  BY <1>3
<1>5. outcome # "refused" => /\ Free(profiles, Synced, id) /\ (new \/ id \in Ids(profiles))
                             /\ profiles' = {p \in profiles : p.id # id} \cup {made}
  BY <1>1, <1>3 DEF Outcome
<1>6. /\ DOMAIN upd = RunFields /\ upd.todo = run.todo /\ upd.config = run.config /\ upd.ids = run.ids
      /\ upd.calm = run.calm /\ upd.all = run.all /\ upd.owned = Created(run.owned, Synced, id, job.at)
  BY <1>2 DEF RunFields
<1>7. PICK at : at = id
  OBVIOUS
<1>8. (new => at = nextId) /\ (~new => at = job.at)
  BY <1>7
<1> HIDE DEF ok, was, body, upd, id
<1>9. /\ outcome = "done" /\ run.calm /\ run.all
      /\ run'.todo = run.todo \ {job} /\ run'.config = run.config
      /\ run'.owned = upd.owned /\ run'.ids = run.ids
  BY <1>1, <1>2, <1>6, CalmWrite
<1>10. /\ Free(profiles, Synced, at) /\ (new \/ at \in Ids(profiles))
       /\ profiles' = {p \in profiles : p.id # at} \cup {made} /\ made.id = at
       /\ run'.owned = Created(run.owned, Synced, at, job.at)
  BY <1>4, <1>5, <1>6, <1>7, <1>9
<1>11. Settles
  <2>1. ~Collide
    BY <1>9 DEF Undisturbed, Collide
  <2>2. QED
    BY <1>2, <1>9, <2>1 DEF SettleInv, Undisturbed
<1>12. \A c \in run.todo : c.kind # "profile" => c \in run'.todo
  BY <1>2, <1>9
<1>13. PICK W : W = Wants(run.config) /\ W = Wants(run'.config)
  BY <1>9
<1>14. /\ W \subseteq Guide /\ Synced \notin W
       /\ run.config.profile => W = run.config.wanted
       /\ ~run.config.profile => W = {}
  BY <1>2, <1>13, SyncedApart DEF Wants, JobsFit
<1>15. /\ OncePerKey(run.owned) /\ OncePerKey(run'.owned)
       /\ \A t : OneNamed(formats, t)
       /\ OneNamed(profiles, Synced) /\ OneNamed(profiles', Synced)
  <2>1. OncePerKey(run.owned)
    BY <1>2 DEF JobsFit
  <2>2. OncePerKey(run'.owned)
    BY <1>10, <2>1, CreatedOnce
  <2>3. QED
    BY <1>2, <2>1, <2>2 DEF NamesFit, OneNamed
<1>16. /\ \A m \in run.owned : m.key # Synced => m \in run'.owned
       /\ \A m \in run'.owned : m \in run.owned \/ (new /\ m.key = Synced /\ m.id = at)
  BY <1>10 DEF Created, Without
<1>17. ASSUME NEW t \in W PROVE FormatOf(t)' = FormatOf(t)
  <2>1. \A i \in Ids(formats) :
          (\E m \in run.owned : m.key = t /\ m.id = i) <=> (\E m \in run'.owned : m.key = t /\ m.id = i)
    BY <1>14, <1>16
  <2>2. Match(formats, run'.owned, t) = Match(formats, run.owned, t)
    BY <1>15, <2>1, SameMatch
  <2>3. QED
    BY <1>2, <2>2 DEF FormatOf
<1>18. FormatsOf(W)' = FormatsOf(W)
  BY <1>17 DEF FormatsOf
<1>19. ASSUME run.config.profile PROVE ProfileOf' = at
  <2>1. CASE new
    <3>1. [key |-> Synced, id |-> at] \in run'.owned
      BY <1>10, <2>1 DEF Created
    <3>2. PICK m : m = [key |-> Synced, id |-> at]
      OBVIOUS
    <3>3. m \in run'.owned /\ m.key = Synced /\ m.id = at /\ at \in Ids(profiles')
      BY <1>10, <3>1, <3>2 DEF Ids
    <3>4. Recorded(profiles', run'.owned, Synced, at)
      BY <3>3 DEF Recorded
    <3>5. Match(profiles', run'.owned, Synced) = at
      BY <1>15, <3>4, MatchIs
    <3>6. QED
      BY <3>5 DEF ProfileOf
  <2>2. CASE ~new
    <3>1. at = ProfileOf
      BY <1>2, <1>8, <1>11, <1>19, <2>2 DEF Settles, ProfilePends
    <3>2. run'.owned = run.owned
      BY <1>10, <2>2 DEF Created
    <3>3. \A i : i \in Ids(profiles') <=> i \in Ids(profiles)
      BY <1>10, <2>2 DEF Ids
    <3>4. \A i : Recorded(profiles, run.owned, Synced, i) <=> Recorded(profiles', run'.owned, Synced, i)
      BY <3>2, <3>3 DEF Recorded
    <3>5. \A o \in profiles : o.name = Synced /\ o.id = Match(profiles, run.owned, Synced) =>
             \E q \in profiles' : q.name = Synced /\ q.id = o.id
      BY <1>4, <1>10, <3>1 DEF ProfileOf
    <3>6. at # Nobody
      BY <1>8, <2>2
    <3>7. Match(profiles', run'.owned, Synced) = Match(profiles, run.owned, Synced)
      BY <1>15, <3>1, <3>4, <3>5, <3>6, MatchStays DEF ProfileOf
    <3>8. QED
      BY <3>1, <3>7 DEF ProfileOf
  <2>3. QED
    BY <2>1, <2>2
<1>20. /\ \A c \in run.todo : c.kind # "format"
       /\ \A c \in run.todo : c.kind = "profile" /\ c.at = job.at => c = job
  BY <1>2, ProfileFirst DEF Pends
<1>21. \A t \in W : Laid(t)
  BY <1>11, <1>13, <1>20 DEF Settles, FormatsPend
<1>22. FormatsPend'
  <2>1. \A t \in W : Laid(t)'
    BY <1>2, <1>17, <1>21 DEF Laid
  <2>2. \A c \in run'.todo : c.kind # "format"
    BY <1>9, <1>20
  <2>3. QED
    BY <1>13, <2>1, <2>2 DEF FormatsPend
<1>23. ProfilePends'
  <2>1. SUFFICES ASSUME run.config.profile PROVE ProfilePends'
    BY <1>9 DEF ProfilePends
  <2>2. run.config.wanted = W
    BY <1>14, <2>1
  <2>3. run.ids = {[key |-> t, id |-> FormatOf(t)] : t \in W}
    BY <1>11, <2>1, <2>2 DEF Settles, ProfilePends
  <2>4. run'.ids = {[key |-> t, id |-> FormatOf(t)'] : t \in W}
    BY <1>9, <1>17, <2>3
  <2>5. ProfileLaid'
    <3>1. Nobody \notin FormatsOf(W)
      BY <1>2, <1>21 DEF FormatsOf, Laid, NamesFit
    <3>2. {m.id : m \in run.ids} = FormatsOf(W)
      <4>1. \A m \in run.ids : m.id \in FormatsOf(W)
        BY <2>3 DEF FormatsOf
      <4>2. ASSUME NEW i \in FormatsOf(W) PROVE \E m \in run.ids : m.id = i
        <5>1. PICK t \in W : i = FormatOf(t)
          BY <4>2 DEF FormatsOf
        <5>2. PICK m : m = [key |-> t, id |-> i]
          OBVIOUS
        <5>3. QED
          BY <2>3, <5>1, <5>2
      <4>3. QED
        BY <4>1, <4>2
    <3>3. made.scores = FormatsOf(W)
      BY <1>4, <3>1, <3>2
    <3>4. made \in profiles'
      BY <1>10
    <3>5. QED
      BY <1>4, <1>10, <1>13, <1>18, <1>19, <2>1, <3>3, <3>4 DEF ProfileLaid
  <2>6. \A c \in run'.todo : c.kind # "profile"
    BY <1>2, <1>9, <1>11, <1>20, <2>1 DEF Settles, ProfilePends
  <2>7. sizes' = Synced \/ Pends("sizes")'
    BY <1>2, <1>11, <1>12, <2>1 DEF Settles, ProfilePends, Pends
  <2>8. QED
    BY <1>9, <2>2, <2>4, <2>5, <2>6, <2>7 DEF ProfilePends
<1>24. DeletionsPend'
  <2>1. \A c \in run'.todo : c \in run.todo
    BY <1>9
  <2>2. \A c \in run'.todo : c.kind = "delete format" => c.at \notin FormatsOf(W)
    BY <1>11, <1>13, <2>1 DEF Settles, DeletionsPend
  <2>3. ASSUME NEW f \in formats, f.id \notin FormatsOf(W), run.config.others \/ f.id \in Ids(run'.owned)
        PROVE  \E c \in run'.todo : c.kind = "delete format" /\ c.at = f.id
    <3>1. new => f.id # at
      BY <1>2, <1>8 DEF SyncInv, ObjectsFit
    <3>2. run.config.others \/ f.id \in Ids(run.owned)
      BY <1>16, <2>3, <3>1 DEF Ids
    <3>3. PICK c \in run.todo : c.kind = "delete format" /\ c.at = f.id
      BY <1>11, <1>13, <2>3, <3>2 DEF Settles, DeletionsPend
    <3>4. QED
      BY <1>12, <3>3
  <2>4. ~Pends("delete profile")'
    BY <1>11, <2>1 DEF Settles, DeletionsPend, Pends
  <2>5. QED
    BY <1>2, <1>9, <1>13, <1>18, <2>2, <2>3, <2>4 DEF DeletionsPend
<1>25. QED
  BY <1>22, <1>23, <1>24 DEF Settles

LEMMA FormatSettles ==
  ASSUME SettleInv, (NamesFit /\ JobsFit)', NEW job \in run.todo, WriteFormat(job), Undisturbed'
  PROVE  Settles'
<1> DEFINE new == job.at = Nobody
           id == IF new THEN nextId ELSE job.at
           ok == Free(formats, job.key, id) /\ (new \/ id \in Ids(formats))
           by == IF new THEN "flinch" ELSE With(formats, id).by
           body == [id |-> id, name |-> job.key, body |-> job.key, by |-> by]
           upd == [run EXCEPT !.owned = Created(@, job.key, id, job.at), !.known = @ \cup {id},
                              !.ids = Without(@, job.key) \cup {[key |-> job.key, id |-> id]}]
<1>1. PICK outcome \in Outcome(ok) :
        /\ formats' = IF outcome = "refused" THEN formats ELSE {f \in formats : f.id # id} \cup {body}
        /\ Wrote(job, outcome, upd)
  BY Zenon DEF WriteFormat
<1>2. /\ run # NoRun /\ DOMAIN run = RunFields /\ SyncInv /\ NamesFit /\ JobsFit
      /\ job.kind = "format" /\ profiles' = profiles /\ sizes' = sizes /\ nextId \in Nat
  BY DEF WriteFormat, Takes, Idle, SyncInv, ObjectsFit, SettleInv
<1>3. PICK made : made = body
  OBVIOUS
<1>4. made.id = id /\ made.name = job.key /\ made.body = job.key
  BY <1>3
<1>5. outcome # "refused" => /\ Free(formats, job.key, id) /\ (new \/ id \in Ids(formats))
                             /\ formats' = {f \in formats : f.id # id} \cup {made}
  BY <1>1, <1>3 DEF Outcome
<1>6. /\ DOMAIN upd = RunFields /\ upd.todo = run.todo /\ upd.config = run.config
      /\ upd.ids = Without(run.ids, job.key) \cup {[key |-> job.key, id |-> id]}
      /\ upd.calm = run.calm /\ upd.all = run.all /\ upd.owned = Created(run.owned, job.key, id, job.at)
  BY <1>2 DEF RunFields
<1>7. PICK at, k : at = id /\ k = job.key
  OBVIOUS
<1>8. (new => at = nextId) /\ (~new => at = job.at)
  BY <1>7
<1> HIDE DEF ok, by, body, upd, id
<1>9. /\ outcome = "done" /\ run.calm /\ run.all
      /\ run'.todo = run.todo \ {job} /\ run'.config = run.config
      /\ run'.owned = upd.owned /\ run'.ids = upd.ids
  BY <1>1, <1>2, <1>6, CalmWrite
<1>10. /\ Free(formats, k, at) /\ (new \/ at \in Ids(formats))
       /\ formats' = {f \in formats : f.id # at} \cup {made}
       /\ made.id = at /\ made.name = k /\ made.body = k
       /\ run'.owned = Created(run.owned, k, at, job.at)
       /\ run'.ids = Without(run.ids, k) \cup {[key |-> k, id |-> at]}
  BY <1>4, <1>5, <1>6, <1>7, <1>9
<1>11. PICK W : W = Wants(run.config) /\ W = Wants(run'.config)
  BY <1>9
<1>12. /\ k \in W /\ [key |-> k, id |-> job.at] \in run.ids
       /\ W \subseteq Guide /\ Synced \notin W /\ run.config.profile /\ W = run.config.wanted
  <2>1. k \in W /\ [key |-> k, id |-> job.at] \in run.ids
    BY <1>2, <1>7, <1>11 DEF JobsFit
  <2>2. W \subseteq Guide /\ run.config.profile /\ W = run.config.wanted
    BY <1>2, <1>11, <2>1 DEF Wants, JobsFit
  <2>3. QED
    BY <2>1, <2>2, SyncedApart
<1>13. ~Collide
  <2>1. SUFFICES ASSUME Collide PROVE FALSE
    OBVIOUS
  <2>2. PICK m \in run.ids : \E n \in run.ids : m.key # n.key /\ m.id = n.id /\ m.id # Nobody
    BY <2>1 DEF Collide
  <2>3. PICK n \in run.ids : m.key # n.key /\ m.id = n.id /\ m.id # Nobody
    BY <2>2
  <2>4. ASSUME NEW o \in run.ids, o.id # Nobody PROVE \E p \in run'.ids : p.key = o.key /\ p.id = o.id
    <3>1. CASE o.key # k
      BY <1>10, <3>1 DEF Without
    <3>2. CASE o.key = k
      <4>1. o.id = job.at
        <5>1. PICK p : p = [key |-> k, id |-> job.at]
          OBVIOUS
        <5>2. p \in run.ids /\ p.key = k /\ p.id = job.at
          BY <1>12, <5>1
        <5>3. OncePerKey(run.ids)
          BY <1>2 DEF JobsFit
        <5>4. p.id = o.id
          BY <3>2, <5>2, <5>3 DEF OncePerKey
        <5>5. QED
          BY <5>2, <5>4
      <4>2. o.id = at
        BY <1>8, <2>4, <4>1
      <4>3. PICK p : p = [key |-> k, id |-> at]
        OBVIOUS
      <4>4. p \in run'.ids /\ p.key = k /\ p.id = at
        BY <1>10, <4>3
      <4>5. QED
        BY <3>2, <4>2, <4>4
    <3>3. QED
      BY <3>1, <3>2
  <2>5. PICK p \in run'.ids : p.key = m.key /\ p.id = m.id
    BY <2>3, <2>4
  <2>6. PICK q \in run'.ids : q.key = n.key /\ q.id = n.id
    BY <2>3, <2>4
  <2>7. QED
    BY <2>3, <2>5, <2>6 DEF Undisturbed, Collide
<1>14. Settles
  BY <1>2, <1>9, <1>13 DEF SettleInv, Undisturbed
<1>15. /\ run.ids = {[key |-> t, id |-> FormatOf(t)] : t \in W}
       /\ job.at = FormatOf(k)
  BY <1>2, <1>7, <1>12, <1>14 DEF Settles, FormatsPend, ProfilePends
<1>16. \A c \in run.todo : c.kind # "format" \/ c.key # k => c \in run'.todo
  BY <1>2, <1>7, <1>9
<1>17. ASSUME NEW t \in W, t # k, FormatOf(t) # Nobody PROVE FormatOf(t) # at
  <2>1. SUFFICES ASSUME FormatOf(t) = at PROVE FALSE
    OBVIOUS
  <2>2. CASE new
    <3>1. FormatOf(t) \in Ids(formats)
      BY <1>2, <1>17, FormatMatchIs
    <3>2. QED
      BY <1>2, <1>8, <2>1, <2>2, <3>1 DEF Ids, SyncInv, ObjectsFit
  <2>3. CASE ~new
    <3>1. PICK m, n : m = [key |-> t, id |-> at] /\ n = [key |-> k, id |-> at]
      OBVIOUS
    <3>2. m \in run.ids
      BY <1>15, <1>17, <2>1, <3>1
    <3>3. n \in run.ids
      BY <1>8, <1>12, <2>3, <3>1
    <3>4. m.key # n.key /\ m.id = n.id /\ m.id # Nobody
      BY <1>17, <2>1, <3>1
    <3>5. QED
      BY <1>13, <3>2, <3>3, <3>4 DEF Collide
  <2>4. QED
    BY <2>2, <2>3
<1>18. /\ OncePerKey(run.owned) /\ OncePerKey(run'.owned)
       /\ \A t : OneNamed(formats, t) /\ OneNamed(formats', t)
       /\ OneNamed(profiles, Synced) /\ OneNamed(profiles', Synced)
  <2>1. OncePerKey(run.owned)
    BY <1>2 DEF JobsFit
  <2>2. OncePerKey(run'.owned)
    BY <1>10, <2>1, CreatedOnce
  <2>3. QED
    BY <1>2, <2>1, <2>2 DEF NamesFit, OneNamed
<1>19. /\ \A m \in run.owned : m.key # k => m \in run'.owned
       /\ \A m \in run'.owned : m \in run.owned \/ (new /\ m.key = k /\ m.id = at)
       /\ ~new => run'.owned = run.owned
       /\ \A m \in run.owned : m.id \in Nat /\ m.id < nextId
  BY <1>2, <1>10 DEF Created, Without, SyncInv, Flinchs
<1>20. ASSUME NEW t \in W, t # k PROVE FormatOf(t)' = FormatOf(t)
  <2>1. \A i : i \in Ids(formats) => i \in Ids(formats')
    BY <1>10 DEF Ids
  <2>2. \A i : i \in Ids(formats') => i \in Ids(formats) \/ (new /\ i = nextId)
    BY <1>8, <1>10 DEF Ids
  <2>3. \A i : (\E m \in run.owned : m.key = t /\ m.id = i) <=> (\E m \in run'.owned : m.key = t /\ m.id = i)
    BY <1>19, <1>20
  <2>4. \A i : (\E m \in run.owned : m.key = t /\ m.id = i) => i # nextId
    BY <1>2, <1>19
  <2>5. \A i : Recorded(formats, run.owned, t, i) <=> Recorded(formats', run'.owned, t, i)
    BY <2>1, <2>2, <2>3, <2>4 DEF Recorded
  <2>6. \A o \in formats : o.name = t /\ o.id = Match(formats, run.owned, t) =>
           \E q \in formats' : q.name = t /\ q.id = o.id
    <3>1. \A o \in formats : o.id # Nobody
      BY <1>2 DEF NamesFit
    <3>2. \A o \in formats : o.id = Match(formats, run.owned, t) => o.id # at
      BY <1>17, <1>20, <3>1 DEF FormatOf
    <3>3. QED
      BY <1>10, <3>2
  <2>7. Named(formats, t) # {} \/ Named(formats', t) = {}
    <3>1. \A f \in formats' : f.name = t => f \in formats
      BY <1>10, <1>20
    <3>2. QED
      BY <3>1 DEF Named
  <2>8. Match(formats', run'.owned, t) = Match(formats, run.owned, t)
    BY <1>18, <2>5, <2>6, <2>7, MatchStays
  <2>9. QED
    BY <2>8 DEF FormatOf
<1>21. FormatOf(k)' = at
  <2>1. CASE new
    <3>1. PICK m : m = [key |-> k, id |-> at]
      OBVIOUS
    <3>2. m \in run'.owned /\ m.key = k /\ m.id = at
      BY <1>10, <2>1, <3>1 DEF Created
    <3>3. Recorded(formats', run'.owned, k, at)
      BY <1>10, <3>2 DEF Recorded, Ids
    <3>4. QED
      BY <1>18, <3>3, MatchIs DEF FormatOf
  <2>2. CASE ~new
    <3>1. at = FormatOf(k) /\ at # Nobody /\ run'.owned = run.owned
      BY <1>8, <1>15, <1>19, <2>2
    <3>2. \A i : i \in Ids(formats) <=> i \in Ids(formats')
      BY <1>10, <2>2 DEF Ids
    <3>3. \A i : Recorded(formats, run.owned, k, i) <=> Recorded(formats', run'.owned, k, i)
      BY <3>1, <3>2 DEF Recorded
    <3>4. \A o \in formats : o.name = k /\ o.id = Match(formats, run.owned, k) =>
             \E q \in formats' : q.name = k /\ q.id = o.id
      BY <1>10, <3>1 DEF FormatOf
    <3>5. Match(formats', run'.owned, k) = Match(formats, run.owned, k)
      BY <1>18, <3>1, <3>3, <3>4, MatchStays DEF FormatOf
    <3>6. QED
      BY <3>1, <3>5 DEF FormatOf
  <2>3. QED
    BY <2>1, <2>2
<1>22. ProfileOf' = ProfileOf
  <2>1. \A i \in Ids(profiles) :
          (\E m \in run.owned : m.key = Synced /\ m.id = i) <=> (\E m \in run'.owned : m.key = Synced /\ m.id = i)
    BY <1>12, <1>19
  <2>2. Match(profiles, run'.owned, Synced) = Match(profiles, run.owned, Synced)
    BY <1>18, <2>1, SameMatch
  <2>3. QED
    BY <1>2, <2>2 DEF ProfileOf
<1>23. /\ \A i \in FormatsOf(W)' : i \in FormatsOf(W) \/ (new /\ i = nextId)
       /\ \A i \in FormatsOf(W) : i \in FormatsOf(W)' \/ i = Nobody
       /\ at \in FormatsOf(W)'
       /\ ~new => FormatsOf(W)' = FormatsOf(W)
  <2>1. \A t \in W : FormatOf(t)' = FormatOf(t) \/ (t = k /\ new /\ FormatOf(t)' = nextId /\ FormatOf(t) = Nobody)
    BY <1>8, <1>15, <1>20, <1>21
  <2>2. QED
    BY <1>12, <1>21, <2>1 DEF FormatsOf
<1>24. FormatsPend'
  <2>1. Laid(k)'
    BY <1>10, <1>21 DEF Laid
  <2>2. ASSUME NEW t \in W, t # k, Laid(t) PROVE Laid(t)'
    <3>1. PICK f \in formats : f.id = FormatOf(t) /\ f.name = t /\ f.body = t
      BY <2>2 DEF Laid
    <3>2. f.id # at
      BY <1>2, <1>17, <2>2, <3>1 DEF NamesFit
    <3>3. QED
      BY <1>10, <1>20, <2>2, <3>1, <3>2 DEF Laid
  <2>3. ASSUME NEW t \in W PROVE Laid(t)' \/ \E c \in run'.todo : c.kind = "format" /\ c.key = t
    BY <1>11, <1>14, <1>16, <2>1, <2>2 DEF Settles, FormatsPend
  <2>4. ASSUME NEW c \in run'.todo, c.kind = "format" PROVE c.at = FormatOf(c.key)'
    <3>1. c \in run.todo /\ c # job
      BY <1>9, <2>4
    <3>2. c.key # k
      BY <1>2, <1>7, <2>4, <3>1, OneJob
    <3>3. PICK t : t = c.key
      OBVIOUS
    <3>4. t \in W /\ t # k /\ c.at = FormatOf(t)
      BY <1>2, <1>11, <1>14, <2>4, <3>1, <3>2, <3>3 DEF JobsFit, Settles, FormatsPend
    <3>5. c.at = FormatOf(t)'
      BY <1>20, <3>4
    <3>6. QED
      BY <3>3, <3>5
  <2>5. QED
    BY <1>11, <2>3, <2>4 DEF FormatsPend
<1>25. ProfilePends'
  <2>1. run'.ids = {[key |-> t, id |-> FormatOf(t)'] : t \in W}
    <3>1. ASSUME NEW m \in run'.ids PROVE \E t \in W : m = [key |-> t, id |-> FormatOf(t)']
      <4>1. CASE m = [key |-> k, id |-> at]
        BY <1>12, <1>21, <4>1
      <4>2. CASE m \in run.ids /\ m.key # k
        <5>1. PICK t \in W : m = [key |-> t, id |-> FormatOf(t)]
          BY <1>15, <4>2
        <5>2. t # k
          BY <4>2, <5>1
        <5>3. QED
          BY <1>20, <5>1, <5>2
      <4>3. QED
        BY <1>10, <4>1, <4>2 DEF Without
    <3>2. ASSUME NEW t \in W PROVE [key |-> t, id |-> FormatOf(t)'] \in run'.ids
      <4>1. CASE t = k
        BY <1>10, <1>21, <4>1
      <4>2. CASE t # k
        <5>1. PICK m : m = [key |-> t, id |-> FormatOf(t)]
          OBVIOUS
        <5>2. m \in run.ids /\ m.key # k
          BY <1>15, <4>2, <5>1
        <5>3. m \in run'.ids
          BY <1>10, <5>2 DEF Without
        <5>4. QED
          BY <1>20, <4>2, <5>1, <5>3
      <4>3. QED
        BY <4>1, <4>2
    <3>3. QED
      BY <3>1, <3>2
  <2>2. ProfileLaid' \/ Pends("profile")'
    <3>1. CASE Pends("profile")
      BY <1>2, <1>16, <3>1 DEF Pends
    <3>2. CASE ~Pends("profile")
      <4>1. PICK p \in profiles : p.id = ProfileOf /\ p.name = Synced /\ p.body = Synced /\ p.scores = FormatsOf(W)
        BY <1>11, <1>12, <1>14, <3>2 DEF Settles, ProfilePends, ProfileLaid
      <4>2. Nobody \notin FormatsOf(W)
        BY <1>2, <4>1 DEF NamesFit
      <4>3. ~new
        BY <1>12, <1>15, <4>2 DEF FormatsOf
      <4>4. QED
        BY <1>2, <1>11, <1>22, <1>23, <4>1, <4>3 DEF ProfileLaid
    <3>3. QED
      BY <3>1, <3>2
  <2>3. \A c \in run'.todo : c.kind = "profile" => c.at = ProfileOf'
    BY <1>9, <1>12, <1>14, <1>22 DEF Settles, ProfilePends
  <2>4. sizes' = Synced \/ Pends("sizes")'
    BY <1>2, <1>12, <1>14, <1>16 DEF Settles, ProfilePends, Pends
  <2>5. QED
    BY <1>9, <1>12, <2>1, <2>2, <2>3, <2>4 DEF ProfilePends
<1>26. DeletionsPend'
  <2>1. \A c \in run'.todo : c \in run.todo
    BY <1>9
  <2>2. ASSUME NEW c \in run'.todo, c.kind = "delete format" PROVE c.at \notin FormatsOf(W)'
    <3>1. PICK i : i = c.at
      OBVIOUS
    <3>2. i \notin FormatsOf(W) /\ i \in Nat /\ i < nextId
      BY <1>2, <1>11, <1>14, <2>1, <2>2, <3>1 DEF Settles, DeletionsPend, JobsFit
    <3>3. i # nextId
      BY <1>2, <3>2
    <3>4. QED
      BY <1>23, <3>1, <3>2, <3>3
  <2>3. ASSUME NEW f \in formats', f.id \notin FormatsOf(W)', run.config.others \/ f.id \in Ids(run'.owned)
        PROVE  \E c \in run'.todo : c.kind = "delete format" /\ c.at = f.id
    <3>1. f \in formats /\ f.id # at
      BY <1>10, <1>23, <2>3
    <3>2. f.id # Nobody
      BY <1>2, <3>1 DEF NamesFit
    <3>3. f.id \notin FormatsOf(W)
      BY <1>23, <2>3, <3>2
    <3>4. run.config.others \/ f.id \in Ids(run.owned)
      BY <1>19, <2>3, <3>1 DEF Ids
    <3>5. PICK c \in run.todo : c.kind = "delete format" /\ c.at = f.id
      BY <1>11, <1>14, <3>1, <3>3, <3>4 DEF Settles, DeletionsPend
    <3>6. QED
      BY <1>16, <3>5
  <2>4. ~Pends("delete profile")'
    BY <1>14, <2>1 DEF Settles, DeletionsPend, Pends
  <2>5. QED
    BY <1>9, <1>11, <2>2, <2>3, <2>4 DEF DeletionsPend
<1>27. QED
  BY <1>24, <1>25, <1>26 DEF Settles

(* A run begins with all there is to do on its list. *)
LEMMA StartSettles ==
  ASSUME SettleInv, (NamesFit /\ JobsFit)', Start, Undisturbed'
  PROVE  Settles'
<1>1. SyncInv /\ NamesFit
  BY DEF SettleInv
<1>2. PICK counted \in BOOLEAN : \E owned, first :
           /\ owned = Forgotten(Live(counted), syncFile.owned) /\ first = Preview(Live(counted), owned, config)
           /\ run'.counted = counted /\ run'.owned = owned /\ run'.config = config /\ run'.todo = Picked(first)
           /\ run'.all = (Picked(first) = All(first))
           /\ run'.ids = {[key |-> t, id |-> Match(formats, owned, t)] : t \in config.wanted}
           /\ OncePerKey(owned)
  BY <1>1, StartIs
<1>3. PICK owned, first :
           /\ first = Preview(Live(counted), owned, config)
           /\ run'.owned = owned /\ run'.config = config /\ run'.todo = Picked(first)
           /\ run'.all = (Picked(first) = All(first))
           /\ run'.ids = {[key |-> t, id |-> Match(formats, owned, t)] : t \in config.wanted}
           /\ OncePerKey(owned)
  BY <1>2
<1>4. formats' = formats /\ profiles' = profiles /\ sizes' = sizes
  BY DEF Start, app
<1>5. run'.todo = {c \in first : c.kind # "delete profile"}
  BY <1>3 DEF Undisturbed, All
<1>6. PICK live, conf : live = Live(counted) /\ conf = config
  OBVIOUS
<1>7. /\ live.formats = formats /\ live.profiles = profiles /\ live.sizes = sizes
      /\ first = Preview(live, owned, conf) /\ run'.config = conf
  BY <1>3, <1>6 DEF Live
<1>8. PICK W : W = Wants(conf)
  OBVIOUS
<1>9. /\ \A t : OneNamed(formats, t)
      /\ OneNamed(profiles, Synced)
  BY <1>1, FormatsNamed, ProfilesNamed
<1>10. /\ \A t : FormatOf(t)' = Match(formats, owned, t)
       /\ ProfileOf' = Match(profiles, owned, Synced)
  BY <1>3, <1>4 DEF FormatOf, ProfileOf
<1>11. \A t : FormatOf(t)' = Nobody \/ FormatOf(t)' \in Ids(formats)
  BY <1>3, <1>9, <1>10, MatchThere
<1>12. ProfileOf' = Nobody \/ ProfileOf' \in Ids(profiles)
  BY <1>3, <1>9, <1>10, MatchThere
<1>13. \A f \in formats : f.id # Nobody /\ With(formats, f.id) = f
  <2>1. \A f, g \in formats : f.id = g.id => f = g
    BY <1>1 DEF NamesFit
  <2>2. QED
    BY <1>1, <2>1 DEF With, NamesFit
<1>14. \A p \in profiles : With(profiles, p.id) = p
  BY <1>1 DEF With, SyncInv, ObjectsFit
<1>15. /\ FormatChanges(live, owned, W) \subseteq first
       /\ conf.profile => ProfileChanges(live, owned, W) \subseteq first /\ SizeChanges(live) \subseteq first
       /\ FormatDeletions(live, owned, W, conf.others) \subseteq first
  BY <1>7, <1>8 DEF Preview, Wants
<1>16. FormatsOf(W)' \ {Nobody} = Matched(live, owned, W)
  BY <1>7, <1>10 DEF FormatsOf, Matched
<1>17. FormatsPend'
  <2>1. ASSUME NEW t \in W, ~Laid(t)' PROVE \E c \in run'.todo : c.kind = "format" /\ c.key = t
    <3>1. PICK at : at = FormatOf(t)'
      OBVIOUS
    <3>2. PICK c : c = Change("format", t, at)
      OBVIOUS
    <3>3. c.kind = "format" /\ c.key = t /\ c.at = at
      BY <3>2 DEF Change
    <3>4. at = Nobody \/ With(formats, at).name # t \/ With(formats, at).body # t
      <4>1. SUFFICES ASSUME at # Nobody PROVE With(formats, at).name # t \/ With(formats, at).body # t
        OBVIOUS
      <4>2. PICK f \in formats : f.id = at
        BY <1>11, <3>1, <4>1 DEF Ids
      <4>3. f.name # t \/ f.body # t
        BY <1>4, <2>1, <3>1, <4>2 DEF Laid
      <4>4. QED
        BY <1>13, <4>2, <4>3
    <3>5. c \in {Change("format", u, Match(live.formats, owned, u)) : u \in W}
      BY <1>7, <1>10, <3>1, <3>2
    <3>6. c \in FormatChanges(live, owned, W)
      BY <1>7, <3>3, <3>4, <3>5 DEF FormatChanges
    <3>7. QED
      BY <1>5, <1>15, <3>3, <3>6
  <2>2. ASSUME NEW c \in run'.todo, c.kind = "format" PROVE c.at = FormatOf(c.key)'
    <3>1. c \in Preview(live, owned, conf)
      BY <1>5, <1>7
    <3>2. c.at = Match(live.formats, owned, c.key)
      BY <2>2, <3>1, Listed
    <3>3. PICK t : t = c.key
      OBVIOUS
    <3>4. c.at = FormatOf(t)'
      BY <1>7, <1>10, <3>2, <3>3
    <3>5. QED
      BY <3>3, <3>4
  <2>3. QED
    BY <1>7, <1>8, <2>1, <2>2 DEF FormatsPend
<1>18. ProfilePends'
  <2>1. SUFFICES ASSUME conf.profile PROVE ProfilePends'
    BY <1>7 DEF ProfilePends
  <2>2. conf.wanted = W
    BY <1>8, <2>1 DEF Wants
  <2>3. run'.ids = {[key |-> t, id |-> FormatOf(t)'] : t \in W}
    BY <1>3, <1>6, <1>10, <2>2
  <2>4. ProfileLaid' \/ Pends("profile")'
    <3>1. PICK at : at = ProfileOf'
      OBVIOUS
    <3>2. PICK c : c = Change("profile", Synced, at)
      OBVIOUS
    <3>3. c.kind = "profile"
      BY <3>2 DEF Change
    <3>4. {Match(live.formats, owned, t) : t \in W} = FormatsOf(W)'
      BY <1>7, <1>10 DEF FormatsOf
    <3>5. CASE at # Nobody /\ With(profiles, at).name = Synced /\ With(profiles, at).body = Synced
               /\ With(profiles, at).scores = FormatsOf(W)'
      <4>1. PICK p \in profiles : p.id = at
        BY <1>12, <3>1, <3>5 DEF Ids
      <4>2. p.name = Synced /\ p.body = Synced /\ p.scores = FormatsOf(W)'
        BY <1>14, <3>5, <4>1
      <4>3. ProfileLaid'
        BY <1>4, <1>7, <1>8, <3>1, <4>1, <4>2 DEF ProfileLaid
      <4>4. QED
        BY <4>3
    <3>6. CASE ~(at # Nobody /\ With(profiles, at).name = Synced /\ With(profiles, at).body = Synced
                 /\ With(profiles, at).scores = FormatsOf(W)')
      <4>1. at = Match(live.profiles, owned, Synced)
        BY <1>7, <1>10, <3>1
      <4>2. c \in ProfileChanges(live, owned, W)
        BY <1>7, <3>2, <3>4, <3>6, <4>1 DEF ProfileChanges
      <4>3. c \in run'.todo
        BY <1>5, <1>15, <2>1, <3>3, <4>2
      <4>4. QED
        BY <3>3, <4>3 DEF Pends
    <3>7. QED
      BY <3>5, <3>6
  <2>5. \A c \in run'.todo : c.kind = "profile" => c.at = ProfileOf'
    <3>1. \A c \in run'.todo : c \in Preview(live, owned, conf)
      BY <1>5, <1>7
    <3>2. \A c \in run'.todo : c.kind = "profile" => c.at = Match(live.profiles, owned, Synced)
      BY <3>1, Listed
    <3>3. QED
      BY <1>7, <1>10, <3>2
  <2>6. sizes' = Synced \/ Pends("sizes")'
    <3>1. SUFFICES ASSUME sizes # Synced PROVE Pends("sizes")'
      BY <1>4
    <3>2. PICK c : c = Change("sizes", Synced, Nobody)
      OBVIOUS
    <3>3. c.kind = "sizes" /\ c \in SizeChanges(live)
      BY <1>7, <3>1, <3>2 DEF SizeChanges, Change
    <3>4. c \in run'.todo
      BY <1>5, <1>15, <2>1, <3>3
    <3>5. QED
      BY <3>3, <3>4 DEF Pends
  <2>7. QED
    BY <1>7, <2>2, <2>3, <2>4, <2>5, <2>6 DEF ProfilePends
<1>19. DeletionsPend'
  <2>1. ASSUME NEW c \in run'.todo, c.kind = "delete format" PROVE c.at \notin FormatsOf(W)'
    <3>1. c \in Preview(live, owned, conf)
      BY <1>5, <1>7
    <3>2. c.at \in Ids(formats) /\ c.at \notin Matched(live, owned, W)
      BY <1>7, <1>8, <2>1, <3>1, Listed
    <3>3. c.at # Nobody
      BY <1>13, <3>2 DEF Ids
    <3>4. QED
      BY <1>16, <3>2, <3>3
  <2>2. ASSUME NEW f \in formats, f.id \notin FormatsOf(W)', conf.others \/ f.id \in Ids(owned)
        PROVE  \E c \in run'.todo : c.kind = "delete format" /\ c.at = f.id
    <3>1. PICK c : c = Change("delete format", f.id, f.id)
      OBVIOUS
    <3>2. c.kind = "delete format" /\ c.at = f.id
      BY <3>1 DEF Change
    <3>3. f \in {g \in live.formats : g.id \notin Matched(live, owned, W) /\ (conf.others \/ g.id \in Ids(owned))}
      BY <1>7, <1>16, <2>2
    <3>4. c \in FormatDeletions(live, owned, W, conf.others)
      BY <3>1, <3>3, Zenon DEF FormatDeletions
    <3>5. QED
      BY <1>5, <1>15, <3>2, <3>4
  <2>3. ~Pends("delete profile")'
    BY <1>5 DEF Pends
  <2>4. QED
    BY <1>3, <1>4, <1>7, <1>8, <2>1, <2>2, <2>3 DEF DeletionsPend
<1>20. QED
  BY <1>17, <1>18, <1>19 DEF Settles

LEMMA SettleStep == SettleInv /\ [TrashNext]_trashVars => SettleInv'
<1> SUFFICES ASSUME SettleInv, [TrashNext]_trashVars PROVE SettleInv'
  OBVIOUS
<1>1. SyncInv' /\ (NamesFit /\ JobsFit)'
  BY SyncStep, NamesStep DEF SettleInv
<1>2. SUFFICES ASSUME Undisturbed' PROVE Settles'
  BY <1>1 DEF SettleInv
<1>3. CASE Pick \/ UNCHANGED trashVars
  <2>1. UNCHANGED <<formats, profiles, sizes, run>>
    BY <1>3 DEF Pick, trashVars, app
  <2>2. Settles
    BY <1>2, <2>1 DEF SettleInv, Undisturbed, Collide
  <2>3. QED
    <3>1. /\ \A t : FormatOf(t)' = FormatOf(t) /\ Laid(t)' = Laid(t)
          /\ ProfileOf' = ProfileOf
      BY <2>1 DEF FormatOf, ProfileOf, Laid
    <3>2. \A W : FormatsOf(W)' = FormatsOf(W)
      BY <3>1 DEF FormatsOf
    <3>3. ProfileLaid' = ProfileLaid
      BY <2>1, <3>1, <3>2 DEF ProfileLaid
    <3>4. FormatsPend'
      BY <2>1, <2>2, <3>1 DEF Settles, FormatsPend
    <3>5. ProfilePends'
      BY <2>1, <2>2, <3>1, <3>3 DEF Settles, ProfilePends, Pends
    <3>6. DeletionsPend'
      BY <2>1, <2>2, <3>2 DEF Settles, DeletionsPend, Pends
    <3>7. QED
      BY <3>4, <3>5, <3>6 DEF Settles
<1>4. CASE Unread \/ Configure
  BY <1>2, <1>4 DEF Unread, Configure, Idle, Undisturbed
<1>5. CASE Start
  BY <1>1, <1>2, <1>5, StartSettles
<1>6. ASSUME ~Idle, NEW job \in run.todo,
             WriteFormat(job) \/ WriteProfile(job) \/ WriteSizes(job) \/ DeleteFormat(job) \/ DeleteProfile(job)
      PROVE  Settles'
  <2>1. CASE DeleteProfile(job)
    <3>1. PICK outcome : Wrote(job, outcome, Dropped(job.at))
      BY <2>1 DEF DeleteProfile
    <3>2. run # NoRun /\ DOMAIN run = RunFields /\ SyncInv /\ job.kind = "delete profile"
      BY <2>1 DEF DeleteProfile, Takes, Idle, SyncInv, SettleInv
    <3>3. PICK upd : upd = Dropped(job.at)
      OBVIOUS
    <3>4. /\ DOMAIN upd = RunFields /\ upd.todo = run.todo /\ upd.config = run.config /\ upd.ids = run.ids
          /\ upd.calm = run.calm /\ upd.all = run.all
      BY <3>2, <3>3 DEF Dropped, RunFields
    <3>5. Wrote(job, outcome, upd)
      BY <3>1, <3>3
    <3>6. run.calm /\ run.all /\ run'.ids = run.ids
      BY <1>2, <3>2, <3>4, <3>5, CalmWrite
    <3>7. ~Collide
      BY <1>2, <3>6 DEF Undisturbed, Collide
    <3>8. ~Pends("delete profile")
      BY <3>2, <3>6, <3>7 DEF SettleInv, Undisturbed, Settles, DeletionsPend
    <3>9. QED
      BY <3>2, <3>8 DEF Pends
  <2>2. QED
    BY <1>1, <1>2, <1>6, <2>1, FormatSettles, ProfileSettles, SizesSettle, DeletionSettles
<1>7. CASE SaveSync \/ Stop
  BY <1>2, <1>7 DEF SaveSync, Stop, Undisturbed
<1>8. CASE MakeFormat \/ EditFormat \/ EditProfile
  <2>1. Disturbed
    BY <1>8 DEF MakeFormat, EditFormat, EditProfile
  <2>2. CASE run = NoRun
    BY <1>2, <2>1, <2>2 DEF Disturbed, Idle, Undisturbed
  <2>3. CASE run # NoRun
    <3>1. DOMAIN run = RunFields
      BY <2>3 DEF SettleInv, SyncInv
    <3>2. ~run'.calm
      BY <2>1, <2>3, <3>1 DEF Disturbed, Idle, RunFields
    <3>3. QED
      BY <1>2, <3>2 DEF Undisturbed
  <2>4. QED
    BY <2>2, <2>3
<1>9. QED
  BY <1>3, <1>4, <1>5, <1>6, <1>7, <1>8 DEF TrashNext

LEMMA SettleStart == TrashInit => SettleInv
<1> SUFFICES ASSUME TrashInit PROVE SettleInv
  OBVIOUS
<1>1. SyncInv /\ NamesFit /\ JobsFit
  BY SyncStart, NamesStart
<1>2. run = NoRun
  BY DEF TrashInit
<1>3. QED
  BY <1>1, <1>2 DEF SettleInv, Undisturbed

(* When the list is done, nothing of it is left to preview. *)
LEMMA SettledPreview ==
  ASSUME SettleInv, Undisturbed, run.todo = {}, NEW live, NEW owned, NEW conf, NEW c,
         live = Fresh, owned = run.owned, conf = run.config, c \in Preview(live, owned, conf)
  PROVE  c.kind = "delete profile"
<1>1. /\ SyncInv /\ NamesFit
      /\ FormatsPend /\ ProfilePends /\ DeletionsPend
  BY DEF SettleInv, Settles
<1>2. owned = run.owned /\ conf = run.config
  OBVIOUS
<1>3. live.formats = formats /\ live.profiles = profiles /\ live.sizes = sizes
  BY DEF Fresh, Live
<1>4. PICK W : W = Wants(conf)
  OBVIOUS
<1>5. \/ c.kind = "format" /\ c.key \in W /\ c.at = Match(formats, owned, c.key) /\ c \in FormatChanges(live, owned, W)
      \/ c.kind = "profile" /\ conf.profile /\ c \in ProfileChanges(live, owned, W)
      \/ c.kind = "sizes" /\ conf.profile /\ sizes # Synced
      \/ /\ c.at \in Ids(formats) /\ c.at \notin Matched(live, owned, W)
         /\ conf.others \/ c.at \in Ids(owned)
      \/ c.kind = "delete profile"
  <2>1. c.kind = "format" \/ c.kind = "profile" \/ c.kind = "sizes" \/ c.kind = "delete format" \/ c.kind = "delete profile"
    BY Listed
  <2>2. c.kind = "format" => /\ c.key \in Wants(conf) /\ c.at = Match(live.formats, owned, c.key)
                             /\ c \in FormatChanges(live, owned, Wants(conf))
    BY Listed
  <2>3. /\ c.kind = "profile" => conf.profile /\ c \in ProfileChanges(live, owned, Wants(conf))
        /\ c.kind = "sizes" => conf.profile /\ live.sizes # Synced
    BY Listed
  <2>4. c.kind = "delete format" => /\ c.at \in Ids(live.formats) /\ c.at \notin Matched(live, owned, Wants(conf))
                                    /\ conf.others \/ c.at \in Ids(owned)
    BY Listed
  <2>5. QED
    BY <1>3, <1>4, <2>1, <2>2, <2>3, <2>4
<1>6. /\ \A f \in formats : f.id # Nobody /\ With(formats, f.id) = f
      /\ \A p \in profiles : p.id # Nobody /\ With(profiles, p.id) = p
  <2>1. \A f, g \in formats : f.id = g.id => f = g
    BY <1>1 DEF NamesFit
  <2>2. QED
    BY <1>1, <2>1 DEF With, NamesFit, SyncInv, ObjectsFit
<1>7. CASE c.kind = "format" /\ c.key \in W /\ c.at = Match(formats, owned, c.key)
           /\ c \in FormatChanges(live, owned, W)
  <2>1. PICK t, at : t = c.key /\ at = c.at
    OBVIOUS
  <2>2. t \in W /\ at = FormatOf(t)
    BY <1>2, <1>7, <2>1 DEF FormatOf
  <2>3. PICK f \in formats : f.id = at /\ f.name = t /\ f.body = t
    BY <1>1, <1>2, <1>4, <2>2 DEF FormatsPend, Laid
  <2>4. at = Nobody \/ With(formats, at).name # t \/ With(formats, at).body # t
    BY <1>3, <1>7, <2>1 DEF FormatChanges
  <2>5. QED
    BY <1>6, <2>3, <2>4
<1>8. CASE conf.profile /\ c \in ProfileChanges(live, owned, W)
  <2>1. PICK p \in profiles : p.id = ProfileOf /\ p.name = Synced /\ p.body = Synced /\ p.scores = FormatsOf(W)
    BY <1>1, <1>2, <1>4, <1>8 DEF ProfilePends, ProfileLaid, Pends
  <2>2. {Match(live.formats, owned, t) : t \in W} = FormatsOf(W)
    BY <1>2, <1>3 DEF FormatsOf, FormatOf
  <2>3. PICK at : at = Match(live.profiles, owned, Synced)
    OBVIOUS
  <2>4. at = p.id
    BY <1>2, <1>3, <2>1, <2>3 DEF ProfileOf
  <2>5. ~(at # Nobody /\ With(profiles, at).name = Synced /\ With(profiles, at).body = Synced
          /\ With(profiles, at).scores = FormatsOf(W))
    BY <1>3, <1>8, <2>2, <2>3 DEF ProfileChanges
  <2>6. QED
    BY <1>6, <2>1, <2>4, <2>5
<1>9. CASE conf.profile /\ sizes # Synced
  BY <1>1, <1>2, <1>9 DEF ProfilePends, Pends
<1>10. CASE /\ c.at \in Ids(formats) /\ c.at \notin Matched(live, owned, W)
            /\ conf.others \/ c.at \in Ids(owned)
  <2>1. PICK f \in formats : f.id = c.at
    BY <1>10 DEF Ids
  <2>2. FormatsOf(W) \ {Nobody} = Matched(live, owned, W)
    BY <1>2, <1>3 DEF FormatsOf, FormatOf, Matched
  <2>3. f.id \notin FormatsOf(W)
    BY <1>6, <1>10, <2>1, <2>2
  <2>4. QED
    BY <1>1, <1>2, <1>4, <1>10, <2>1, <2>3 DEF DeletionsPend
<1>11. QED
  BY <1>5, <1>7, <1>8, <1>9, <1>10

(* In every run nobody disturbed, what the settings ask is either as asked  *)
(* or on the run's list, about the objects the settings lead to now.        *)
THEOREM SettleInvHolds == TrashSpec => []SettleInv
  BY SettleStart, SettleStep, PTL DEF TrashSpec

(* A full apply nobody disturbed and the app accepted leaves the next       *)
(* preview nothing but profile deletions, whatever the sizes of the guide   *)
(* and the app, and however often formats were renamed or adopted before.   *)
THEOREM AppliedSettlesHolds == TrashSpec => []AppliedSettles
<1>1. SettleInv => AppliedSettles
  <2> SUFFICES ASSUME SettleInv, Undisturbed, run.todo = {} PROVE \A c \in Preview(Fresh, run.owned, run.config) : c.kind = "delete profile"
    BY DEF AppliedSettles, Undisturbed, Idle
  <2>1. PICK live, owned, conf : live = Fresh /\ owned = run.owned /\ conf = run.config
    OBVIOUS
  <2>2. \A c : c \in Preview(live, owned, conf) => c.kind = "delete profile"
    BY <2>1, SettledPreview
  <2>3. QED
    BY <2>1, <2>2
<1>2. QED
  BY <1>1, SettleInvHolds, PTL

-----------------------------------------------------------------------------
(* QualityActions. *)
Counted == {"move", "unmonitor", "upgradesOff"}
DaysKept(what) == IF what = "move" THEN MoveKeep ELSE GuardKeep
MoveFields == {"card", "at", "outcome"}

(* The record a write leaves behind. *)
Shows(r, w) ==
    /\ r.at = w.at
    /\ w.what = "move" => r.card = w.on /\ r.outcome # "failed"
    /\ w.what = "unmonitor" => r.card = w.on
    /\ w.what = "upgradesOff" => r.did = "upgradesOff" /\ r.profile = w.on

Remembered(writes, book) ==
    \A w \in writes : w.what \in Counted /\ day - w.at < DaysKept(w.what) => \E r \in book : Shows(r, w)

(* No such write within the days its record is kept. *)
Outdated(what, on) == \A h \in history : h.what = what /\ h.on = on => day - h.at >= DaysKept(what)

BooksFit == setting.step = "moves" => \A r \in file \cup ledger : DOMAIN r = MoveFields

WritesFit ==
    /\ \A w \in history \cup sent :
        /\ w.at \in Nat /\ w.at <= day
        /\ w.what = "move" => setting.step = "moves"
        /\ w.what \in {"unmonitor", "upgradesOff"} => setting.step = "guard" /\ setting.guard = w.what
    /\ \A w \in sent : w.at = day

TodoOutdated ==
    /\ setting.step = "moves" => \A m \in todo : \A c \in m.cards : Outdated("move", c)
    /\ setting.step = "guard" => \A c \in todo : Outdated("unmonitor", c)
SentOutdated == \A w \in sent : w.what \in Counted => Outdated(w.what, w.on)

QualityInv ==
    /\ day \in Nat
    /\ phase \in {"idle", "sending"}
    /\ BooksFit
    /\ WritesFit
    /\ Remembered(history, file)
    /\ phase = "idle" => sent = {}
    /\ phase = "sending" => Remembered(history \cup sent, ledger) /\ TodoOutdated /\ SentOutdated
    /\ OperatorNotOverruled

LEMMA QualityStart == QualityInit => QualityInv
<1> SUFFICES ASSUME QualityInit PROVE QualityInv
  OBVIOUS
<1>1. file = {} /\ ledger = {} /\ sent = {} /\ history = {} /\ todo = {} /\ phase = "idle" /\ day = 0
  BY DEF QualityInit
<1>2. QED
  BY <1>1 DEF QualityInv, BooksFit, WritesFit, Remembered, OperatorNotOverruled

LEMMA QualitySettled ==
  ASSUME NEW a, NEW outcome, DOMAIN a = MoveFields
  PROVE  LET s == [a EXCEPT !.outcome = outcome]
         IN  DOMAIN s = MoveFields /\ s.card = a.card /\ s.at = a.at /\ s.outcome = outcome
  BY DEF MoveFields

(* Settling and pruning keep what shows a move within MoveKeep days.        *)
LEMMA MovesStay ==
  ASSUME QualityInv, setting.step = "moves"
  PROVE  /\ Remembered(history, MovesKept(file))
         /\ \A r \in MovesKept(file) : DOMAIN r = MoveFields
<1>1. \A a \in file : DOMAIN a = MoveFields
  BY DEF QualityInv, BooksFit
<1>2. ASSUME NEW r \in MovesKept(file) PROVE DOMAIN r = MoveFields
  <2>1. PICK a \in file : r = [a EXCEPT !.outcome = MoveOutcome(a)]
    BY DEF MovesKept, MovesSettled
  <2>2. QED
    BY <1>1, <2>1, QualitySettled
<1>3. ASSUME NEW w \in history, w.what \in Counted, day - w.at < DaysKept(w.what)
      PROVE  \E r \in MovesKept(file) : Shows(r, w)
  <2>1. w.what = "move" /\ day - w.at < MoveKeep
    BY <1>3 DEF QualityInv, WritesFit, Counted, DaysKept
  <2>2. PICK a \in file : Shows(a, w)
    BY <1>3 DEF QualityInv, Remembered
  <2> DEFINE r == [a EXCEPT !.outcome = MoveOutcome(a)]
  <2>3. r.card = a.card /\ r.at = a.at /\ r.outcome = MoveOutcome(a)
    BY <1>1, QualitySettled
  <2>4. r \in MovesSettled(file)
    BY DEF MovesSettled
  <2> HIDE DEF r
  <2>5. r \in MovesKept(file)
    BY <2>1, <2>2, <2>3, <2>4 DEF MovesKept, Since, Shows
  <2>6. MoveOutcome(a) # "failed"
    BY <2>1, <2>2 DEF MoveOutcome, Shows
  <2>7. Shows(r, w)
    BY <2>1, <2>2, <2>3, <2>6 DEF Shows
  <2>8. QED
    BY <2>5, <2>7
<1>4. QED
  BY <1>2, <1>3 DEF Remembered

LEMMA GuardStays ==
  ASSUME QualityInv, setting.step = "guard"
  PROVE  Remembered(history, GuardKept(file))
<1> SUFFICES ASSUME NEW w \in history, w.what \in Counted, day - w.at < DaysKept(w.what)
             PROVE  \E r \in GuardKept(file) : Shows(r, w)
  BY DEF Remembered
<1>1. w.what # "move"
  BY DEF QualityInv, WritesFit
<1>2. PICK r \in file : Shows(r, w)
  BY DEF QualityInv, Remembered
<1>3. r \in GuardKept(file)
  BY <1>1, <1>2 DEF GuardKept, Since, Shows, DaysKept
<1>4. QED
  BY <1>2, <1>3

(* A run begins with the history unchanged and nothing sent.                *)
LEMMA BegunFits ==
  ASSUME QualityInv, phase' = "sending", sent' = {}, UNCHANGED <<day, setting, file, history>>,
         setting.step = "moves" => \A r \in ledger' : DOMAIN r = MoveFields,
         Remembered(history, ledger'),
         setting.step = "moves" => \A m \in todo' : \A c \in m.cards : Outdated("move", c),
         setting.step = "guard" => \A c \in todo' : Outdated("unmonitor", c)
  PROVE  QualityInv'
<1>1. \A what, on : Outdated(what, on)' <=> Outdated(what, on)
  BY DEF Outdated
<1>2. Remembered(history, file)' /\ Remembered(history \cup sent, ledger)'
  BY DEF QualityInv, Remembered
<1>3. OperatorNotOverruled'
  BY DEF QualityInv, OperatorNotOverruled
<1>4. TodoOutdated' /\ SentOutdated'
  BY <1>1 DEF TodoOutdated, SentOutdated
<1>5. BooksFit' /\ WritesFit'
  BY DEF QualityInv, BooksFit, WritesFit
<1>6. QED
  BY <1>2, <1>3, <1>4, <1>5 DEF QualityInv

LEMMA MovesBegun ==
  ASSUME QualityInv, StartMoves
  PROVE  QualityInv'
<1> DEFINE book == MovesKept(file)
<1>1. PICK advised \in SUBSET Present : ledger' = book /\ todo' \in SelectMoves(book, advised)
  BY DEF StartMoves
<1>2. setting.step = "moves"
  BY DEF StartMoves, Begin
<1>3. Remembered(history, book) /\ \A r \in book : DOMAIN r = MoveFields
  BY <1>2, MovesStay
<1> HIDE DEF book
<1>4. ASSUME NEW m \in todo', NEW c \in m.cards PROVE Outdated("move", c)
  <2>1. m \in FreeMoves(book, advised)
    BY <1>1 DEF SelectMoves
  <2>2. ~MovedBefore(book, c)
    <3> DEFINE free(i) == {d \in CardsOf(i) \cap Present \cap advised : ~MovedBefore(book, d)}
    <3>1. PICK i \in Item : m = [item |-> i, cards |-> free(i), bytes |-> MoveBytes(free(i))]
      BY <2>1, Zenon DEF FreeMoves
    <3>2. m.cards = free(i)
      BY <3>1
    <3>3. QED
      BY <3>2
  <2>3. ASSUME NEW h \in history, h.what = "move", h.on = c, ~(day - h.at >= MoveKeep) PROVE FALSE
    <3>1. day - h.at < MoveKeep
      BY <2>3, QualityAssumption DEF QualityInv, WritesFit
    <3>2. PICK r \in book : Shows(r, h)
      BY <1>3, <2>3, <3>1 DEF Remembered, Counted, DaysKept
    <3>3. QED
      BY <2>2, <2>3, <3>2 DEF Shows, MovedBefore
  <2>4. QED
    BY <2>3 DEF Outdated, DaysKept
<1>5. QED
  BY <1>1, <1>2, <1>3, <1>4, BegunFits DEF StartMoves, Begin

LEMMA GuardBegun ==
  ASSUME QualityInv, StartGuard
  PROVE  QualityInv'
<1> DEFINE book == GuardKept(file)
<1>1. PICK churning \in SUBSET Present : ledger' = book /\ todo' = {c \in churning : ~Touched(book, c)}
  BY DEF StartGuard
<1>2. setting.step = "guard"
  BY DEF StartGuard, Begin
<1>3. Remembered(history, book)
  BY <1>2, GuardStays
<1> HIDE DEF book
<1>4. ASSUME NEW c \in todo' PROVE Outdated("unmonitor", c)
  <2>1. ~Touched(book, c)
    BY <1>1
  <2>2. ASSUME NEW h \in history, h.what = "unmonitor", h.on = c, ~(day - h.at >= GuardKeep) PROVE FALSE
    <3>1. day - h.at < GuardKeep
      BY <2>2, QualityAssumption DEF QualityInv, WritesFit
    <3>2. PICK r \in book : Shows(r, h)
      BY <1>3, <2>2, <3>1 DEF Remembered, Counted, DaysKept
    <3>3. QED
      BY <2>1, <2>2, <3>2 DEF Shows, Touched
  <2>3. QED
    BY <2>2 DEF Outdated, DaysKept
<1>5. QED
  BY <1>1, <1>2, <1>3, <1>4, BegunFits DEF StartGuard, Begin

(* The searches write nothing that is counted. *)
LEMMA SearchesBegun ==
  ASSUME QualityInv, StartSearches
  PROVE  QualityInv'
<1>1. setting.step = "search"
  BY DEF StartSearches, Begin
<1>2. \A book : Remembered(history, book)
  BY <1>1 DEF QualityInv, WritesFit, Remembered, Counted
<1>3. PICK book : ledger' = book
  OBVIOUS
<1>4. Remembered(history, ledger')
  BY <1>2, <1>3
<1>5. QED
  BY <1>1, <1>4, BegunFits DEF StartSearches, Begin

(* What is sent joins the writes of the run, with its record when it is one *)
(* that counts.                                                             *)
LEMMA SentFits ==
  ASSUME QualityInv, phase = "sending", phase' = phase, UNCHANGED <<day, setting, file, history>>,
         todo' \subseteq todo, ledger \subseteq ledger',
         setting.step = "moves" => \A r \in ledger' : DOMAIN r = MoveFields,
         sent \subseteq sent',
         \A w \in sent' \ sent :
            /\ w.at = day
            /\ w.what = "move" => setting.step = "moves"
            /\ w.what \in {"unmonitor", "upgradesOff"} => setting.step = "guard" /\ setting.guard = w.what
            /\ w.what \in Counted => Outdated(w.what, w.on) /\ \E r \in ledger' : Shows(r, w)
  PROVE  QualityInv'
<1>1. \A what, on : Outdated(what, on)' <=> Outdated(what, on)
  BY DEF Outdated
<1>2. Remembered(history, file)'
  BY DEF QualityInv, Remembered
<1>3. Remembered(history \cup sent, ledger)'
  BY DEF QualityInv, Remembered
<1>4. OperatorNotOverruled'
  BY DEF QualityInv, OperatorNotOverruled
<1>5. TodoOutdated' /\ SentOutdated'
  BY <1>1 DEF QualityInv, TodoOutdated, SentOutdated
<1>6. BooksFit' /\ WritesFit'
  BY DEF QualityInv, BooksFit, WritesFit
<1>7. QED
  BY <1>2, <1>3, <1>4, <1>5, <1>6 DEF QualityInv

LEMMA MoveSent ==
  ASSUME QualityInv, NEW m \in todo, SendMove(m)
  PROVE  QualityInv'
<1>1. PICK answer \in Answers :
        /\ ledger' = ledger \cup {[card |-> c, at |-> day, outcome |-> IF answer = "ok" THEN "pending" ELSE "failed"] :
                                    c \in m.cards}
        /\ sent' = sent \cup {[what |-> IF answer = "ok" THEN "move" ELSE "tried", on |-> c, at |-> day] :
                                c \in m.cards}
  BY DEF SendMove
<1>2. setting.step = "moves" /\ phase = "sending"
  BY DEF SendMove, Sends
<1>3. \A r \in ledger' : DOMAIN r = MoveFields
  <2>1. \A r \in ledger : DOMAIN r = MoveFields
    BY <1>2 DEF QualityInv, BooksFit
  <2>2. QED
    BY <1>1, <2>1 DEF MoveFields
<1>4. ASSUME NEW w \in sent' \ sent
      PROVE  /\ w.at = day
             /\ w.what \in {"move", "tried"}
             /\ w.what \in Counted => Outdated(w.what, w.on) /\ \E r \in ledger' : Shows(r, w)
  <2>1. PICK c \in m.cards : w = [what |-> IF answer = "ok" THEN "move" ELSE "tried", on |-> c, at |-> day]
    BY <1>1
  <2>2. w.at = day /\ w.on = c /\ w.what = IF answer = "ok" THEN "move" ELSE "tried"
    BY <2>1
  <2>3. CASE answer # "ok"
    BY <2>2, <2>3 DEF Counted
  <2>4. CASE answer = "ok"
    <3> DEFINE r == [card |-> c, at |-> day, outcome |-> "pending"]
    <3>1. r \in ledger'
      BY <1>1, <2>4
    <3>2. Shows(r, w)
      BY <2>2, <2>4 DEF Shows
    <3>3. Outdated("move", c)
      BY <1>2 DEF QualityInv, TodoOutdated
    <3>4. QED
      BY <2>2, <2>4, <3>1, <3>2, <3>3
  <2>5. QED
    BY <2>3, <2>4
<1>5. QED
  BY <1>1, <1>2, <1>3, <1>4, SentFits DEF SendMove, Sends

LEMMA UnmonitorSent ==
  ASSUME QualityInv, NEW c \in todo, Unmonitor(c)
  PROVE  QualityInv'
<1>1. setting.step = "guard" /\ setting.guard = "unmonitor" /\ phase = "sending"
  BY DEF Unmonitor, Sends
<1> DEFINE w == [what |-> "unmonitor", on |-> c, at |-> day]
<1>2. \/ UNCHANGED <<ledger, sent>>
      \/ ledger' = ledger \cup {GuardRecord(c)} /\ sent' = sent \cup {w}
  BY DEF Unmonitor, Note
<1>3. w.what = "unmonitor" /\ w.on = c /\ w.at = day
  OBVIOUS
<1> HIDE DEF w
<1>4. Outdated("unmonitor", c)
  BY <1>1 DEF QualityInv, TodoOutdated
<1>5. Shows(GuardRecord(c), w)
  BY <1>3 DEF Shows, GuardRecord
<1>6. QED
  BY <1>1, <1>2, <1>3, <1>4, <1>5, SentFits DEF Unmonitor, Sends

LEMMA UpgradesOffSent ==
  ASSUME QualityInv, NEW c \in todo, UpgradesOff(c)
  PROVE  QualityInv'
<1>1. setting.step = "guard" /\ setting.guard = "upgradesOff" /\ phase = "sending"
  BY DEF UpgradesOff, Sends
<1>0. PICK p : p = profile[ItemOf[c]]
  OBVIOUS
<1> DEFINE w == [what |-> "upgradesOff", on |-> p, at |-> day]
<1>2. \/ UNCHANGED sent /\ ledger \subseteq ledger'
      \/ ledger' = ledger \cup {GuardRecord(c)} /\ sent' = sent \cup {w} /\ ~ProfileOff(ledger, p)
  BY <1>0 DEF UpgradesOff, Note
<1>3. w.what = "upgradesOff" /\ w.on = p /\ w.at = day
  OBVIOUS
<1> HIDE DEF w
<1>4. ASSUME ~ProfileOff(ledger, p) PROVE Outdated("upgradesOff", p)
  <2>1. ASSUME NEW h \in history, h.what = "upgradesOff", h.on = p, ~(day - h.at >= GuardKeep) PROVE FALSE
    <3>1. day - h.at < GuardKeep
      BY <2>1, QualityAssumption DEF QualityInv, WritesFit
    <3>2. PICK r \in ledger : Shows(r, h)
      BY <1>1, <2>1, <3>1 DEF QualityInv, Remembered, Counted, DaysKept
    <3>3. QED
      BY <1>4, <2>1, <3>2 DEF Shows, ProfileOff
  <2>2. QED
    BY <2>1 DEF Outdated, DaysKept
<1>5. Shows(GuardRecord(c), w)
  BY <1>0, <1>1, <1>3 DEF Shows, GuardRecord
<1>6. QED
  BY <1>1, <1>2, <1>3, <1>4, <1>5, SentFits DEF UpgradesOff, Sends

LEMMA SearchSent ==
  ASSUME QualityInv, NEW c \in todo, AskSearch(c)
  PROVE  QualityInv'
<1>1. setting.step = "search" /\ phase = "sending"
  BY DEF AskSearch, Sends
<1> DEFINE w == [what |-> "search", on |-> c, at |-> day]
<1>2. sent' = sent \cup {w}
  BY DEF AskSearch, Note
<1>3. w.what = "search" /\ w.at = day
  OBVIOUS
<1> HIDE DEF w
<1>4. ledger \subseteq ledger'
  BY DEF AskSearch
<1>5. QED
  BY <1>1, <1>2, <1>3, <1>4, SentFits DEF AskSearch, Sends, Counted

LEMMA RecordsSaved ==
  ASSUME QualityInv, SaveRecords
  PROVE  QualityInv'
<1>1. /\ phase = "sending" /\ phase' = "idle" /\ sent' = {} /\ ledger' = {} /\ file' = ledger
      /\ history' = history \cup sent /\ day' = day /\ setting' = setting
  BY DEF SaveRecords
<1>2. Remembered(history, file)'
  BY <1>1 DEF QualityInv, Remembered
<1>3. BooksFit' /\ WritesFit'
  BY <1>1 DEF QualityInv, BooksFit, WritesFit
<1>4. ASSUME NEW a \in history', NEW b \in history', a.what = b.what, a.on = b.on, a.at < b.at, a.what \in Counted
      PROVE  b.at - a.at >= DaysKept(a.what)
  <2>1. \A h \in history \cup sent : h.at \in Nat /\ h.at <= day
    BY DEF QualityInv, WritesFit
  <2>2. \A h \in sent : h.at = day
    BY DEF QualityInv, WritesFit
  <2>3. a \in history \cup sent /\ b \in history \cup sent
    BY <1>1
  <2>4. a \in history
    BY <1>4, <2>1, <2>2, <2>3, day \in Nat DEF QualityInv
  <2>5. CASE b \in history
    BY <1>4, <2>4, <2>5 DEF QualityInv, OperatorNotOverruled, Counted, DaysKept
  <2>6. CASE b \in sent
    <3>1. Outdated(a.what, a.on)
      BY <1>1, <1>4, <2>6 DEF QualityInv, SentOutdated
    <3>2. QED
      BY <2>2, <2>4, <2>6, <3>1 DEF Outdated
  <2>7. QED
    BY <2>3, <2>5, <2>6
<1>5. OperatorNotOverruled'
  BY <1>4 DEF OperatorNotOverruled, Counted, DaysKept
<1>6. QED
  BY <1>1, <1>2, <1>3, <1>5 DEF QualityInv

LEMMA DayPassed ==
  ASSUME QualityInv, NextDay
  PROVE  QualityInv'
<1>1. /\ phase = "idle" /\ day' = day + 1 /\ sent = {}
      /\ UNCHANGED <<setting, file, ledger, todo, phase, sent, history>>
  BY DEF NextDay, QualityInv
<1>2. Remembered(history, file)'
  <2> SUFFICES ASSUME NEW w \in history, w.what \in Counted, day' - w.at < DaysKept(w.what)
               PROVE  \E r \in file : Shows(r, w)
    BY <1>1 DEF Remembered
  <2>1. w.at \in Nat /\ DaysKept(w.what) \in Nat /\ day \in Nat
    BY QualityAssumption DEF QualityInv, WritesFit, DaysKept
  <2>2. day - w.at < DaysKept(w.what)
    BY <1>1, <2>1
  <2>3. QED
    BY <2>2 DEF QualityInv, Remembered
<1>3. BooksFit' /\ WritesFit'
  BY <1>1 DEF QualityInv, BooksFit, WritesFit
<1>4. OperatorNotOverruled'
  BY <1>1 DEF QualityInv, OperatorNotOverruled
<1>5. QED
  BY <1>1, <1>2, <1>3, <1>4 DEF QualityInv

LEMMA QualityStep == QualityInv /\ [QualityNext]_qualityVars => QualityInv'
<1> SUFFICES ASSUME QualityInv, [QualityNext]_qualityVars PROVE QualityInv'
  OBVIOUS
<1>1. CASE StartMoves \/ StartGuard \/ StartSearches
  BY <1>1, MovesBegun, GuardBegun, SearchesBegun
<1>2. CASE \E one \in todo : SendMove(one) \/ Unmonitor(one) \/ UpgradesOff(one) \/ AskSearch(one)
  BY <1>2, MoveSent, UnmonitorSent, UpgradesOffSent, SearchSent
<1>3. CASE SaveRecords
  BY <1>3, RecordsSaved
<1>4. CASE Forget
  <2>1. phase' = "idle" /\ sent' = {} /\ ledger' = {} /\ UNCHANGED <<day, setting, file, history>>
    BY <1>4 DEF Forget
  <2>2. Remembered(history, file)' /\ OperatorNotOverruled'
    BY <2>1 DEF QualityInv, Remembered, OperatorNotOverruled
  <2>3. BooksFit' /\ WritesFit'
    BY <2>1 DEF QualityInv, BooksFit, WritesFit
  <2>4. QED
    BY <2>1, <2>2, <2>3 DEF QualityInv
<1>5. CASE NextDay
  BY <1>5, DayPassed
<1>6. CASE Operate \/ Land \/ UNCHANGED qualityVars
  <2>1. UNCHANGED <<day, setting, file, ledger, todo, phase, sent, history>>
    BY <1>6 DEF Operate, Land, qualityVars, world
  <2>2. /\ Remembered(history, file)' <=> Remembered(history, file)
        /\ Remembered(history \cup sent, ledger)' <=> Remembered(history \cup sent, ledger)
    BY <2>1 DEF Remembered
  <2>3. BooksFit' /\ WritesFit' /\ OperatorNotOverruled'
    BY <2>1 DEF QualityInv, BooksFit, WritesFit, OperatorNotOverruled
  <2>4. TodoOutdated' <=> TodoOutdated
    BY <2>1 DEF TodoOutdated, Outdated
  <2>5. SentOutdated' <=> SentOutdated
    BY <2>1 DEF SentOutdated, Outdated
  <2>6. QED
    BY <2>1, <2>2, <2>3, <2>4, <2>5 DEF QualityInv
<1>7. QED
  BY <1>1, <1>2, <1>3, <1>4, <1>5, <1>6 DEF QualityNext

(* As long as a counted write's record would be kept, it is on file, and    *)
(* what a run still has to send repeats none of them.                       *)
THEOREM QualityInvHolds == QualitySpec => []QualityInv
<1> QED BY QualityStart, QualityStep, PTL DEF QualitySpec

(* What the operator undoes stays undone: once the ledger of a write was    *)
(* saved, the same item is not moved again for MoveKeep days, and the same  *)
(* card not unmonitored nor the same profile's upgrades turned off for      *)
(* GuardKeep days, whatever is put back, lost or restarted in between.      *)
THEOREM OperatorNotOverruledHolds == QualitySpec => []OperatorNotOverruled
<1>1. QualityInv => OperatorNotOverruled
  BY DEF QualityInv
<1> QED BY <1>1, QualityInvHolds, PTL

=============================================================================
