---------------------------- MODULE InflowControl ----------------------------
(* Acting on inflow advice (inflow/act.rs, the daemon's inflow_act.rs):     *)
(* while a disk is over its target FLINCH switches the automatic add of     *)
(* picked import lists off and unmonitors the future seasons of approved    *)
(* shows, and once it is not switches back on the lists it switched off.    *)
(* Each is a look, a write and a look at what came of it.  The operator     *)
(* switches the same lists and seasons between any two of them, and the     *)
(* settings; answers get lost and the daemon stops anywhere.                *)
EXTENDS Integers, FiniteSets

CONSTANTS
    List, Show,
    NoInflow,        \* no run under way
    MaxSwitches      \* bound: what others do, lost answers and restarts

VARIABLES
    autoAdd,     \* [List -> BOOLEAN]: the app's switch
    airing,      \* [Show -> BOOLEAN]: new and empty seasons are monitored
    inflowConf,  \* [enabled, approved, lists]
    pressure,    \* [over, suggested]: a disk over target, and the advice
    inflowFile,  \* inflow-actions.json: [unmonitored, off]
    inflowRun,   \* what a run holds, and its write under way, if any; or NoInflow
    switchedOff, \* ghost: lists FLINCH switched off itself, and still answers for
    crossed,     \* ghost: lists the operator switched between FLINCH's look and its write
    switches

theirs == <<autoAdd, airing>>
inflowVars == <<autoAdd, airing, inflowConf, pressure, inflowFile, inflowRun, switchedOff, crossed, switches>>
ghosts == <<switchedOff, crossed>>

-----------------------------------------------------------------------------
(* `prune`: a show no longer approved is forgotten. *)
Kept(record, conf) == [record EXCEPT !.unmonitored = @ \cap conf.approved]

(* `plan`: back on what FLINCH switched off and need not stay off; and,     *)
(* over target, off what is picked, unmonitored what is approved.           *)
InflowPlan(conf, advice, record) ==
    LET keepOff == conf.enabled /\ advice.over
    IN  [on   |-> {l \in record.off : ~keepOff \/ l \notin conf.lists},
         off  |-> IF keepOff THEN conf.lists \ record.off ELSE {},
         drop |-> IF keepOff THEN (advice.suggested \cap conf.approved) \ record.unmonitored ELSE {}]

InflowInit ==
    /\ autoAdd \in [List -> BOOLEAN]
    /\ airing = [s \in Show |-> TRUE]
    /\ inflowConf \in [enabled : BOOLEAN, approved : SUBSET Show, lists : SUBSET List]
    /\ pressure \in [over : BOOLEAN, suggested : SUBSET Show]
    /\ inflowFile = [unmonitored |-> {}, off |-> {}]
    /\ inflowRun = NoInflow
    /\ switchedOff = {} /\ crossed = {}
    /\ switches = 0

Switch == switches < MaxSwitches /\ switches' = switches + 1

BeginInflow ==
    /\ inflowRun = NoInflow
    /\ inflowConf.enabled \/ inflowFile # [unmonitored |-> {}, off |-> {}]
    /\ LET record == Kept(inflowFile, inflowConf)
       IN  inflowRun' = [record |-> record, todo |-> InflowPlan(inflowConf, pressure, record), write |-> {}]
    /\ UNCHANGED <<theirs, inflowConf, pressure, inflowFile, ghosts, switches>>

(* Mutant: a list found off is recorded as switched off. *)
HeldFoundOff(record, l, changed) == [record EXCEPT !.off = @ \cup {l}]

(* `record`: only a confirmed switch makes a list FLINCH's to restore. *)
HeldOff(record, l, changed) == IF changed THEN [record EXCEPT !.off = @ \cup {l}] ELSE record
Restored(record, l) == [record EXCEPT !.off = @ \ {l}]
Unmonitored(record, s) == [record EXCEPT !.unmonitored = @ \cup {s}]

LedgerAfter(record, kind, x, changed) ==
    CASE kind = "on" -> Restored(record, x)
      [] kind = "off" -> HeldOff(record, x, changed)
      [] kind = "drop" -> Unmonitored(record, x)

(* The run's action is over, with the record it leaves. *)
Over(kind, x, record) ==
    inflowRun' = [record |-> record, write |-> {}, todo |-> [inflowRun.todo EXCEPT ![kind] = @ \ {x}]]

(* Lists are switched on before others are switched off, and seasons last. *)
First(kind) ==
    /\ kind # "on" => inflowRun.todo.on = {}
    /\ kind = "drop" => inflowRun.todo.off = {}

AsAsked(kind, x) ==
    CASE kind = "on" -> autoAdd[x] [] kind = "off" -> ~autoAdd[x] [] kind = "drop" -> ~airing[x]

(* The GET: unreadable, already as asked, or to be written. *)
Look(kind, x) ==
    /\ inflowRun # NoInflow /\ inflowRun.write = {}
    /\ x \in inflowRun.todo[kind] /\ First(kind)
    /\ \/ Over(kind, x, inflowRun.record) /\ Switch
       \/ AsAsked(kind, x) /\ Over(kind, x, LedgerAfter(inflowRun.record, kind, x, FALSE)) /\ UNCHANGED switches
       \/ /\ ~AsAsked(kind, x)
          /\ inflowRun' = [inflowRun EXCEPT !.write = {[kind |-> kind, of |-> x, at |-> "put"]}]
          /\ UNCHANGED switches
    /\ UNCHANGED <<theirs, inflowConf, pressure, inflowFile, ghosts>>

Writing(kind, x, at) == inflowRun # NoInflow /\ inflowRun.write = {[kind |-> kind, of |-> x, at |-> at]}

(* The PUT is refused, or it is taken, whatever the switch is by now; its   *)
(* answer may be lost.                                                      *)
Put(kind, x) ==
    /\ Writing(kind, x, "put")
    /\ \/ Over(kind, x, inflowRun.record) /\ Switch /\ UNCHANGED <<theirs, ghosts>>
       \/ /\ \/ Over(kind, x, inflowRun.record) /\ Switch
             \/ inflowRun' = [inflowRun EXCEPT !.write = {[kind |-> kind, of |-> x, at |-> "confirm"]}] /\ UNCHANGED switches
          /\ autoAdd' = IF kind = "drop" THEN autoAdd ELSE [autoAdd EXCEPT ![x] = (kind = "on")]
          /\ airing' = IF kind = "drop" THEN [airing EXCEPT ![x] = FALSE] ELSE airing
          /\ LET took == IF kind = "off" /\ autoAdd[x] THEN {x} ELSE {}
             IN  switchedOff' = switchedOff \cup took /\ crossed' = crossed \ took
    /\ UNCHANGED <<inflowConf, pressure, inflowFile>>

(* The read-back: unreadable, not as asked, or confirmed. *)
Confirm(kind, x) ==
    /\ Writing(kind, x, "confirm")
    /\ \/ Over(kind, x, inflowRun.record) /\ Switch
       \/ ~AsAsked(kind, x) /\ Over(kind, x, inflowRun.record) /\ UNCHANGED switches
       \/ AsAsked(kind, x) /\ Over(kind, x, LedgerAfter(inflowRun.record, kind, x, TRUE)) /\ UNCHANGED switches
    /\ UNCHANGED <<theirs, inflowConf, pressure, inflowFile, ghosts>>

(* The record is written, or cannot be. *)
SaveInflow ==
    /\ inflowRun # NoInflow /\ inflowRun.write = {}
    /\ \A kind \in {"on", "off", "drop"} : inflowRun.todo[kind] = {}
    /\ \/ inflowFile' = inflowRun.record /\ UNCHANGED switches
       \/ inflowFile' = inflowFile /\ Switch
    /\ inflowRun' = NoInflow
    /\ UNCHANGED <<theirs, inflowConf, pressure, ghosts>>

StopInflow ==
    /\ inflowRun # NoInflow /\ Switch /\ inflowRun' = NoInflow
    /\ UNCHANGED <<theirs, inflowConf, pressure, inflowFile, ghosts>>

-----------------------------------------------------------------------------
(* The operator's switches, the settings, and the disks.  A list taken back *)
(* while FLINCH holds it off, or has just written it, stays FLINCH's.       *)
Writes(l, at) == \E kind \in {"on", "off"} : Writing(kind, l, at)
Holds(l) ==
    \/ l \in inflowFile.off
    \/ inflowRun # NoInflow /\ l \in inflowRun.record.off
    \/ Writes(l, "confirm")

OperatorSwitches ==
    /\ Switch
    /\ \/ \E l \in List :
            /\ autoAdd' = [autoAdd EXCEPT ![l] = ~@]
            /\ switchedOff' = IF Holds(l) THEN switchedOff ELSE switchedOff \ {l}
            /\ crossed' = CASE Writes(l, "put") -> crossed \cup {l}
                            [] ~Writes(l, "put") /\ Holds(l) -> crossed
                            [] OTHER -> crossed \ {l}
            /\ UNCHANGED airing
       \/ \E s \in Show : airing' = [airing EXCEPT ![s] = ~@] /\ UNCHANGED <<autoAdd, ghosts>>
    /\ UNCHANGED <<inflowConf, pressure, inflowFile, inflowRun>>

SetInflow ==
    /\ Switch /\ inflowRun = NoInflow
    /\ \/ inflowConf' = [inflowConf EXCEPT !.enabled = ~@]
       \/ \E s \in SUBSET Show : inflowConf' = [inflowConf EXCEPT !.approved = s]
       \/ \E l \in SUBSET List : inflowConf' = [inflowConf EXCEPT !.lists = l]
    /\ UNCHANGED <<theirs, pressure, inflowFile, inflowRun, ghosts>>

DisksMove ==
    /\ inflowRun = NoInflow /\ Switch
    /\ pressure' \in [over : BOOLEAN, suggested : SUBSET Show] /\ pressure' # pressure
    /\ UNCHANGED <<theirs, inflowConf, inflowFile, inflowRun, ghosts>>

InflowNext ==
    \/ BeginInflow \/ SaveInflow \/ StopInflow
    \/ \E kind \in {"on", "off"}, l \in List : Look(kind, l) \/ Put(kind, l) \/ Confirm(kind, l)
    \/ \E s \in Show : Look("drop", s) \/ Put("drop", s) \/ Confirm("drop", s)
    \/ OperatorSwitches \/ SetInflow \/ DisksMove

InflowSpec == InflowInit /\ [][InflowNext]_inflowVars

-----------------------------------------------------------------------------
(* FLINCH hands back only what it took: a list it switches on is one it     *)
(* switched off itself, or one the operator switched off in the moment      *)
(* between FLINCH's look and its write, which it takes for its own          *)
(* (inflow_act.rs:136-148); and seasons the operator monitors again stay so *)
(* while the record remembers them.                                         *)
HandsBackItsOwn ==
    [][ /\ \A l \in List : Put("on", l) /\ autoAdd'[l] # autoAdd[l] => l \in switchedOff \cup crossed
        /\ \A s \in Show : Put("drop", s) /\ airing'[s] # airing[s] => s \notin inflowFile.unmonitored ]_inflowVars
=============================================================================
