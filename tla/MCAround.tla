------------------------------- MODULE MCAround ------------------------------
(* What stands around the library a cycle deletes from: torrents that hold   *)
(* its bytes, the operator's rules over it, and the download queues that     *)
(* fill it.  None of the three touches another's state, so a behaviour is    *)
(* one of a single part.                                                     *)
EXTENDS TorrentHolds, RetentionRules, FleetWatch, TLC

CONSTANT Parts

VARIABLE part
around == <<part, torrentVars, rulesVars, fleetVars>>

AroundInit ==
  /\ part \in Parts
  /\ IF part = "torrents" THEN TRUE
     ELSE source = [c \in Title |-> {}] /\ met = {} /\ rule = CHOOSE one \in TorrentRules : TRUE
  /\ TorrentInit
  /\ IF part = "rules" THEN TRUE ELSE series = (CHOOSE one \in Shows : TRUE) /\ reads = {}
  /\ RulesInit
  /\ IF part = "fleet" THEN TRUE ELSE autoRemove = FALSE
  /\ FleetInit

AroundNext ==
  \/ part = "torrents" /\ TorrentNext /\ UNCHANGED <<part, rulesVars, fleetVars>>
  \/ part = "rules" /\ RulesNext /\ UNCHANGED <<part, torrentVars, fleetVars>>
  \/ part = "fleet" /\ FleetNext /\ UNCHANGED <<part, torrentVars, rulesVars>>

AroundSpec == AroundInit /\ [][AroundNext]_around

(* Two seasons of a show, a torrent of the usual downloads and one saved in  *)
(* the show's own folder, each of a client of its own.                       *)
MCFolder == [c \in Title |-> "show"]
MCClient == [t \in Torrent |-> t]
MCSaved == [t \in Torrent |-> IF t = "t2" THEN "show" ELSE "downloads"]
MCCarefulRules == {[native |-> TRUE, respect |-> TRUE, removes |-> TRUE]}
MCTorrentRules == MCCarefulRules \cup
  {[native |-> TRUE, respect |-> FALSE, removes |-> TRUE], [native |-> TRUE, respect |-> FALSE, removes |-> FALSE],
   [native |-> FALSE, respect |-> TRUE, removes |-> TRUE]}

(* A show of three seasons and specials: what was asked for, and what stood  *)
(* in a season's way before the rules, differ in the second.                 *)
Rule(scope, effect, n) == [scope |-> scope, effect |-> effect, seasons |-> n]
MCRuleKinds ==
  {Rule({}, "keep_latest", 1), Rule({}, "keep_latest", 2), Rule({"tagged"}, "keep_latest", 1),
   Rule({}, "keep_first", 0), Rule({}, "keep_until", 0), Rule({"requested"}, "keep_until", 0),
   Rule({"tagged"}, "keep", 0), Rule({"requested"}, "keep", 0), Rule({"tagged", "requested"}, "keep", 0),
   Rule({"tagged"}, "prefer", 0), Rule({"requested"}, "must", 0), Rule({"tagged", "requested"}, "must", 0)}
MCShows ==
  {[onDisk |-> others \cup {2}, tagged |-> tagged, continuing |-> goesOn,
    asked |-> [s \in Season |-> IF s = 2 THEN was ELSE "never"],
    standing |-> [s \in Season |-> IF s = 2 THEN standing ELSE "free"]] :
     others \in SUBSET {0, 1, 3}, tagged \in BOOLEAN, goesOn \in BOOLEAN,
     was \in {"never", "lately", "before", "undated"}, standing \in {"free", "excluded", "protected", "spared"}}
=============================================================================
