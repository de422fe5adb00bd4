------------------------------- MODULE MCUpkeep ------------------------------
(* What the daemon does besides deleting by the rules: the plan, the quality *)
(* steps, the guides' sync, the duplicates and the lists it holds off.  The  *)
(* parts keep files of their own, so a behaviour is one of a single part.    *)
EXTENDS EvictionPlanner, QualityActions, ProfileSync, Duplicates, InflowControl, TLC

CONSTANT Parts

VARIABLE part
upkeeps == <<part, plannerVars, qualityVars, trashVars, dupeVars, inflowVars>>

UpkeepInit ==
  /\ part \in Parts
  /\ PlannerInit /\ (part # "planner" => headroom = 0)
  /\ QualityInit /\ (part # "quality" => setting = CHOOSE one \in Settings : TRUE)
  /\ TrashInit /\ (part # "trash" => formats = {} /\ profiles = {} /\ config.apply)
  /\ DuplicatesInit /\ (part # "duplicates" => plexLists = Media /\ tracked = [r \in Radarr |-> NoFile])
  /\ InflowInit
  /\ part # "inflow" =>
       /\ autoAdd = [l \in List |-> TRUE]
       /\ inflowConf = [enabled |-> TRUE, approved |-> {}, lists |-> {}]
       /\ pressure = [over |-> TRUE, suggested |-> {}]

UpkeepNext ==
  \/ part = "planner" /\ PlannerNext /\ UNCHANGED <<part, qualityVars, trashVars, dupeVars, inflowVars>>
  \/ part = "quality" /\ QualityNext /\ UNCHANGED <<part, plannerVars, trashVars, dupeVars, inflowVars>>
  \/ part = "trash" /\ TrashNext /\ UNCHANGED <<part, plannerVars, qualityVars, dupeVars, inflowVars>>
  \/ part = "duplicates" /\ DuplicatesNext /\ UNCHANGED <<part, plannerVars, qualityVars, trashVars, inflowVars>>
  \/ part = "inflow" /\ InflowNext /\ UNCHANGED <<part, plannerVars, qualityVars, trashVars, dupeVars>>

UpkeepSpec == UpkeepInit /\ [][UpkeepNext]_upkeeps

(* The planner: loose titles and seasons of one show on a volume that must  *)
(* free space, and a title on the archive's.                                *)
Unit(weight, v, show, played, how) ==
  [size |-> weight[1], regret |-> weight[2], volume |-> v, show |-> show, played |-> played,
   selectable |-> how # "closed", finished |-> how = "finished", handed |-> how = "handed",
   force |-> IF how \in {"must", "prefer", "spare"} THEN how ELSE Nothing]
MCKinds ==
  LET heavy(show, played, hows) == {Unit(<<3, 0>>, "v", show, played, how) : how \in hows}
      light(show, played, hows) == {Unit(<<2, 1>>, "v", show, played, how) : how \in hows}
  IN  heavy(Nothing, FALSE, {"plain", "closed", "must"}) \cup light(Nothing, FALSE, {"plain", "finished", "spare"})
      \cup heavy("show", FALSE, {"plain", "handed", "must"}) \cup light("show", FALSE, {"plain", "closed", "prefer"})
      \cup heavy("show", TRUE, {"plain", "spare"}) \cup light("show", TRUE, {"plain", "closed", "finished"})
      \cup {Unit(<<2, 1>>, "w", Nothing, FALSE, "plain")}
MCForecasts ==
  {[target |-> [v |-> 5, w |-> 0], headroom |-> 5], [target |-> [v |-> 5, w |-> 1], headroom |-> 0]}

(* The quality steps: a film and a show of two seasons. *)
MCItemOf == [c \in Card |-> IF c = "film" THEN "movie" ELSE "series"]
MCKey == [i \in Item |-> IF i = "movie" THEN 1 ELSE 2]
MCLikelihood == [c \in Card |-> CASE c = "film" -> 1 [] c = "first" -> 3 [] OTHER -> 2]
MCGrowth == [c \in Card |-> IF c = "first" THEN 2 ELSE 1]
MCSettings ==
  {[step |-> "moves", guard |-> "flag"], [step |-> "search", guard |-> "flag"],
   [step |-> "guard", guard |-> "unmonitor"], [step |-> "guard", guard |-> "upgradesOff"]}

(* The guides: two formats, written in order. *)
MCOrder == [g \in Guide |-> IF g = "one" THEN 1 ELSE 2]

(* The duplicates: three copies of a movie, each with a file of its own, or *)
(* the first two with the same file under the paths of two mounts.          *)
MCOwnFile == [c \in Media |-> CASE c = "m1" -> "f1" [] c = "m2" -> "f2" [] OTHER -> "f3"]
MCTwoMounts == [c \in Media |-> IF c = "m3" THEN "f3" ELSE "f1"]
MCPath == [c \in Media |-> c]
MCListing == [c \in Media |-> CASE c = "m1" -> 1 [] c = "m2" -> 2 [] OTHER -> 3]
=============================================================================
