---------------------------- MODULE RetentionRules ----------------------------
(* The operator's rules over the seasons of a show (rules.rs, rules/scope.rs,*)
(* rules/retention.rs, rules/facts.rs): what they keep, force and take out   *)
(* of the show's order, when some of what they ask about could not be read.  *)
(* A state is a show, what was read of it, and a list of rules; rules are    *)
(* added, and what could not be read is read.                                *)
EXTENDS Integers, FiniteSets

CONSTANTS
    Season,       \* season numbers; 0 is the specials
    RuleKinds,    \* rules an operator writes: [scope, effect]
    Shows,        \* shows: [onDisk, tagged, continuing, asked, standing]
    MaxRules      \* bound: rules in a list

ASSUME RulesAssumption ==
    /\ Season \subseteq Nat /\ IsFiniteSet(Season)
    /\ \A r \in RuleKinds : r.scope \subseteq {"tagged", "requested"}
    /\ \A r \in RuleKinds : r.effect \in {"prefer", "must"} => r.scope # {}   \* `validate`
    /\ MaxRules \in Nat

VARIABLES
    series,    \* what is true of the show
    reads,     \* what could be read of it: {"tags", "requests", "status"}
    rules      \* settings.json `rules`, those enabled

rulesVars == <<series, reads, rules>>

-----------------------------------------------------------------------------
(* `Truth`. *)
And(p, q) ==
    IF "no" \in {p, q} THEN "no" ELSE IF p = "yes" /\ q = "yes" THEN "yes" ELSE "unknown"
Truth(known, holds) == IF ~known THEN "unknown" ELSE IF holds THEN "yes" ELSE "no"

Regular == {s \in series.onDisk : s > 0}

(* `places`: ranked newest first among the regular seasons on disk; the      *)
(* first is the first of those listed.                                       *)
NewestRank(s) == Cardinality({n \in Regular : n >= s})

FirstSeason(s) == s > 0 /\ \A n \in Season : n > 0 => s <= n

(* `Scope::test`: every condition listed must hold. *)
Condition(read, s, which) ==
    CASE which = "tagged" -> Truth("tags" \in read, series.tagged)
      [] which = "requested" -> Truth("requests" \in read, series.asked[s] # "never")
InScope(read, s, scope) ==
    LET all == {Condition(read, s, which) : which \in scope}
    IN  IF "no" \in all THEN "no" ELSE IF "unknown" \in all THEN "unknown" ELSE "yes"

(* `within`: asked for less than the rule's days ago; a request without a   *)
(* date may have been.                                                      *)
AskedLately(read, s) ==
    IF "requests" \notin read \/ series.asked[s] = "undated" THEN "unknown"
    ELSE Truth(TRUE, series.asked[s] = "lately")

(* `latest`, `first`. *)
Latest(read, s, n) ==
    And(Truth(TRUE, s > 0), And(Truth("status" \in read, series.continuing), Truth(TRUE, NewestRank(s) <= n)))
First(s) == And(Truth(TRUE, s > 0), Truth(TRUE, FirstSeason(s)))

(* Whether a rule's condition holds of a season. *)
Verdict(read, s, rule) ==
    LET scoped == InScope(read, s, rule.scope)
    IN  CASE rule.effect = "keep_until" -> And(scoped, AskedLately(read, s))
          [] rule.effect = "keep_latest" -> And(scoped, Latest(read, s, rule.seasons))
          [] rule.effect = "keep_first" -> And(scoped, First(s))
          [] OTHER -> scoped

Forces == {"prefer", "must"}
Retention == {"keep_latest", "keep_first"}

(* The keeps that are certain.  (Mutant of Keeps: only they keep.)          *)
CertainKeeps(read, s) == {r \in rules : r.effect \notin Forces /\ Verdict(read, s, r) = "yes"}

(* `judge`: an unknown match keeps and never evicts. *)
Keeps(read, s) == {r \in rules : r.effect \notin Forces /\ Verdict(read, s, r) # "no"}

Evicts(read, s) == {r \in rules : r.effect \in Forces /\ Verdict(read, s, r) = "yes"}

(* A certain keep decides over an uncertain one, and of equally certain     *)
(* ones a plain keep over retention: a season retention alone is sure to    *)
(* keep leaves its show's order.                                            *)
Unchains(read, s) ==
    CertainKeeps(read, s) # {} /\ \A r \in CertainKeeps(read, s) : r.effect \in Retention

(* `apply`: what a season is to the planner.  `standing` is what it was     *)
(* before the rules: free, excluded, protected, or spared by its torrents.  *)
Excluded(read, s) == series.standing[s] = "excluded" \/ Keeps(read, s) # {}
Loose(read, s) == series.standing[s] # "excluded" /\ Unchains(read, s)
ForceOf(read, s) ==
    LET evicts == {r.effect : r \in Evicts(read, s)}
    IN  IF Keeps(read, s) # {} THEN "none"
        ELSE IF evicts = {} \/ series.standing[s] \in {"excluded", "protected"}
             THEN IF series.standing[s] = "spared" THEN "spare" ELSE "none"
        ELSE IF "must" \in evicts THEN "must" ELSE "prefer"

-----------------------------------------------------------------------------
RulesInit ==
    /\ series \in Shows
    /\ reads \in SUBSET {"tags", "requests", "status"}
    /\ rules = {}

AddRule ==
    /\ Cardinality(rules) < MaxRules
    /\ \E r \in RuleKinds \ rules : rules' = rules \cup {r}
    /\ UNCHANGED <<series, reads>>

(* The next cycle could read what this one could not. *)
ReadMore ==
    /\ \E what \in {"tags", "requests", "status"} \ reads : reads' = reads \cup {what}
    /\ UNCHANGED <<series, rules>>

RulesNext == AddRule \/ ReadMore

RulesSpec == RulesInit /\ [][RulesNext]_rulesVars

-----------------------------------------------------------------------------
(* Missing facts keep: whatever could not be read, a season the rules keep   *)
(* when it can be is kept without it too, one they force is forced with it   *)
(* too, as hard at least, and one out of its show's order stays kept however *)
(* the missing answers turn out (rules.rs:17-19, retention.rs:6-7).          *)
Harder(force) == CASE force = "must" -> 2 [] force = "prefer" -> 1 [] OTHER -> 0
MissingFactsKeep ==
    [][ ReadMore => \A s \in series.onDisk :
          /\ Excluded(reads', s) => Excluded(reads, s)
          /\ Loose(reads, s) => Excluded(reads', s)
          /\ Harder(ForceOf(reads, s)) <= Harder(ForceOf(reads', s)) ]_rulesVars
=============================================================================
