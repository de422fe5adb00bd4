--------------------------- MODULE EvictionPlanner ---------------------------
(***************************************************************************)
(* The plan: which units leave, or move to the archive, so that every      *)
(* volume's target is covered at the least regret and no show loses its    *)
(* middle.  The 0-1 program is stated as its rows, of which HiGHS returns  *)
(* some optimum; the greedy pass, taken in an emergency or when HiGHS      *)
(* fails, is stated step by step.  A case is built unit by unit and every  *)
(* plan of every case is looked at.                                        *)
(***************************************************************************)
EXTENDS Integers, Sequences, FiniteSets, SequencesExt, FiniteSetsExt

CONSTANTS
  Volume,
  Archive,       \* the volume with the archive root
  Kinds,         \* the units a case is made of
  Forecasts,     \* what each volume may have to free, with the archive's room
  Quantum,       \* bytes of a quantum
  MoveCost,      \* regret of moving a byte, in the weights' unit
  MaxUnits,      \* bound: units of a case
  Nothing        \* no show, no rule

ASSUME PlannerAssumption ==
  /\ Quantum \in Nat \ {0} /\ Archive \in Volume /\ MaxUnits \in Nat /\ MoveCost \in Nat
  /\ Nothing \notin {"must", "prefer", "spare"}
  /\ \A f \in Forecasts : f.target \in [Volume -> Nat] /\ f.headroom \in Nat
  /\ \A u \in Kinds :
       /\ u.size \in Nat /\ u.regret \in Nat /\ u.volume \in Volume
       /\ u.played \in BOOLEAN /\ u.selectable \in BOOLEAN /\ u.finished \in BOOLEAN /\ u.handed \in BOOLEAN
       /\ u.force \in {"must", "prefer", "spare", Nothing}

(* The seasons of a show lie under its one path, so on one volume            *)
(* (govern.rs:27-33); the greedy pass relies on it.                          *)
ASSUME OneDisk == \A u, w \in Kinds : u.show # Nothing /\ u.show = w.show => u.volume = w.volume

VARIABLES
  units,      \* Unit, in the order the candidates come; a unit's number is its season's too
  target,     \* B_target of each volume
  headroom    \* bytes the archive volume can take

plannerVars == <<units, target, headroom>>

-----------------------------------------------------------------------------
(* knapsack.rs *)

Units == DOMAIN units
Quantize(bytes) == (bytes + Quantum - 1) \div Quantum
Total(amount, S) ==
  LET upTo[n \in 0..Len(units)] ==
        IF n = 0 THEN 0 ELSE upTo[n - 1] + (IF n \in S THEN amount[n] ELSE 0)
  IN  upTo[Len(units)]
Bytes(S) == Total([i \in Units |-> units[i].size], S)
Quanta(S) == Total([i \in Units |-> Quantize(units[i].size)], S)
On(v) == {i \in Units : units[i].volume = v}

(* a may go only once b has: of a show, unplayed seasons go from its end and *)
(* played ones from its start.                                               *)
Behind(a, b) ==
  /\ units[a].show # Nothing /\ units[a].show = units[b].show /\ units[a].played = units[b].played
  /\ IF units[a].played THEN b < a ELSE a < b

(* Wrong: only the next one of the chain. *)
ClosingNext(open) ==
  {i \in open : \A j \in Units : Behind(i, j) /\ (\A k \in Units : ~(Behind(i, k) /\ Behind(k, j))) => j \in open}
(* What stays closes everything behind it. *)
Closing(open) == {i \in open : \A j \in Units : Behind(i, j) => j \in open}
EdgesOf(open) == {e \in open \X open : Behind(e[1], e[2]) /\ ~\E k \in Units : Behind(e[1], k) /\ Behind(k, e[2])}

Open == Closing({i \in Units : units[i].selectable /\ units[i].size > 0 /\ target[units[i].volume] > 0})

(* A target past everything open there is what is open there. *)
Need ==
  LET open == Open
  IN  [v \in Volume |-> Min({Quantize(target[v]), Quanta(open \cap On(v))})]

(* Regret in thousandths; what is handed over already costs a thousandth. *)
Weight(i) == IF units[i].handed THEN units[i].regret ELSE units[i].regret * 1000
WeightOf(S) == Total([i \in Units |-> Weight(i)], S)

-----------------------------------------------------------------------------
(* greedy.rs *)

Must == 4
Rank(i, open) ==
  CASE i \in open /\ units[i].force = "must" -> Must
    [] i \in open /\ units[i].force = "prefer" -> 3
    [] i \in open /\ units[i].force = "spare" -> 0
    [] i \in open /\ units[i].force = Nothing /\ units[i].finished -> 2
    [] OTHER -> 1

(* A ruled or finished unit lifts what it waits for, in the order of units; *)
(* when that is on another volume only a must-go unit does.                 *)
Lifted(tier, i, open) ==
  LET ahead == {j \in open : i \in open /\ Behind(i, j)}
  IN  IF tier[i] <= 1 THEN tier
      ELSE IF tier[i] < Must /\ \E p \in ahead : units[p].volume # units[i].volume /\ tier[p] < tier[i]
           THEN [tier EXCEPT ![i] = 1]
           ELSE [j \in Units |-> IF j \in ahead THEN Max({tier[j], tier[i]}) ELSE tier[j]]
Tiers(open) ==
  LET lifted[n \in 0..Len(units)] ==
        IF n = 0 THEN [i \in Units |-> Rank(i, open)] ELSE Lifted(lifted[n - 1], n, open)
  IN  lifted[Len(units)]

(* Most bytes per regret; without regret, most bytes. *)
Efficient(a, b) == units[a].size * (1000 * Weight(b) + 1) - units[b].size * (1000 * Weight(a) + 1)
Best(ready, tier) ==
  CHOOSE a \in ready : \A b \in ready \ {a} :
    \/ tier[a] > tier[b]
    \/ tier[a] = tier[b] /\ units[a].handed /\ ~units[b].handed
    \/ /\ tier[a] = tier[b] /\ units[a].handed = units[b].handed
       /\ Efficient(a, b) > 0 \/ (Efficient(a, b) = 0 /\ a < b)

(* `release`: best ready first, a unit being ready once what it waits for is *)
(* taken; asks says what becomes of the best one, from what is taken.        *)
Popped(walk, edges, tier, asks) ==
  IF walk.stopped \/ walk.ready = {} THEN walk
  ELSE LET i == Best(walk.ready, tier)
           freed == {e[1] : e \in {d \in edges : d[2] = i}}
           step == asks[<<ToSet(walk.taken), i>>]
       IN  CASE step = "stop" -> [walk EXCEPT !.stopped = TRUE]
             [] step = "skip" -> [walk EXCEPT !.ready = @ \ {i}]
             [] step = "take" -> [walk EXCEPT !.ready = (@ \ {i}) \cup freed, !.taken = Append(@, i)]
Release(open, edges, tier, asks) ==
  LET first == {i \in open : ~\E e \in edges : e[1] = i}
      walk[n \in 0..Len(units)] ==
        IF n = 0 THEN [ready |-> first, taken |-> <<>>, stopped |-> FALSE]
        ELSE Popped(walk[n - 1], edges, tier, asks)
  IN  walk[Len(units)].taken

(* Every must-go unit, then the best ready unit of a volume still short. *)
GreedyStep(tier, need, taken, i) ==
  LET short(v) == Quanta(taken \cap On(v)) < need[v]
      mustLeft == {j \in Units : tier[j] = Must} \ taken
  IN  CASE tier[i] = Must -> "take"
        [] tier[i] # Must /\ mustLeft = {} /\ (\A v \in Volume : ~short(v)) -> "stop"
        [] OTHER -> IF short(units[i].volume) THEN "take" ELSE "skip"
Greedy(open, edges, need) ==
  LET tier == Tiers(open)
  IN  ToSet(Release(open, edges, tier,
                    [at \in (SUBSET Units) \X Units |-> GreedyStep(tier, need, at[1], at[2])]))

-----------------------------------------------------------------------------
(* moves.rs: a movie or a whole show may move to the archive instead. *)

(* Wrong: a quantum begun counts as room. *)
RoomBegun == Quantize(headroom)
Room == headroom \div Quantum
Groups == {{i \in Units : i = j \/ (units[j].show # Nothing /\ units[i].show = units[j].show)} : j \in Units}
Movable(i) == units[i].selectable /\ ~units[i].handed /\ units[i].force = Nothing
VolumeOf(g) == units[Min(g)].volume

Usable ==
  LET open == Open
  IN  {g \in Groups : /\ \A i \in g : Movable(i) /\ i \in open /\ units[i].volume = VolumeOf(g)
                      /\ VolumeOf(g) # Archive /\ Quanta(g) > 0 /\ Quanta(g) <= Room}
CostOf(g) == Bytes(g) * MoveCost

(* The groups it would hurt most to evict, by the quantum, move first, while *)
(* their volume is short and the archive has room.                           *)
Densest(groups) ==
  CHOOSE g \in groups : \A h \in groups \ {g} :
    \/ WeightOf(g) * Quanta(h) > WeightOf(h) * Quanta(g)
    \/ WeightOf(g) * Quanta(h) = WeightOf(h) * Quanta(g) /\ Min(g) < Min(h)
FitsToo(moved, g, open, need) ==
  LET v == VolumeOf(g)
      ruled == {i \in open \cap On(v) : units[i].force \in {"must", "prefer"}}
      there == {m \in moved : VolumeOf(m) = v}
  IN  Quanta(ruled) + Quanta(UNION there) < need[v] /\ Quanta(UNION moved) + Quanta(g) <= Room
Offered(walk, open, need) ==
  IF walk.left = {} THEN walk
  ELSE LET g == Densest(walk.left)
       IN  [left |-> walk.left \ {g},
            moved |-> IF FitsToo(walk.moved, g, open, need) THEN walk.moved \cup {g} ELSE walk.moved]
GreedyMoves ==
  LET open == Open
      need == Need
      worth == {g \in Usable : WeightOf(g) > CostOf(g)}
      walk[n \in 0..Len(units)] ==
        IF n = 0 THEN [left |-> worth, moved |-> {}] ELSE Offered(walk[n - 1], open, need)
  IN  walk[Len(units)].moved

(* `remainder`: what is left to evict once these moved. *)
LeftOf(moved) ==
  LET need == Need IN
  [v \in Volume |-> LET gone == Quanta(UNION {g \in moved : VolumeOf(g) = v})
                    IN  IF gone > need[v] THEN 0 ELSE need[v] - gone]

Selection(chosen, moved) == [chosen |-> chosen, moved |-> moved]
GreedySelection ==
  LET moved == GreedyMoves
      open == Open \ UNION moved
  IN  Selection(Greedy(open, EdgesOf(open), LeftOf(moved)), moved)

-----------------------------------------------------------------------------
(* The rows of the program. *)
Rows(s, open, need, tier) ==
  LET handled == s.chosen \cup UNION s.moved
      (* On a volume, units of a tier go before the others do. *)
      first(v, least, done, others) ==
        LET hit == {i \in open \cap On(v) : tier[i] >= least}
            rest == {i \in open \cap On(v) : tier[i] < least}
        IN  hit # {} /\ rest # {} /\ ((s.chosen \cap rest) # {} \/ others) => hit \subseteq done
  IN  /\ \A v \in Volume : Quanta(s.chosen \cap On(v)) + Quanta(UNION {g \in s.moved : VolumeOf(g) = v}) >= need[v]
      /\ s.chosen \cap UNION s.moved = {}
      /\ Quanta(UNION s.moved) <= Room
      /\ \A a \in s.chosen, b \in open : Behind(a, b) => b \in s.chosen
      /\ \A i \in open : units[i].force = "must" => i \in s.chosen
      /\ \A v \in {w \in Volume : need[w] > 0} :
           /\ first(v, 3, s.chosen, \E g \in s.moved : VolumeOf(g) = v)
           /\ first(v, 2, handled, FALSE)
           /\ first(v, 1, handled, FALSE)

Objective(s) == WeightOf(s.chosen) + MapThenSumSet(CostOf, s.moved)
Feasible ==
  LET open == Open
      need == Need
      tier == Tiers(open)
  IN  {s \in {Selection(c, m) : c \in SUBSET open, m \in SUBSET Usable} : Rows(s, open, need, tier)}
Optimal ==
  LET feasible == Feasible
      least == Min({Objective(s) : s \in feasible})
  IN  {s \in feasible : Objective(s) = least}

(* `select_with_moves`: what may come of it. *)
Selections ==
  IF \A v \in Volume : Need[v] = 0 THEN {Selection({}, {})} ELSE {GreedySelection} \cup Optimal

(* `release_order`: the plan's items, as they should leave. *)
AllTaken == [at \in (SUBSET Units) \X Units |-> "take"]
ReleaseOrder(chosen) ==
  LET open == Closing(chosen)
      edges == EdgesOf(open)
  IN  Release(open, edges, Tiers(open), AllTaken)
After(chosen, i) == {e[2] : e \in {d \in EdgesOf(chosen) : d[1] = i}}

(* `releasable`: of the plan in its order what is past its grace, each only *)
(* once what it follows is released or handed over.                         *)
LetGo(out, i, chosen, eligible) ==
  IF i \in eligible /\ \A a \in After(chosen, i) : a \in out \/ units[a].handed THEN out \cup {i} ELSE out
Releasable(chosen, eligible) ==
  LET order == ReleaseOrder(chosen)
      out[n \in 0..Len(order)] == IF n = 0 THEN {} ELSE LetGo(out[n - 1], order[n], chosen, eligible)
  IN  out[Len(order)]

-----------------------------------------------------------------------------
PlannerInit ==
  /\ units = <<>>
  /\ \E f \in Forecasts : target = f.target /\ headroom = f.headroom

AddUnit(u) ==
  /\ Len(units) < MaxUnits
  /\ units' = Append(units, u)
  /\ UNCHANGED <<target, headroom>>

PlannerNext == \E u \in Kinds : AddUnit(u)
PlannerSpec == PlannerInit /\ [][PlannerNext]_plannerVars

-----------------------------------------------------------------------------
(* The greedy pass gives what the program's hard rows ask (knapsack.rs:112): *)
(* each target covered or everything open there taken, every must-go unit,   *)
(* no more moved than the archive has room for; and the rows themselves can  *)
(* always be met (knapsack.rs:306).                                          *)
PlanCovers ==
  LET s == GreedySelection
      need == Need
      open == Open
  IN  /\ \A v \in Volume : Quanta(s.chosen \cap On(v)) + Quanta(UNION {g \in s.moved : VolumeOf(g) = v}) >= need[v]
      /\ s.chosen \cap UNION s.moved = {} /\ s.chosen \subseteq open
      /\ Bytes(UNION s.moved) <= headroom
      /\ \A i \in open : units[i].force = "must" => i \in s.chosen
      /\ Feasible # {}

(* However a plan is cut short, by a cap, by titles still in their grace, or *)
(* between two runs, no season leaves a hole: an unplayed one goes only with *)
(* every later unplayed one gone or going, a played one only with every      *)
(* earlier played one (knapsack.rs:21-30).  What is handed over without a    *)
(* hole stays so with whatever is released next.                             *)
NoHoles(gone, among) == \A a \in gone, b \in among : Behind(a, b) => b \in gone
PlanOrphansNothing ==
  \A s \in Selections :
    LET order == ReleaseOrder(s.chosen)
        handed == {i \in s.chosen : units[i].handed}
    IN  /\ ToSet(order) = s.chosen
        /\ \A n \in 0..Len(order) : NoHoles({order[k] : k \in 1..n} \cup UNION s.moved, Units)
        /\ NoHoles(handed, s.chosen) =>
             \A eligible \in SUBSET s.chosen : NoHoles(handed \cup Releasable(s.chosen, eligible), s.chosen)
=============================================================================
