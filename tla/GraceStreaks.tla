---------------------------- MODULE GraceStreaks ----------------------------
(***************************************************************************)
(* The grace window: what a plan names is handed over, or moved to the     *)
(* archive, only after a run of consecutive plans named it, and only once  *)
(* those runs took the time they take at the normal cadence.  Two streak   *)
(* files: candidates.json for what leaves, written before anything is      *)
(* handed over, and archive-streaks.json for what moves, written after the *)
(* moves.  Runs can be triggered at any time and the clock can step back.  *)
(***************************************************************************)
EXTENDS Integers, Sequences, FiniteSets, Functions

CONSTANTS
  Title,
  GraceRuns,      \* what planner grace_runs may be set to
  Interval,       \* interval_s
  MaxMovesPerRun, \* archive.max_moves_per_run
  LastClock,      \* bound: the latest clock
  MaxRuns,        \* bound: cycles
  MaxMishaps      \* bound: failed writes and moves, stops, clock steps, settings changed

ASSUME GraceAssumption ==
  /\ GraceRuns \subseteq Nat /\ GraceRuns # {} /\ Interval \in Nat \ {0} /\ MaxMovesPerRun \in Nat \ {0}
  /\ LastClock \in Nat /\ MaxRuns \in Nat /\ MaxMishaps \in Nat

VARIABLES
  graceClock, graceRuns,
  leaving,      \* candidates.json: title -> its run of plans and when it began
  moving,       \* archive-streaks.json
  mover,        \* the archive moves under way
  runs, mishaps,
  (* history *)
  leavingLog, movingLog,   \* the runs each file took note of: when, and what the plan named
  released                 \* what the last run handed over

graceVars == <<graceClock, graceRuns, leaving, moving, mover, runs, mishaps, leavingLog, movingLog, released>>

-----------------------------------------------------------------------------
(* daemon/state.rs *)

NoStreaks == [t \in {} |-> [runs |-> 0, since |-> 0]]
AtLeastOne(n) == IF n = 0 THEN 1 ELSE n
(* The time the runs take: each after the first adds an interval. *)
MinAge(grace) == (AtLeastOne(grace) - 1) * Interval

Elapsed(at, since) == IF at < since THEN 0 ELSE at - since

(* The streaks after one more plan: what it does not name starts over. *)
Advanced(streaks, named, at) ==
  [t \in named |-> IF t \in DOMAIN streaks THEN [streaks[t] EXCEPT !.runs = @ + 1] ELSE [runs |-> 1, since |-> at]]

(* Wrong: runs alone count, however fast they came. *)
RipeByRuns(streaks, grace, at) == {t \in DOMAIN streaks : streaks[t].runs >= AtLeastOne(grace)}
Ripe(streaks, grace, at) ==
  {t \in DOMAIN streaks : /\ streaks[t].runs >= AtLeastOne(grace)
                          /\ Elapsed(at, streaks[t].since) >= MinAge(grace)}

-----------------------------------------------------------------------------
NoMoves == [at |-> "idle", due |-> {}, streaks |-> NoStreaks, named |-> {}, sent |-> {}]

GraceInit ==
  /\ graceClock = 0 /\ graceRuns \in GraceRuns
  /\ leaving = NoStreaks /\ moving = NoStreaks
  /\ mover = NoMoves
  /\ runs = MaxRuns /\ mishaps = MaxMishaps
  /\ leavingLog = <<>> /\ movingLog = <<>> /\ released = {}

Mishap == mishaps > 0 /\ mishaps' = mishaps - 1
MishapIf(failed) == (failed => mishaps > 0) /\ mishaps' = (IF failed THEN mishaps - 1 ELSE mishaps)

(* native.rs: one run's plan for what leaves.  While nobody acts the file is *)
(* left alone; if it cannot be written the run fails and hands over nothing. *)
Release(named, acting, written) ==
  LET streaks == Advanced(leaving, named, graceClock)
  IN  /\ runs > 0 /\ mover.at = "idle"
      /\ runs' = runs - 1
      /\ MishapIf(~acting \/ ~written)
      /\ acting \/ written
      /\ leaving' = IF acting /\ written THEN streaks ELSE leaving
      /\ released' = IF acting /\ written THEN Ripe(streaks, graceRuns, graceClock) ELSE {}
      /\ leavingLog' = IF acting /\ written THEN Append(leavingLog, [at |-> graceClock, named |-> named]) ELSE leavingLog
      /\ UNCHANGED <<graceClock, graceRuns, moving, mover, movingLog>>

(* bin archive.rs: one run's planned moves; of those past their grace at most *)
(* the cap are due.                                                           *)
PlanMoves(named) ==
  LET streaks == Advanced(moving, named, graceClock)
      ripe == Ripe(streaks, graceRuns, graceClock)
  IN  /\ runs > 0 /\ mover.at = "idle"
      /\ runs' = runs - 1
      /\ \E due \in SUBSET ripe :
           /\ Cardinality(due) <= MaxMovesPerRun
           /\ Cardinality(due) < MaxMovesPerRun => due = ripe
           /\ mover' = [NoMoves EXCEPT !.at = "sending", !.due = due, !.streaks = streaks, !.named = named]
      /\ released' = {}
      /\ movingLog' = Append(movingLog, [at |-> graceClock, named |-> named])
      /\ UNCHANGED <<graceClock, graceRuns, leaving, moving, mishaps, leavingLog>>

(* One move is sent and read back; a sent title's streak starts over. *)
SendMove(t, accepted) ==
  /\ mover.at = "sending" /\ t \in mover.due
  /\ MishapIf(~accepted)
  /\ mover' = [mover EXCEPT
       !.due = @ \ {t},
       !.sent = IF accepted THEN @ \cup {t} ELSE @,
       !.streaks = IF accepted THEN Restrict(@, DOMAIN @ \ {t}) ELSE @]
  /\ UNCHANGED <<graceClock, graceRuns, leaving, moving, runs, leavingLog, movingLog, released>>

(* The file is written once the moves are made: a failed write forgets that *)
(* this run was one.                                                        *)
SaveMoves(written) ==
  /\ mover.at = "sending" /\ mover.due = {}
  /\ MishapIf(~written)
  /\ mover' = NoMoves
  /\ moving' = IF written THEN mover.streaks ELSE moving
  /\ movingLog' =
       LET last == Len(movingLog)
       IN  IF written THEN [movingLog EXCEPT ![last].named = @ \ mover.sent] ELSE SubSeq(movingLog, 1, last - 1)
  /\ UNCHANGED <<graceClock, graceRuns, leaving, runs, leavingLog, released>>

StopMoving ==
  /\ Mishap /\ mover.at = "sending"
  /\ mover' = NoMoves
  /\ movingLog' = SubSeq(movingLog, 1, Len(movingLog) - 1)
  /\ UNCHANGED <<graceClock, graceRuns, leaving, moving, runs, leavingLog, released>>

(* A missing or corrupt file: everyone earns the window again. *)
LoseStreaks ==
  /\ Mishap /\ mover.at = "idle"
  /\ leaving' = NoStreaks /\ moving' = NoStreaks /\ leavingLog' = <<>> /\ movingLog' = <<>>
  /\ UNCHANGED <<graceClock, graceRuns, mover, runs, released>>

SetGrace ==
  /\ Mishap /\ mover.at = "idle"
  /\ graceRuns' \in GraceRuns
  /\ UNCHANGED <<graceClock, leaving, moving, mover, runs, leavingLog, movingLog, released>>

GraceClockMoves ==
  /\ mover.at = "idle"
  /\ \/ graceClock < LastClock /\ graceClock' = graceClock + 1 /\ UNCHANGED mishaps
     \/ graceClock > 0 /\ graceClock' = graceClock - 1 /\ Mishap
  /\ UNCHANGED <<graceRuns, leaving, moving, mover, runs, leavingLog, movingLog, released>>

GraceNext ==
  \/ \E named \in SUBSET Title :
       \/ \E acting, written \in BOOLEAN : Release(named, acting, written)
       \/ PlanMoves(named)
  \/ \E ok \in BOOLEAN : (\E t \in Title : SendMove(t, ok)) \/ SaveMoves(ok)
  \/ StopMoving \/ LoseStreaks \/ SetGrace \/ GraceClockMoves

GraceSpec == GraceInit /\ [][GraceNext]_graceVars

-----------------------------------------------------------------------------
(* The last runs of a log named t without a gap, as many as the grace asks,  *)
(* and the first of them is as long ago as those runs take.                  *)
Earned(seen, t) ==
  \E n \in DOMAIN seen :
    /\ \A k \in n..Len(seen) : t \in seen[k].named
    /\ Len(seen) - n + 1 >= AtLeastOne(graceRuns)
    /\ graceClock - seen[n].at >= MinAge(graceRuns)

(* What is handed over, or due to move, was named by grace_runs consecutive  *)
(* plans that took at least their normal time (daemon/state.rs:328-333),     *)
(* however runs are triggered, fail, or are lost.                            *)
GraceIsEarned ==
  [][/\ released' # released => \A t \in released' : Earned(leavingLog', t)
     /\ mover.at = "idle" /\ mover'.at = "sending" => \A t \in mover'.due : Earned(movingLog', t)]_graceVars
=============================================================================
