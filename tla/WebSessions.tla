----------------------------- MODULE WebSessions -----------------------------
(***************************************************************************)
(* How people get into flinch-web: the password login with its pause after *)
(* failures, single sign-on through a provider, and one store of sessions  *)
(* for both.  Requests run at once: each reads the clock and its cookies   *)
(* when it arrives and takes the locks (throttle, sign-ins under way,      *)
(* sessions) one after the other.  All of it is in memory.                 *)
(***************************************************************************)
EXTENDS Integers, FiniteSets, Functions

CONSTANTS
  Browser, Task,
  SessionIds, States,  \* what is drawn at random: never the same twice
  SessionTtl, SessionRefresh, MaxSessions,
  ThrottleAfter, ThrottleFirst, ThrottleMax,
  FlowTtl, MaxPending,
  EndOfTime,           \* bound: the last tick
  MaxArrivals,         \* bound: requests made
  Nobody

ASSUME SessionAssumption ==
  /\ SessionTtl \in Nat /\ SessionRefresh \in Nat /\ MaxSessions \in Nat \ {0}
  /\ ThrottleAfter \in Nat \ {0} /\ ThrottleFirst \in Nat /\ ThrottleMax \in Nat
  /\ ThrottleFirst * 1024 >= ThrottleMax  \* ten doublings reach the longest pause
  /\ FlowTtl \in Nat /\ MaxPending \in Nat \ {0}
  /\ EndOfTime \in Nat /\ MaxArrivals \in Nat
  /\ Nobody \notin Browser \cup SessionIds \cup States \cup Nat

VARIABLES
  webClock,
  sessions,    \* session id -> when it ends
  failures, pauseEnd,   \* Throttle: failed logins in a row, and the end of the pause
  pending,     \* state -> when its sign-in started
  task,        \* the requests in flight
  cookie, flow,      \* each browser's session cookie and sign-in cookie
  drawn,       \* ids and states handed out already
  requests,
  (* history *)
  used,        \* when each session was last used
  started,     \* the browser a state was given to
  finished,    \* states a session was opened for
  resume       \* before then no login is to be looked at

accessVars == <<webClock, sessions, failures, pauseEnd, pending, task, cookie, flow, drawn, requests,
                used, started, finished, resume>>

-----------------------------------------------------------------------------
(* throttle.rs *)

Paused(t) == pauseEnd # Nobody /\ t < pauseEnd

Smaller(a, b) == IF a < b THEN a ELSE b
(* Wrong: the longest pause is forgotten. *)
PauseUnbounded(n) == IF n < ThrottleAfter THEN 0 ELSE ThrottleFirst * 2 ^ Smaller(n - ThrottleAfter, 10)

(* The pause the n-th failure in a row starts. *)
Pause(n) ==
  IF n < ThrottleAfter THEN 0
  ELSE Smaller(ThrottleFirst * 2 ^ Smaller(n - ThrottleAfter, 10), ThrottleMax)

-----------------------------------------------------------------------------
(* session.rs *)

Live(store, t) == Restrict(store, {id \in DOMAIN store : store[id] > t})

(* Wrong: the session used last makes room. *)
IdlerMost(store, a, b) == store[a] >= store[b]
Idler(store, a, b) == store[a] <= store[b]

(* The store a login may find room in: ended sessions go, then the idlest   *)
(* until one more fits; of equally idle ones any.                           *)
MadeRoom(store, t) ==
  LET live == Live(store, t)
      excess == Cardinality(DOMAIN live) - (MaxSessions - 1)
  IN  IF excess <= 0 THEN {live}
      ELSE {Restrict(live, kept) : kept \in
              {S \in SUBSET DOMAIN live :
                 /\ Cardinality(DOMAIN live \ S) = excess
                 /\ \A out \in DOMAIN live \ S, id \in S : Idler(live, out, id)}}

(* oidc.rs `begin`: sign-ins that took too long go, then the oldest. *)
RoomToStart(flows, t) ==
  LET recent == Restrict(flows, {s \in DOMAIN flows : t - flows[s] < FlowTtl})
      excess == Cardinality(DOMAIN recent) - (MaxPending - 1)
  IN  IF excess <= 0 THEN {recent}
      ELSE {Restrict(recent, kept) : kept \in
              {S \in SUBSET DOMAIN recent :
                 /\ Cardinality(DOMAIN recent \ S) = excess
                 /\ \A out \in DOMAIN recent \ S, s \in S : recent[out] <= recent[s]}}

(* Drawn at random and never twice: which one it is tells nothing. *)
Fresh(of) == CHOOSE id \in of \ drawn : TRUE

(* Wrong: a sign-in is looked up and stays. *)
SpentNot(s) == pending
Spent(s) == Restrict(pending, DOMAIN pending \ {s})

-----------------------------------------------------------------------------
NoTask == [at |-> "none", browser |-> Nobody, cookie |-> Nobody, flow |-> Nobody, state |-> Nobody, since |-> 0, right |-> FALSE]
NoneOf == [x \in {} |-> 0]

AccessInit ==
  /\ webClock = 0
  /\ sessions = NoneOf /\ pending = NoneOf
  /\ failures = 0 /\ pauseEnd = Nobody
  /\ task = [t \in Task |-> NoTask]
  /\ cookie = [b \in Browser |-> Nobody] /\ flow = cookie
  /\ drawn = {} /\ requests = MaxArrivals
  /\ used = [id \in SessionIds |-> 0]
  /\ started = [s \in States |-> Nobody] /\ finished = {} /\ resume = 0

Arrives(t, b, kind, s, right) ==
  /\ task[t].at = "none" /\ requests > 0
  /\ requests' = requests - 1
  /\ task' = [task EXCEPT ![t] =
       [at |-> kind, browser |-> b, cookie |-> cookie[b], flow |-> flow[b], state |-> s, since |-> webClock, right |-> right]]
  /\ UNCHANGED <<webClock, sessions, failures, pauseEnd, pending, cookie, flow, drawn, used, started, finished, resume>>

MovedTo(t, stage) == task' = [task EXCEPT ![t].at = stage]
Done(t) == task' = [task EXCEPT ![t] = NoTask]

(* The pause as throttle.rs's comment has it: none before the fifth failure, *)
(* and with each further one twice the last, up to the longest.             *)
Doubling[k \in Nat] == IF k = 0 THEN ThrottleFirst ELSE Smaller(ThrottleMax, 2 * Doubling[k - 1])
RefPause(n) == IF n < ThrottleAfter THEN 0 ELSE Smaller(ThrottleMax, Doubling[n - ThrottleAfter])

Looks(t) == task[t].at = "login" /\ ~Paused(task[t].since)

(* A login is judged under the throttle's lock; a right one lets it go      *)
(* before its session is opened.                                            *)
Judge(t) ==
  /\ Looks(t)
  /\ IF task[t].right
     THEN failures' = 0 /\ pauseEnd' = Nobody /\ resume' = 0 /\ MovedTo(t, "open")
     ELSE /\ failures' = failures + 1
          /\ pauseEnd' = IF Pause(failures + 1) = 0 THEN pauseEnd ELSE task[t].since + Pause(failures + 1)
          /\ resume' = task[t].since + RefPause(failures + 1)
          /\ Done(t)
  /\ UNCHANGED <<webClock, sessions, pending, cookie, flow, drawn, requests, used, started, finished>>

TurnAway(t) ==
  /\ task[t].at = "login" /\ Paused(task[t].since)
  /\ Done(t)
  /\ UNCHANGED <<webClock, sessions, failures, pauseEnd, pending, cookie, flow, drawn, requests, used, started, finished, resume>>

(* `open_session`, after a login or a sign-in, with the cookies and the     *)
(* clock the request came with.                                             *)
OpenSession(t) ==
  /\ task[t].at = "open"
  /\ SessionIds \ drawn # {}
  /\ LET id == Fresh(SessionIds) IN
     \E rest \in MadeRoom(Restrict(sessions, DOMAIN sessions \ {task[t].cookie}), task[t].since) :
       /\ sessions' = [k \in DOMAIN rest \cup {id} |-> IF k = id THEN task[t].since + SessionTtl ELSE rest[k]]
       /\ drawn' = drawn \cup {id}
       /\ used' = [used EXCEPT ![id] = task[t].since]
       /\ cookie' = [cookie EXCEPT ![task[t].browser] = id]
  /\ finished' = finished \cup ({task[t].state} \ {Nobody})
  /\ flow' = IF task[t].state = Nobody THEN flow ELSE [flow EXCEPT ![task[t].browser] = Nobody]
  /\ Done(t)
  /\ UNCHANGED <<webClock, failures, pauseEnd, pending, requests, started, resume>>

(* The provider's address is known, or asked for; the answer may not come.  *)
Begin(t) ==
  /\ task[t].at = "start"
  /\ \/ /\ States \ drawn # {}
        /\ LET s == Fresh(States) IN
           \E room \in RoomToStart(pending, task[t].since) :
             /\ pending' = [k \in DOMAIN room \cup {s} |-> IF k = s THEN task[t].since ELSE room[k]]
             /\ drawn' = drawn \cup {s}
             /\ started' = [started EXCEPT ![s] = task[t].browser]
             /\ flow' = [flow EXCEPT ![task[t].browser] = s]
     \/ UNCHANGED <<pending, drawn, started, flow>>
  /\ Done(t)
  /\ UNCHANGED <<webClock, sessions, failures, pauseEnd, cookie, requests, used, finished, resume>>

(* The state is spent first; then the browser and the provider must agree.  *)
Claim(t) ==
  /\ task[t].at = "callback"
  /\ LET s == task[t].state
         known == s \in DOMAIN pending /\ task[t].since - pending[s] < FlowTtl /\ task[t].flow = s
     IN  /\ pending' = Spent(s)
         /\ IF known THEN MovedTo(t, "provider") /\ UNCHANGED flow
            ELSE Done(t) /\ flow' = [flow EXCEPT ![task[t].browser] = Nobody]
  /\ UNCHANGED <<webClock, sessions, failures, pauseEnd, cookie, drawn, requests, used, started, finished, resume>>

(* The code is redeemed and the account checked. *)
Redeem(t) ==
  /\ task[t].at = "provider"
  /\ \/ MovedTo(t, "open") /\ UNCHANGED flow
     \/ Done(t) /\ flow' = [flow EXCEPT ![task[t].browser] = Nobody]
  /\ UNCHANGED <<webClock, sessions, failures, pauseEnd, pending, cookie, drawn, requests, used, started, finished, resume>>

(* Any other request: the session's end moves back, at most once a day, and *)
(* an ended one is dropped.                                                 *)
Touch(b) ==
  /\ cookie[b] \in DOMAIN sessions
  /\ LET id == cookie[b] IN
     IF sessions[id] > webClock
     THEN /\ used' = [used EXCEPT ![id] = webClock]
          /\ sessions' = IF sessions[id] + SessionRefresh < webClock + SessionTtl
                         THEN [sessions EXCEPT ![id] = webClock + SessionTtl] ELSE sessions
     ELSE UNCHANGED used /\ sessions' = Restrict(sessions, DOMAIN sessions \ {id})
  /\ UNCHANGED <<webClock, failures, pauseEnd, pending, task, cookie, flow, drawn, requests, started, finished, resume>>

LogOut(b) ==
  /\ cookie[b] # Nobody
  /\ sessions' = Restrict(sessions, DOMAIN sessions \ {cookie[b]})
  /\ cookie' = [cookie EXCEPT ![b] = Nobody]
  /\ UNCHANGED <<webClock, failures, pauseEnd, pending, task, flow, drawn, requests, used, started, finished, resume>>

(* The browser drops its cookies. *)
ForgetCookies(b) ==
  /\ cookie[b] # Nobody \/ flow[b] # Nobody
  /\ cookie' = [cookie EXCEPT ![b] = Nobody] /\ flow' = [flow EXCEPT ![b] = Nobody]
  /\ UNCHANGED <<webClock, sessions, failures, pauseEnd, pending, task, drawn, requests, used, started, finished, resume>>

RestartServer ==
  /\ requests > 0 /\ requests' = requests - 1
  /\ sessions' = NoneOf /\ pending' = NoneOf /\ failures' = 0 /\ pauseEnd' = Nobody
  /\ task' = [t \in Task |-> NoTask]
  /\ resume' = 0
  /\ UNCHANGED <<webClock, cookie, flow, drawn, used, started, finished>>

WebClockMoves ==
  /\ webClock < EndOfTime
  /\ webClock' = webClock + 1
  /\ UNCHANGED <<sessions, failures, pauseEnd, pending, task, cookie, flow, drawn, requests, used, started, finished, resume>>

AccessNext ==
  \/ \E t \in Task :
       \/ \E b \in Browser, right \in BOOLEAN : Arrives(t, b, "login", Nobody, right)
       \/ \E b \in Browser : Arrives(t, b, "start", Nobody, FALSE)
       \/ \E b \in Browser, s \in States \cap drawn : Arrives(t, b, "callback", s, FALSE)
       \/ Judge(t) \/ TurnAway(t) \/ OpenSession(t) \/ Begin(t) \/ Claim(t) \/ Redeem(t)
  \/ \E b \in Browser : Touch(b) \/ LogOut(b) \/ ForgetCookies(b)
  \/ RestartServer \/ WebClockMoves

AccessSpec == AccessInit /\ [][AccessNext]_accessVars

-----------------------------------------------------------------------------
(* Whoever uses FLINCH stays in (session.rs:18-22): a session ends only      *)
(* when its browser logs out or in again, when nobody used it for the full   *)
(* time but the day its end may lag behind, or, past the limit, when no      *)
(* other was idle a day longer.                                              *)
SessionsOutliveUse ==
  [][(\E b \in Browser : Touch(b)) \/ (\E t \in Task : OpenSession(t)) =>
       \A id \in DOMAIN sessions \ DOMAIN sessions' :
         \/ \E t \in Task : OpenSession(t) /\ task[t].cookie = id
         \/ webClock - used[id] >= SessionTtl - SessionRefresh
         \/ \A other \in DOMAIN sessions \cap DOMAIN sessions' : used[id] <= used[other] + SessionRefresh]_accessVars

(* From the fifth failure in a row on, no login is looked at, right or       *)
(* wrong, before the pause the last failure started is over, however many    *)
(* arrive at once, and no pause is longer than the longest (throttle.rs:8-11). *)
PausesHold ==
  [][/\ \A t \in Task : Judge(t) => webClock >= resume
     /\ pauseEnd' # Nobody => pauseEnd' <= webClock' + ThrottleMax]_accessVars

(* A sign-in opens one session, in the browser it was started in and while   *)
(* it lasts, also when its callback comes twice or at once (oidc.rs:172).    *)
OneSessionPerSignIn ==
  [][\A t \in Task : OpenSession(t) /\ task[t].state # Nobody =>
       task[t].state \notin finished /\ started[task[t].state] = task[t].browser]_accessVars

=============================================================================
