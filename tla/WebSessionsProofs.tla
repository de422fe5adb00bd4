-------------------------- MODULE WebSessionsProofs --------------------------
(***************************************************************************)
(* Theorems about WebSessions, for any number of browsers, requests in     *)
(* flight and sessions, any lifetimes and any limits: a sign-in opens one  *)
(* session, a session in use stays open, and the pauses hold.              *)
(***************************************************************************)
EXTENDS WebSessions, TLAPS, WellFoundedInduction

(* Requests read the clock before they are judged. *)
TaskType ==
  [at : {"none", "login", "start", "callback", "provider", "open"},
   browser : Browser \cup {Nobody}, cookie : SessionIds \cup {Nobody},
   flow : States \cup {Nobody}, state : States \cup {Nobody}, since : Nat, right : BOOLEAN]

AccessTypes ==
  /\ webClock \in Nat
  /\ task \in [Task -> TaskType]
  /\ \A t \in Task : task[t].since <= webClock
  /\ \A t \in Task : task[t].at # "none" => task[t].browser \in Browser
  /\ \A t \in Task : task[t].at = "login" => task[t].state = Nobody
  /\ cookie \in [Browser -> SessionIds \cup {Nobody}]
  /\ flow \in [Browser -> States \cup {Nobody}]
  /\ sessions \in [DOMAIN sessions -> Int]
  /\ DOMAIN sessions \subseteq SessionIds \cap drawn
  /\ used \in [SessionIds -> Nat]
  /\ \A id \in SessionIds : used[id] <= webClock
  /\ DOMAIN pending \subseteq States \cap drawn
  /\ pending \in [DOMAIN pending -> Nat]
  /\ started \in [States -> Browser \cup {Nobody}]

(* The end of a session follows its use, at most a refresh late. *)
EndsFit ==
  \A id \in DOMAIN sessions :
    /\ used[id] + SessionTtl - SessionRefresh <= sessions[id]
    /\ sessions[id] <= used[id] + SessionTtl

(* A state a browser holds was started by it, and is not drawn again. *)
Holding(b, s) == s # Nobody => s \in drawn /\ started[s] = b
FlowsFit ==
  /\ \A b \in Browser : Holding(b, flow[b])
  /\ \A t \in Task : task[t].at # "none" => Holding(task[t].browser, task[t].flow)

(* Past the callback a state is spent: no longer pending, in one request,   *)
(* and no session was opened for it yet.                                    *)
Claimed(t) == task[t].at \in {"provider", "open"} /\ task[t].state # Nobody
ClaimsFit ==
  /\ finished \subseteq drawn
  /\ finished \cap DOMAIN pending = {}
  /\ \A t \in Task : Claimed(t) =>
       /\ task[t].state \in drawn
       /\ task[t].state \notin DOMAIN pending \cup finished
       /\ started[task[t].state] = task[t].browser
  /\ \A t, u \in Task : Claimed(t) /\ Claimed(u) /\ task[t].state = task[u].state => t = u

AccessInv == AccessTypes /\ EndsFit /\ FlowsFit /\ ClaimsFit

-----------------------------------------------------------------------------
LEMMA AccessStart == AccessInit => AccessInv
<1> SUFFICES ASSUME AccessInit PROVE AccessInv
  OBVIOUS
<1>1. DOMAIN NoneOf = {} /\ NoneOf \in [{} -> Int] /\ NoneOf \in [{} -> Nat]
  BY DEF NoneOf
<1>2. AccessTypes
  BY <1>1 DEF AccessInit, AccessTypes, TaskType, NoTask
<1>3. EndsFit /\ FlowsFit /\ ClaimsFit
  BY <1>1 DEF AccessInit, EndsFit, FlowsFit, ClaimsFit, Holding, Claimed, NoTask
<1> QED
  BY <1>2, <1>3 DEF AccessInv

(* Nothing is drawn twice. *)
LEMMA FreshDrawn ==
  ASSUME NEW S, S \ drawn # {}
  PROVE  Fresh(S) \in S \ drawn
  BY DEF Fresh

(* Making room only takes sessions out, ended ones or the idlest. *)
LEMMA RoomMade ==
  ASSUME NEW store, NEW t, NEW rest \in MadeRoom(store, t)
  PROVE  /\ DOMAIN rest \subseteq DOMAIN store
         /\ \A id \in DOMAIN rest : rest[id] = store[id]
         /\ \A id \in DOMAIN store \ DOMAIN rest :
              ~(store[id] > t) \/ \A other \in DOMAIN rest : store[id] <= store[other]
  BY DEF MadeRoom, Live, Restrict, Idler

LEMMA RoomStarted ==
  ASSUME NEW flows, NEW t, NEW room \in RoomToStart(flows, t)
  PROVE  /\ DOMAIN room \subseteq DOMAIN flows
         /\ \A s \in DOMAIN room : room[s] = flows[s]
  BY DEF RoomToStart, Restrict

-----------------------------------------------------------------------------
LEMMA ArrivesInv ==
  ASSUME AccessInv, NEW t \in Task, NEW b \in Browser, NEW kind \in {"login", "start", "callback"},
         NEW s \in States \cup {Nobody}, NEW right \in BOOLEAN, kind = "login" => s = Nobody, Arrives(t, b, kind, s, right)
  PROVE  AccessInv'
<1> USE DEF Arrives
<1>1. AccessTypes'
  BY DEF AccessInv, AccessTypes, TaskType
<1>2. EndsFit'
  BY DEF AccessInv, EndsFit
<1>3. FlowsFit'
  BY DEF AccessInv, AccessTypes, FlowsFit, Holding
<1>4. ClaimsFit'
  BY DEF AccessInv, AccessTypes, ClaimsFit, Claimed
<1> QED
  BY <1>1, <1>2, <1>3, <1>4 DEF AccessInv

(* A request moves on, or ends; the others stay as they are. *)
Same(u) ==
  /\ task'[u].browser = task[u].browser /\ task'[u].cookie = task[u].cookie
  /\ task'[u].flow = task[u].flow /\ task'[u].state = task[u].state
  /\ task'[u].since = task[u].since
LEMMA Moves ==
  ASSUME AccessTypes, NEW t \in Task, NEW stage \in {"provider", "open"}, MovedTo(t, stage)
  PROVE  /\ task' \in [Task -> TaskType]
         /\ \A u \in Task : Same(u)
         /\ \A u \in Task : task'[u].at = IF u = t THEN stage ELSE task[u].at
<1>1. PICK r \in TaskType : r = task[t]
  BY DEF AccessTypes
<1>2. [r EXCEPT !.at = stage] \in TaskType
  BY DEF TaskType
<1>3. task' = [task EXCEPT ![t] = [r EXCEPT !.at = stage]]
  BY <1>1 DEF MovedTo
<1> DEFINE q == [r EXCEPT !.at = stage]
<1>4. /\ q.at = stage /\ q.browser = r.browser /\ q.cookie = r.cookie /\ q.flow = r.flow
      /\ q.state = r.state /\ q.since = r.since
  BY DEF TaskType
<1>5. q \in TaskType /\ task' = [task EXCEPT ![t] = q]
  BY <1>2, <1>3
<1> HIDE DEF q
<1> QED
  BY <1>1, <1>4, <1>5 DEF AccessTypes, Same

LEMMA Ends ==
  ASSUME AccessTypes, NEW t \in Task, Done(t)
  PROVE  /\ task' \in [Task -> TaskType]
         /\ \A u \in Task \ {t} : task'[u] = task[u]
         /\ task'[t].at = "none" /\ task'[t].since = 0 /\ task'[t].state = Nobody
  BY DEF Done, AccessTypes, TaskType, NoTask

LEMMA JudgeInv ==
  ASSUME AccessInv, NEW t \in Task, Judge(t)
  PROVE  AccessInv'
<1> USE DEF AccessInv
<1>1. CASE MovedTo(t, "open") /\ task[t].right
  <2>1. /\ task' \in [Task -> TaskType] /\ \A u \in Task : Same(u)
        /\ \A u \in Task : task'[u].at = IF u = t THEN "open" ELSE task[u].at
    BY <1>1, Moves
  <2>2. AccessTypes'
    BY <2>1 DEF AccessTypes, Judge, Looks, Same
  <2>3. EndsFit'
    BY DEF EndsFit, Judge
  <2>4. FlowsFit'
    BY <2>1 DEF FlowsFit, Holding, Judge, Looks, Same
  <2>5. ClaimsFit'
    BY <2>1 DEF ClaimsFit, Claimed, AccessTypes, Judge, Looks, Same
  <2> QED
    BY <2>2, <2>3, <2>4, <2>5
<1>2. CASE Done(t)
  <2>1. /\ task' \in [Task -> TaskType] /\ \A u \in Task \ {t} : task'[u] = task[u]
        /\ task'[t].at = "none" /\ task'[t].since = 0 /\ task'[t].state = Nobody
    BY <1>2, Ends
  <2>2. UNCHANGED <<webClock, sessions, pending, cookie, flow, drawn, used, started, finished>>
    BY DEF Judge
  <2>3. AccessTypes'
    BY <2>1, <2>2 DEF AccessTypes
  <2>4. EndsFit'
    BY <2>2 DEF EndsFit
  <2>5. FlowsFit'
    BY <2>1, <2>2 DEF FlowsFit, Holding
  <2>6. ClaimsFit'
    BY <2>1, <2>2 DEF ClaimsFit, Claimed
  <2> QED
    BY <2>3, <2>4, <2>5, <2>6
<1> QED
  BY <1>1, <1>2 DEF Judge

LEMMA TurnAwayInv ==
  ASSUME AccessInv, NEW t \in Task, TurnAway(t)
  PROVE  AccessInv'
<1> USE DEF AccessInv
<1>1. /\ task' \in [Task -> TaskType] /\ \A u \in Task \ {t} : task'[u] = task[u]
      /\ task'[t].at = "none" /\ task'[t].since = 0 /\ task'[t].state = Nobody
  BY Ends DEF TurnAway
<1>2. UNCHANGED <<webClock, sessions, pending, cookie, flow, drawn, used, started, finished>>
  BY DEF TurnAway
<1>3. AccessTypes'
  BY <1>1, <1>2 DEF AccessTypes
<1>4. EndsFit'
  BY <1>2 DEF EndsFit
<1>5. FlowsFit'
  BY <1>1, <1>2 DEF FlowsFit, Holding
<1>6. ClaimsFit'
  BY <1>1, <1>2 DEF ClaimsFit, Claimed
<1> QED
  BY <1>3, <1>4, <1>5, <1>6

(* What a new session leaves of the others. *)
Others(t) == Restrict(sessions, DOMAIN sessions \ {task[t].cookie})
Opened(rest, id, t) == [k \in DOMAIN rest \cup {id} |-> IF k = id THEN task[t].since + SessionTtl ELSE rest[k]]

LEMMA OpenSessionInv ==
  ASSUME AccessInv, NEW t \in Task, OpenSession(t)
  PROVE  AccessInv'
<1> USE DEF AccessInv
<1> DEFINE id == Fresh(SessionIds)
<1>1. id \in SessionIds \ drawn
  BY FreshDrawn DEF OpenSession
<1>2. PICK rest \in MadeRoom(Others(t), task[t].since) :
        /\ sessions' = Opened(rest, id, t)
        /\ drawn' = drawn \cup {id}
        /\ used' = [used EXCEPT ![id] = task[t].since]
        /\ cookie' = [cookie EXCEPT ![task[t].browser] = id]
  BY DEF OpenSession, Others, Opened
<1>3. /\ DOMAIN rest \subseteq DOMAIN sessions
      /\ \A k \in DOMAIN rest : rest[k] = sessions[k]
  BY <1>2, RoomMade DEF Others, Restrict
<1>4. /\ task' \in [Task -> TaskType] /\ \A u \in Task \ {t} : task'[u] = task[u]
      /\ task'[t].at = "none" /\ task'[t].since = 0 /\ task'[t].state = Nobody
  BY Ends DEF OpenSession
<1>5. /\ UNCHANGED <<webClock, pending, started>>
      /\ finished' = finished \cup ({task[t].state} \ {Nobody})
      /\ flow' = IF task[t].state = Nobody THEN flow ELSE [flow EXCEPT ![task[t].browser] = Nobody]
      /\ task[t].at = "open"
  BY DEF OpenSession
<1> HIDE DEF id
<1>6. task[t].since \in Nat /\ task[t].browser \in Browser /\ task[t].state \in States \cup {Nobody}
  BY <1>5 DEF AccessTypes, TaskType
<1>7. /\ DOMAIN sessions' = DOMAIN rest \cup {id}
      /\ sessions' \in [DOMAIN sessions' -> Int]
      /\ sessions'[id] = task[t].since + SessionTtl
      /\ \A k \in DOMAIN rest : sessions'[k] = sessions[k]
  BY <1>1, <1>2, <1>3, <1>6, SessionAssumption DEF Opened, AccessTypes
<1>8. AccessTypes'
  BY <1>1, <1>2, <1>3, <1>4, <1>5, <1>6, <1>7 DEF AccessTypes
<1>9. EndsFit'
  BY <1>1, <1>2, <1>3, <1>6, <1>7, SessionAssumption DEF EndsFit, AccessTypes
<1>10. FlowsFit'
  BY <1>2, <1>4, <1>5, <1>6 DEF FlowsFit, Holding, AccessTypes
<1>11. ClaimsFit'
  BY <1>2, <1>4, <1>5 DEF ClaimsFit, Claimed
<1> QED
  BY <1>8, <1>9, <1>10, <1>11

LEMMA BeginInv ==
  ASSUME AccessInv, NEW t \in Task, Begin(t)
  PROVE  AccessInv'
<1> USE DEF AccessInv
<1>1. /\ task' \in [Task -> TaskType] /\ \A u \in Task \ {t} : task'[u] = task[u]
      /\ task'[t].at = "none" /\ task'[t].since = 0 /\ task'[t].state = Nobody
  BY Ends DEF Begin
<1>2. UNCHANGED <<webClock, sessions, cookie, used, finished>> /\ task[t].at = "start"
  BY DEF Begin
<1>3. task[t].browser \in Browser /\ task[t].since \in Nat
  BY <1>2 DEF AccessTypes, TaskType
<1>4. EndsFit'
  BY <1>2 DEF EndsFit
<1>5. CASE UNCHANGED <<pending, drawn, started, flow>>
  <2>1. AccessTypes'
    BY <1>1, <1>2, <1>5 DEF AccessTypes
  <2>2. FlowsFit'
    BY <1>1, <1>5 DEF FlowsFit, Holding
  <2>3. ClaimsFit'
    BY <1>1, <1>2, <1>5 DEF ClaimsFit, Claimed
  <2> QED
    BY <2>1, <2>2, <2>3, <1>4
<1>6. CASE States \ drawn # {} /\ ~UNCHANGED <<pending, drawn, started, flow>>
  <2> DEFINE s == Fresh(States)
  <2>1. s \in States \ drawn
    BY <1>6, FreshDrawn
  <2>2. PICK room \in RoomToStart(pending, task[t].since) :
          /\ pending' = [k \in DOMAIN room \cup {s} |-> IF k = s THEN task[t].since ELSE room[k]]
          /\ drawn' = drawn \cup {s}
          /\ started' = [started EXCEPT ![s] = task[t].browser]
          /\ flow' = [flow EXCEPT ![task[t].browser] = s]
    BY <1>6 DEF Begin
  <2>3. /\ DOMAIN room \subseteq DOMAIN pending
        /\ \A k \in DOMAIN room : room[k] = pending[k]
    BY <2>2, RoomStarted
  <2> HIDE DEF s
  <2>4. /\ DOMAIN pending' = DOMAIN room \cup {s}
        /\ pending' \in [DOMAIN pending' -> Nat]
    BY <1>3, <2>2, <2>3 DEF AccessTypes
  <2>5. AccessTypes'
    BY <1>1, <1>2, <1>3, <2>1, <2>2, <2>3, <2>4 DEF AccessTypes
  <2>6. FlowsFit'
    BY <1>1, <1>3, <2>1, <2>2 DEF FlowsFit, Holding, AccessTypes
  <2>7. ClaimsFit'
    BY <1>1, <1>2, <2>1, <2>2, <2>3, <2>4 DEF ClaimsFit, Claimed, AccessTypes
  <2> QED
    BY <2>5, <2>6, <2>7, <1>4
<1> QED
  BY <1>5, <1>6 DEF Begin

(* The state is gone whatever comes of it. *)
LEMMA ClaimInv ==
  ASSUME AccessInv, NEW t \in Task, Claim(t)
  PROVE  AccessInv'
<1> USE DEF AccessInv
<1> DEFINE s == task[t].state
           known == s \in DOMAIN pending /\ task[t].since - pending[s] < FlowTtl /\ task[t].flow = s
<1>1. /\ UNCHANGED <<webClock, sessions, cookie, drawn, used, started, finished>>
      /\ task[t].at = "callback"
      /\ pending' = Spent(s)
      /\ IF known THEN MovedTo(t, "provider") /\ UNCHANGED flow
                  ELSE Done(t) /\ flow' = [flow EXCEPT ![task[t].browser] = Nobody]
  BY DEF Claim
<1>2. /\ DOMAIN pending' = DOMAIN pending \ {s}
      /\ pending' \in [DOMAIN pending' -> Nat]
  BY <1>1 DEF Spent, Restrict, AccessTypes
<1>3. EndsFit'
  BY <1>1 DEF EndsFit
<1>4. task[t].browser \in Browser
  BY <1>1 DEF AccessTypes
<1>5. CASE known
  <2>1. /\ task' \in [Task -> TaskType] /\ \A u \in Task : Same(u)
        /\ \A u \in Task : task'[u].at = IF u = t THEN "provider" ELSE task[u].at
    BY <1>1, <1>5, Moves
  <2>2. s \in drawn /\ s # Nobody /\ s \notin finished /\ started[s] = task[t].browser
    BY <1>1, <1>5, SessionAssumption DEF AccessTypes, ClaimsFit, FlowsFit, Holding
  <2>3. AccessTypes'
    BY <1>1, <1>2, <1>5, <2>1 DEF AccessTypes, Same
  <2>4. FlowsFit'
    BY <1>1, <1>5, <2>1 DEF FlowsFit, Holding, Same
  <2>5. ClaimsFit'
    <3>1. \A u \in Task : Claimed(u)' /\ task[u].state \in DOMAIN pending => u = t
      BY <2>1 DEF ClaimsFit, Claimed, Same
    <3> QED
      BY <1>1, <1>2, <1>5, <2>1, <2>2, <3>1 DEF ClaimsFit, Claimed, Same
  <2> QED
    BY <1>3, <2>3, <2>4, <2>5
<1>6. CASE ~known
  <2>1. /\ task' \in [Task -> TaskType] /\ \A u \in Task \ {t} : task'[u] = task[u]
        /\ task'[t].at = "none" /\ task'[t].since = 0 /\ task'[t].state = Nobody
    BY <1>1, <1>6, Ends
  <2>2. flow' = [flow EXCEPT ![task[t].browser] = Nobody]
    BY <1>1, <1>6
  <2>3. AccessTypes'
    BY <1>1, <1>2, <1>4, <2>1, <2>2 DEF AccessTypes
  <2>4. FlowsFit'
    BY <1>1, <1>4, <2>1, <2>2 DEF FlowsFit, Holding, AccessTypes
  <2>5. ClaimsFit'
    BY <1>1, <1>2, <2>1 DEF ClaimsFit, Claimed
  <2> QED
    BY <1>3, <2>3, <2>4, <2>5
<1> QED
  BY <1>5, <1>6

LEMMA RedeemInv ==
  ASSUME AccessInv, NEW t \in Task, Redeem(t)
  PROVE  AccessInv'
<1> USE DEF AccessInv
<1>1. /\ UNCHANGED <<webClock, sessions, pending, cookie, drawn, used, started, finished>>
      /\ task[t].at = "provider"
  BY DEF Redeem
<1>2. task[t].browser \in Browser
  BY <1>1 DEF AccessTypes
<1>3. EndsFit'
  BY <1>1 DEF EndsFit
<1>4. CASE MovedTo(t, "open") /\ UNCHANGED flow
  <2>1. /\ task' \in [Task -> TaskType] /\ \A u \in Task : Same(u)
        /\ \A u \in Task : task'[u].at = IF u = t THEN "open" ELSE task[u].at
    BY <1>4, Moves
  <2>2. AccessTypes'
    BY <1>1, <1>4, <2>1 DEF AccessTypes, Same
  <2>3. FlowsFit'
    BY <1>1, <1>4, <2>1 DEF FlowsFit, Holding, Same
  <2>4. ClaimsFit'
    BY <1>1, <2>1 DEF ClaimsFit, Claimed, Same
  <2> QED
    BY <1>3, <2>2, <2>3, <2>4
<1>5. CASE Done(t) /\ flow' = [flow EXCEPT ![task[t].browser] = Nobody]
  <2>1. /\ task' \in [Task -> TaskType] /\ \A u \in Task \ {t} : task'[u] = task[u]
        /\ task'[t].at = "none" /\ task'[t].since = 0 /\ task'[t].state = Nobody
    BY <1>5, Ends
  <2>2. AccessTypes'
    BY <1>1, <1>2, <1>5, <2>1 DEF AccessTypes
  <2>3. FlowsFit'
    BY <1>1, <1>2, <1>5, <2>1 DEF FlowsFit, Holding, AccessTypes
  <2>4. ClaimsFit'
    BY <1>1, <2>1 DEF ClaimsFit, Claimed
  <2> QED
    BY <1>3, <2>2, <2>3, <2>4
<1> QED
  BY <1>4, <1>5 DEF Redeem

LEMMA TouchInv ==
  ASSUME AccessInv, NEW b \in Browser, Touch(b)
  PROVE  AccessInv'
<1> USE DEF AccessInv
<1> DEFINE id == cookie[b]
<1>1. /\ UNCHANGED <<webClock, pending, task, cookie, flow, drawn, started, finished>>
      /\ id \in DOMAIN sessions /\ id \in SessionIds
  BY DEF Touch, AccessTypes
<1>2. CASE sessions[id] > webClock
  <2>1. used' = [used EXCEPT ![id] = webClock]
    BY <1>2 DEF Touch
  <2>2. /\ DOMAIN sessions' = DOMAIN sessions
        /\ sessions' \in [DOMAIN sessions -> Int]
        /\ \A k \in DOMAIN sessions \ {id} : sessions'[k] = sessions[k]
        /\ webClock + SessionTtl - SessionRefresh <= sessions'[id]
        /\ sessions'[id] <= webClock + SessionTtl
    <3>1. sessions[id] \in Int /\ webClock \in Nat /\ used[id] \in Nat
      BY <1>1 DEF AccessTypes
    <3>2. CASE sessions[id] + SessionRefresh < webClock + SessionTtl
      <4>1. sessions' = [sessions EXCEPT ![id] = webClock + SessionTtl]
        BY <1>2, <3>2 DEF Touch
      <4> QED
        BY <1>1, <3>1, <4>1, SessionAssumption DEF AccessTypes
    <3>3. CASE ~(sessions[id] + SessionRefresh < webClock + SessionTtl)
      <4>1. sessions' = sessions
        BY <1>2, <3>3 DEF Touch
      <4>2. used[id] <= webClock
        BY <1>1 DEF AccessTypes
      <4>3. sessions[id] <= used[id] + SessionTtl
        BY <1>1 DEF EndsFit
      <4> QED
        BY <1>1, <3>1, <3>3, <4>1, <4>2, <4>3, SessionAssumption DEF AccessTypes
    <3> QED
      BY <3>2, <3>3
  <2>3. AccessTypes'
    BY <1>1, <2>1, <2>2 DEF AccessTypes
  <2>4. EndsFit'
    BY <1>1, <2>1, <2>2 DEF EndsFit, AccessTypes
  <2>5. FlowsFit' /\ ClaimsFit'
    BY <1>1 DEF FlowsFit, Holding, ClaimsFit, Claimed
  <2> QED
    BY <2>3, <2>4, <2>5
<1>3. CASE ~(sessions[id] > webClock)
  <2>1. used' = used /\ sessions' = Restrict(sessions, DOMAIN sessions \ {id})
    BY <1>3 DEF Touch
  <2>2. AccessTypes' /\ EndsFit'
    BY <1>1, <2>1 DEF AccessTypes, EndsFit, Restrict
  <2>3. FlowsFit' /\ ClaimsFit'
    BY <1>1 DEF FlowsFit, Holding, ClaimsFit, Claimed
  <2> QED
    BY <2>2, <2>3
<1> QED
  BY <1>2, <1>3

LEMMA LeaveInv ==
  ASSUME AccessInv, NEW b \in Browser, LogOut(b) \/ ForgetCookies(b)
  PROVE  AccessInv'
<1> USE DEF AccessInv
<1>1. UNCHANGED <<webClock, pending, task, drawn, used, started, finished>>
  BY DEF LogOut, ForgetCookies
<1>2. cookie' = [cookie EXCEPT ![b] = Nobody] /\ flow' \in {flow, [flow EXCEPT ![b] = Nobody]}
  BY DEF LogOut, ForgetCookies
<1>3. sessions' \in {sessions, Restrict(sessions, DOMAIN sessions \ {cookie[b]})}
  BY DEF LogOut, ForgetCookies
<1>4. AccessTypes'
  BY <1>1, <1>2, <1>3 DEF AccessTypes, Restrict
<1>5. EndsFit'
  BY <1>1, <1>3 DEF EndsFit, Restrict
<1>6. FlowsFit'
  BY <1>1, <1>2 DEF FlowsFit, Holding, AccessTypes
<1>7. ClaimsFit'
  BY <1>1 DEF ClaimsFit, Claimed
<1> QED
  BY <1>4, <1>5, <1>6, <1>7

LEMMA RestartInv ==
  ASSUME AccessInv, RestartServer
  PROVE  AccessInv'
<1> USE DEF AccessInv
<1>1. DOMAIN NoneOf = {} /\ NoneOf \in [{} -> Int] /\ NoneOf \in [{} -> Nat]
  BY DEF NoneOf
<1>2. NoTask \in TaskType /\ NoTask.at = "none" /\ NoTask.since = 0
  BY DEF TaskType, NoTask
<1>3. AccessTypes'
  BY <1>1, <1>2 DEF RestartServer, AccessTypes
<1>4. EndsFit' /\ FlowsFit' /\ ClaimsFit'
  BY <1>1, <1>2 DEF RestartServer, EndsFit, FlowsFit, ClaimsFit, Holding, Claimed
<1> QED
  BY <1>3, <1>4

LEMMA ClockInv ==
  ASSUME AccessInv, WebClockMoves
  PROVE  AccessInv'
<1>1. AccessTypes'
  BY DEF AccessInv, AccessTypes, WebClockMoves, TaskType
<1>2. EndsFit' /\ FlowsFit' /\ ClaimsFit'
  BY DEF AccessInv, WebClockMoves, EndsFit, FlowsFit, ClaimsFit, Holding, Claimed
<1> QED
  BY <1>1, <1>2 DEF AccessInv

LEMMA AccessInvNext == AccessInv /\ [AccessNext]_accessVars => AccessInv'
<1> SUFFICES ASSUME AccessInv, [AccessNext]_accessVars PROVE AccessInv'
  OBVIOUS
<1>1. ASSUME NEW t \in Task, NEW b \in Browser,
             \/ \E right \in BOOLEAN : Arrives(t, b, "login", Nobody, right)
             \/ Arrives(t, b, "start", Nobody, FALSE)
             \/ \E s \in States \cap drawn : Arrives(t, b, "callback", s, FALSE)
      PROVE  AccessInv'
  BY <1>1, ArrivesInv
<1>2. ASSUME NEW t \in Task,
             Judge(t) \/ TurnAway(t) \/ OpenSession(t) \/ Begin(t) \/ Claim(t) \/ Redeem(t)
      PROVE  AccessInv'
  BY <1>2, JudgeInv, TurnAwayInv, OpenSessionInv, BeginInv, ClaimInv, RedeemInv
<1>3. ASSUME NEW b \in Browser, Touch(b) \/ LogOut(b) \/ ForgetCookies(b)
      PROVE  AccessInv'
  BY <1>3, TouchInv, LeaveInv
<1>4. CASE RestartServer \/ WebClockMoves
  BY <1>4, RestartInv, ClockInv
<1>5. CASE UNCHANGED accessVars
  <2>1. AccessTypes' /\ EndsFit'
    BY <1>5 DEF accessVars, AccessInv, AccessTypes, EndsFit
  <2>2. FlowsFit' /\ ClaimsFit'
    BY <1>5 DEF accessVars, AccessInv, FlowsFit, ClaimsFit, Holding, Claimed
  <2> QED
    BY <2>1, <2>2 DEF AccessInv
<1> QED
  BY <1>1, <1>2, <1>3, <1>4, <1>5 DEF AccessNext

(* In every reachable state: a state is claimed by one request, in the       *)
(* browser it was given to, and a session ends a full time after its use.    *)
THEOREM AccessHolds == AccessSpec => []AccessInv
  BY AccessStart, AccessInvNext, PTL DEF AccessSpec

(* A sign-in opens one session, in the browser it was started in, also when  *)
(* its callback comes twice or at once (oidc.rs `claim`).                    *)
THEOREM OneSessionPerSignInHolds == AccessSpec => OneSessionPerSignIn
<1> DEFINE Step == \A t \in Task : OpenSession(t) /\ task[t].state # Nobody =>
                     task[t].state \notin finished /\ started[task[t].state] = task[t].browser
<1>1. AccessInv => Step
  BY DEF AccessInv, ClaimsFit, Claimed, OpenSession
<1>2. AccessInv /\ [AccessNext]_accessVars => [Step]_accessVars
  BY <1>1
<1> QED
  BY AccessHolds, <1>2, PTL DEF AccessSpec, OneSessionPerSignIn

(* A session ends only by its own browser, by disuse, or past the limit when *)
(* no other was idle a day longer (session.rs `open`, `touch`).              *)
THEOREM SessionsOutliveUseHolds == AccessSpec => SessionsOutliveUse
<1> DEFINE Fair(id) ==
             \/ \E t \in Task : OpenSession(t) /\ task[t].cookie = id
             \/ webClock - used[id] >= SessionTtl - SessionRefresh
             \/ \A other \in DOMAIN sessions \cap DOMAIN sessions' : used[id] <= used[other] + SessionRefresh
           Step == (\E b \in Browser : Touch(b)) \/ (\E t \in Task : OpenSession(t)) =>
                     \A id \in DOMAIN sessions \ DOMAIN sessions' : Fair(id)
<1>1. ASSUME AccessInv, NEW id \in DOMAIN sessions
      PROVE  /\ sessions[id] \in Int /\ used[id] \in Nat /\ webClock \in Nat
             /\ used[id] + SessionTtl - SessionRefresh <= sessions[id]
             /\ sessions[id] <= used[id] + SessionTtl
  BY <1>1 DEF AccessInv, AccessTypes, EndsFit
<1>2. ASSUME AccessInv, NEW b \in Browser, Touch(b), NEW id \in DOMAIN sessions \ DOMAIN sessions'
      PROVE  Fair(id)
  <2>1. id = cookie[b] /\ ~(sessions[id] > webClock)
    BY <1>2 DEF Touch, Restrict
  <2>2. webClock - used[id] >= SessionTtl - SessionRefresh
    BY <1>1, <1>2, <2>1, SessionAssumption
  <2> QED
    BY <2>2
<1>3. ASSUME AccessInv, NEW t \in Task, OpenSession(t), NEW id \in DOMAIN sessions \ DOMAIN sessions'
      PROVE  Fair(id)
  <2>1. PICK rest \in MadeRoom(Others(t), task[t].since) : sessions' = Opened(rest, Fresh(SessionIds), t)
    BY <1>3 DEF OpenSession, Others, Opened
  <2>2. DOMAIN Others(t) = DOMAIN sessions \ {task[t].cookie} /\ \A k \in DOMAIN Others(t) : Others(t)[k] = sessions[k]
    BY DEF Others, Restrict
  <2>3. DOMAIN sessions' = DOMAIN rest \cup {Fresh(SessionIds)}
    BY <2>1 DEF Opened
  <2>4. Fresh(SessionIds) \notin DOMAIN sessions
    BY <1>3, FreshDrawn DEF OpenSession, AccessInv, AccessTypes
  <2>5. CASE id = task[t].cookie
    BY <1>3, <2>5
  <2>6. CASE id # task[t].cookie /\ ~(sessions[id] > task[t].since)
    <3>1. task[t].since <= webClock /\ task[t].since \in Nat
      BY <1>3 DEF AccessInv, AccessTypes, TaskType
    <3>2. webClock - used[id] >= SessionTtl - SessionRefresh
      BY <1>1, <1>3, <2>6, <3>1, SessionAssumption
    <3> QED
      BY <3>2
  <2>7. CASE id # task[t].cookie /\ sessions[id] > task[t].since
    <3>1. \A other \in DOMAIN rest : sessions[id] <= Others(t)[other]
      BY <2>1, <2>2, <2>3, <2>7, RoomMade
    <3>2. DOMAIN rest \subseteq DOMAIN Others(t)
      BY <2>1, RoomMade
    <3>3. \A other \in DOMAIN sessions \cap DOMAIN sessions' : sessions[id] <= sessions[other]
      BY <2>2, <2>3, <2>4, <3>1, <3>2
    <3>4. ASSUME NEW other \in DOMAIN sessions \cap DOMAIN sessions'
          PROVE  used[id] <= used[other] + SessionRefresh
      BY <1>1, <1>3, <3>3, SessionAssumption
    <3> QED
      BY <3>4
  <2> QED
    BY <2>5, <2>6, <2>7
<1>4. AccessInv /\ [AccessNext]_accessVars => [Step]_accessVars
  BY <1>2, <1>3
<1> QED
  BY AccessHolds, <1>4, PTL DEF AccessSpec, SessionsOutliveUse

-----------------------------------------------------------------------------
(* Of numbers there is a smallest; what holds of 0, and with a number of    *)
(* the next, holds of all.                                                  *)
LEMMA Smallest ==
  ASSUME NEW T \in SUBSET Nat, T # {}
  PROVE  \E n \in T : \A m \in T : n <= m
<1>1. PICK n \in T : \A m \in T : <<m, n>> \notin OpToRel(<, Nat)
  BY NatLessThanWellFounded, WFMin, Zenon
<1>2. n \in Nat /\ \A m \in T : m \in Nat /\ ~(m < n)
  BY <1>1 DEF OpToRel
<1> QED
  BY <1>2

LEMMA FromZero ==
  ASSUME NEW S, 0 \in S, \A n \in S \cap Nat : n + 1 \in S
  PROVE  Nat \subseteq S
<1> SUFFICES ASSUME Nat \ S # {} PROVE FALSE
  OBVIOUS
<1>1. PICK n \in Nat \ S : \A m \in Nat \ S : n <= m
  BY Smallest
<1>2. n # 0 /\ n - 1 \in Nat /\ n - 1 \in S
  BY <1>1
<1> QED
  BY <1>2

(* What Doubling is defined by; the code's shifts and its limit satisfy it. *)
Doubles(f) == f = [k \in Nat |-> IF k = 0 THEN ThrottleFirst ELSE Smaller(ThrottleMax, 2 * f[k - 1])]

LEMMA DoublingExists == \E f : Doubles(f)
<1> DEFINE g == [k \in Nat |-> IF k = 0 THEN ThrottleFirst
                               ELSE IF k = 1 THEN Smaller(ThrottleMax, 2 * ThrottleFirst)
                               ELSE IF k = 2 THEN Smaller(ThrottleMax, 4 * ThrottleFirst)
                               ELSE IF k = 3 THEN Smaller(ThrottleMax, 8 * ThrottleFirst)
                               ELSE IF k = 4 THEN Smaller(ThrottleMax, 16 * ThrottleFirst)
                               ELSE IF k = 5 THEN Smaller(ThrottleMax, 32 * ThrottleFirst)
                               ELSE IF k = 6 THEN Smaller(ThrottleMax, 64 * ThrottleFirst)
                               ELSE IF k = 7 THEN Smaller(ThrottleMax, 128 * ThrottleFirst)
                               ELSE IF k = 8 THEN Smaller(ThrottleMax, 256 * ThrottleFirst)
                               ELSE IF k = 9 THEN Smaller(ThrottleMax, 512 * ThrottleFirst)
                               ELSE ThrottleMax]
<1>1. \A k \in Nat : g[k] = IF k = 0 THEN ThrottleFirst ELSE Smaller(ThrottleMax, 2 * g[k - 1])
  BY SessionAssumption DEF Smaller
<1> HIDE DEF g
<1>2. g = [k \in Nat |-> g[k]]
  BY DEF g
<1>3. Doubles(g)
  BY <1>1, <1>2 DEF Doubles
<1> QED
  BY <1>3

LEMMA DoublingFits ==
  /\ Doubling[0] = ThrottleFirst
  /\ \A k \in Nat : Doubling[k + 1] = Smaller(ThrottleMax, 2 * Doubling[k])
<1>1. Doubles(Doubling)
  BY DoublingExists, Zenon DEF Doubles, Doubling
<1>2. \A k \in Nat : Doubling[k] = IF k = 0 THEN ThrottleFirst ELSE Smaller(ThrottleMax, 2 * Doubling[k - 1])
  BY <1>1, Zenon DEF Doubles
<1> QED
  BY <1>2

LEMMA DoublingNat == \A k \in Nat : Doubling[k] \in Nat
<1> DEFINE S == {k \in Nat : Doubling[k] \in Nat}
<1>1. 0 \in S
  BY DoublingFits, SessionAssumption
<1>2. \A k \in S \cap Nat : k + 1 \in S
  BY DoublingFits, SessionAssumption DEF Smaller
<1> HIDE DEF S
<1>3. Nat \subseteq S
  BY <1>1, <1>2, FromZero
<1> QED
  BY <1>3 DEF S

LEMMA DoublesOnce ==
  ASSUME NEW k \in Nat, NEW v \in Nat, Smaller(ThrottleMax, Doubling[k]) = Smaller(ThrottleMax, v)
  PROVE  Doubling[k + 1] = Smaller(ThrottleMax, 2 * v)
  BY DoublingFits, DoublingNat, SessionAssumption DEF Smaller

(* The values the code's shifts give. *)
LEMMA Shifts ==
  /\ 2 ^ 0 = 1 /\ 2 ^ 1 = 2 /\ 2 ^ 2 = 4 /\ 2 ^ 3 = 8 /\ 2 ^ 4 = 16 /\ 2 ^ 5 = 32
  /\ 2 ^ 6 = 64 /\ 2 ^ 7 = 128 /\ 2 ^ 8 = 256 /\ 2 ^ 9 = 512 /\ 2 ^ 10 = 1024
  OBVIOUS

LEMMA DoublingShifts ==
  ASSUME NEW k \in 0..10
  PROVE  /\ 2 ^ k \in Nat
         /\ Smaller(ThrottleMax, Doubling[k]) = Smaller(ThrottleMax, 2 ^ k * ThrottleFirst)
<1> DEFINE Fits(j, v) == Smaller(ThrottleMax, Doubling[j]) = Smaller(ThrottleMax, v * ThrottleFirst)
<1>z. ThrottleFirst \in Nat /\ ThrottleMax \in Nat
  BY SessionAssumption
<1>a. \A v \in Nat : Smaller(ThrottleMax, Smaller(ThrottleMax, v)) = Smaller(ThrottleMax, v)
  BY <1>z DEF Smaller
<1>b. Fits(0, 1)
  BY <1>z, DoublingFits
<1>c. ASSUME NEW j \in Nat, NEW v \in Nat, Fits(j, v)
      PROVE  Fits(j + 1, 2 * v)
  <2>1. v * ThrottleFirst \in Nat /\ 2 * (v * ThrottleFirst) = (2 * v) * ThrottleFirst
    BY <1>z
  <2>2. Doubling[j + 1] = Smaller(ThrottleMax, 2 * (v * ThrottleFirst))
    BY <1>c, <2>1, DoublesOnce
  <2> QED
    BY <1>z, <1>a, <2>1, <2>2
<1> HIDE DEF Fits
<1>d. Fits(1, 2) /\ Fits(2, 4) /\ Fits(3, 8)
  BY <1>b, <1>c
<1>e. Fits(4, 16) /\ Fits(5, 32) /\ Fits(6, 64)
  BY <1>c, <1>d
<1>f. Fits(7, 128) /\ Fits(8, 256) /\ Fits(9, 512) /\ Fits(10, 1024)
  BY <1>c, <1>e
<1> SUFFICES 2 ^ k \in Nat /\ Fits(k, 2 ^ k)
  BY DEF Fits
<1>g. ASSUME NEW j \in Nat, NEW v \in Nat, k = j, 2 ^ j = v, Fits(j, v)
      PROVE  2 ^ k \in Nat /\ Fits(k, 2 ^ k)
  BY <1>g, Zenon
<1>0. CASE k = 0
  BY <1>g, <1>0, <1>b, Shifts
<1>1. CASE k = 1
  BY <1>g, <1>1, <1>d, Shifts
<1>2. CASE k = 2
  BY <1>g, <1>2, <1>d, Shifts
<1>3. CASE k = 3
  BY <1>g, <1>3, <1>d, Shifts
<1>4. CASE k = 4
  BY <1>g, <1>4, <1>e, Shifts
<1>5. CASE k = 5
  BY <1>g, <1>5, <1>e, Shifts
<1>6. CASE k = 6
  BY <1>g, <1>6, <1>e, Shifts
<1>7. CASE k = 7
  BY <1>g, <1>7, <1>f, Shifts
<1>8. CASE k = 8
  BY <1>g, <1>8, <1>f, Shifts
<1>9. CASE k = 9
  BY <1>g, <1>9, <1>f, Shifts
<1>10. CASE k = 10
  BY <1>g, <1>10, <1>f, Shifts
<1> QED
  BY <1>0, <1>1, <1>2, <1>3, <1>4, <1>5, <1>6, <1>7, <1>8, <1>9, <1>10

LEMMA DoublingEnds == \A k \in Nat : k >= 10 => Doubling[k] >= ThrottleMax
<1> DEFINE S == {k \in Nat : k >= 10 => Doubling[k] >= ThrottleMax}
<1>0. ThrottleFirst \in Nat /\ ThrottleMax \in Nat /\ ThrottleFirst * 1024 >= ThrottleMax
  BY SessionAssumption
<1>1. 0 \in S
  OBVIOUS
<1>2. \A k \in S \cap Nat : k + 1 \in S
  <2> SUFFICES ASSUME NEW k \in S, k + 1 >= 10 PROVE Doubling[k + 1] >= ThrottleMax
    OBVIOUS
  <2>1. CASE k >= 10
    BY <1>0, <2>1, DoublingFits, DoublingNat DEF Smaller
  <2>2. CASE k = 9
    <3>1. Smaller(ThrottleMax, Doubling[10]) = Smaller(ThrottleMax, 1024 * ThrottleFirst)
      BY DoublingShifts, Shifts
    <3>2. Doubling[10] \in Nat
      BY DoublingNat
    <3> QED
      BY <1>0, <2>2, <3>1, <3>2 DEF Smaller
  <2> QED
    BY <2>1, <2>2
<1> HIDE DEF S
<1>3. Nat \subseteq S
  BY <1>1, <1>2, FromZero
<1> QED
  BY <1>3 DEF S

(* The code shifts and cuts off once; the comment doubles and cuts off each  *)
(* time: the pauses are the same.                                            *)
LEMMA PausesAgree ==
  ASSUME NEW n \in Nat
  PROVE  /\ Pause(n) = RefPause(n)
         /\ Pause(n) \in Nat /\ (n < ThrottleAfter => Pause(n) = 0) /\ Pause(n) <= ThrottleMax
<1>0. ThrottleAfter \in Nat /\ ThrottleFirst \in Nat /\ ThrottleMax \in Nat /\ ThrottleFirst * 1024 >= ThrottleMax
  BY SessionAssumption
<1>1. CASE n < ThrottleAfter
  BY <1>0, <1>1 DEF Pause, RefPause
<1>2. CASE n - ThrottleAfter \in 0..10
  <2>1. PICK k \in 0..10 : k = n - ThrottleAfter
    BY <1>2
  <2>2. Smaller(k, 10) = k
    BY DEF Smaller
  <2>3. Pause(n) = Smaller(ThrottleFirst * 2 ^ k, ThrottleMax)
    BY <1>0, <2>1, <2>2 DEF Pause
  <2>4. RefPause(n) = Smaller(ThrottleMax, 2 ^ k * ThrottleFirst) /\ 2 ^ k \in Nat
    <3>1. RefPause(n) = Smaller(ThrottleMax, Doubling[k])
      BY <1>0, <2>1 DEF RefPause
    <3> QED
      BY <3>1, DoublingShifts, Zenon
  <2>5. PICK p \in Nat : p = 2 ^ k
    BY <2>4
  <2>6. p * ThrottleFirst \in Nat /\ ThrottleFirst * p = p * ThrottleFirst
    BY <1>0
  <2> QED
    BY <1>0, <2>1, <2>3, <2>4, <2>5, <2>6 DEF Smaller
<1>3. CASE n - ThrottleAfter > 10
  <2>1. Smaller(n - ThrottleAfter, 10) = 10
    BY <1>0, <1>3 DEF Smaller
  <2>2. 2 ^ Smaller(n - ThrottleAfter, 10) = 1024
    BY <2>1, Shifts
  <2>3. Pause(n) = ThrottleMax
    BY <1>0, <1>3, <2>2 DEF Pause, Smaller
  <2>4. RefPause(n) = ThrottleMax
    BY <1>0, <1>3, DoublingEnds, DoublingNat DEF RefPause, Smaller
  <2> QED
    BY <1>0, <1>3, <2>3, <2>4
<1> QED
  BY <1>0, <1>1, <1>2, <1>3
-----------------------------------------------------------------------------
(* The pause kept is as long as the pause due, while that lasts. *)
PauseFits ==
  /\ failures \in Nat /\ resume \in Nat
  /\ pauseEnd # Nobody => pauseEnd \in Nat /\ pauseEnd <= webClock + ThrottleMax
  /\ failures < ThrottleAfter => pauseEnd = Nobody
  /\ resume <= webClock \/ (pauseEnd # Nobody /\ resume <= pauseEnd)

LEMMA JudgePause ==
  ASSUME AccessInv, PauseFits, NEW t \in Task, Judge(t)
  PROVE  PauseFits' /\ webClock >= resume /\ webClock' = webClock
<1>0. ThrottleAfter \in Nat \ {0} /\ ThrottleMax \in Nat /\ Nobody \notin Nat
  BY SessionAssumption
<1>1. task[t].since \in Nat /\ webClock \in Nat /\ task[t].since <= webClock /\ webClock' = webClock
  BY DEF AccessInv, AccessTypes, TaskType, Judge
<1>2. webClock >= resume
  BY <1>1 DEF Judge, Looks, Paused, PauseFits
<1>3. CASE task[t].right
  <2>1. failures' = 0 /\ pauseEnd' = Nobody /\ resume' = 0
    BY <1>3 DEF Judge
  <2>2. PauseFits'
    BY <1>0, <1>1, <2>1 DEF PauseFits
  <2> QED
    BY <1>1, <1>2, <2>2
<1>4. CASE ~task[t].right
  <2>1. PICK n \in Nat : n = failures + 1
    BY DEF PauseFits
  <2>2. /\ Pause(n) = RefPause(n)
        /\ Pause(n) \in Nat /\ (n < ThrottleAfter => Pause(n) = 0) /\ Pause(n) <= ThrottleMax
    BY PausesAgree
  <2>3. /\ failures' = n
        /\ pauseEnd' = IF Pause(n) = 0 THEN pauseEnd ELSE task[t].since + Pause(n)
        /\ resume' = task[t].since + Pause(n)
    BY <1>4, <2>1, <2>2 DEF Judge
  <2>4. PICK p \in Nat : p = Pause(n)
    BY <2>2
  <2>5. /\ failures' = n /\ resume' = task[t].since + p
        /\ p = 0 => pauseEnd' = pauseEnd
        /\ p # 0 => pauseEnd' = task[t].since + p
        /\ n < ThrottleAfter => p = 0
        /\ p <= ThrottleMax
    BY <2>2, <2>3, <2>4
  <2>6. PauseFits'
    BY <1>0, <1>1, <2>1, <2>5 DEF PauseFits
  <2> QED
    BY <1>1, <1>2, <2>6
<1> QED
  BY <1>3, <1>4

LEMMA PauseStep ==
  ASSUME AccessInv, PauseFits, [AccessNext]_accessVars
  PROVE  PauseFits'
<1>0. ThrottleAfter \in Nat \ {0} /\ ThrottleMax \in Nat /\ Nobody \notin Nat
  BY SessionAssumption
<1>1. webClock \in Nat
  BY DEF AccessInv, AccessTypes
<1>2. ASSUME NEW t \in Task, Judge(t)
      PROVE  PauseFits'
  BY <1>2, JudgePause
<1>3. CASE RestartServer
  BY <1>0, <1>1, <1>3 DEF RestartServer, PauseFits
<1>4. CASE WebClockMoves
  BY <1>0, <1>1, <1>4 DEF WebClockMoves, PauseFits
<1>5. CASE UNCHANGED <<webClock, failures, pauseEnd, resume>>
  BY <1>5 DEF PauseFits
<1> QED
  BY <1>2, <1>3, <1>4, <1>5
     DEF AccessNext, accessVars, Arrives, TurnAway, OpenSession, Begin, Claim, Redeem, Touch, LogOut, ForgetCookies

(* The pause kept is the one due, in every reachable state (throttle.rs      *)
(* `failed`, `wait`).                                                       *)
THEOREM PauseFitsHolds == AccessSpec => []PauseFits
<1>0. ThrottleAfter \in Nat \ {0} /\ ThrottleMax \in Nat /\ Nobody \notin Nat
  BY SessionAssumption
<1>1. AccessInit => PauseFits
  <2> SUFFICES ASSUME AccessInit PROVE PauseFits
    OBVIOUS
  <2>1. failures = 0 /\ resume = 0 /\ pauseEnd = Nobody /\ webClock = 0
    BY DEF AccessInit
  <2>2. failures \in Nat /\ resume \in Nat
    BY <2>1
  <2>3. pauseEnd # Nobody => pauseEnd \in Nat /\ pauseEnd <= webClock + ThrottleMax
    BY <2>1
  <2>4. failures < ThrottleAfter => pauseEnd = Nobody
    BY <2>1
  <2>5. resume <= webClock
    BY <2>1
  <2> QED
    BY <2>2, <2>3, <2>4, <2>5 DEF PauseFits
<1> QED
  BY <1>1, AccessHolds, PauseStep, PTL DEF AccessSpec

(* No login is looked at before the pause due is over, however many arrive   *)
(* at once and for any lengths, and no pause is longer than the longest:     *)
(* shifting and cutting off once, as the code does, gives the doubling the   *)
(* comment has (throttle.rs `wait`, `failed`).                               *)
THEOREM PausesHoldHolds == AccessSpec => PausesHold
<1> DEFINE Step == /\ \A t \in Task : Judge(t) => webClock >= resume
                   /\ pauseEnd' # Nobody => pauseEnd' <= webClock' + ThrottleMax
<1>1. AccessInv /\ PauseFits /\ [AccessNext]_accessVars => [Step]_accessVars
  BY PauseStep, JudgePause DEF PauseFits
<1> QED
  BY AccessHolds, PauseFitsHolds, <1>1, PTL DEF AccessSpec, PausesHold
=============================================================================
