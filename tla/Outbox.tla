------------------------------- MODULE Outbox -------------------------------
(***************************************************************************)
(* Telling people what the daemon did: once a cycle the facts it published *)
(* become events, a problem seen on several cycles in a row becomes one    *)
(* too, and each channel, then each person's address, is posted what it    *)
(* has not had, within an hourly budget.  What was sent, the hour's posts  *)
(* and the problem streaks live in notify.json, read before the posts and  *)
(* written once after them.  Times are in ticks.                           *)
(***************************************************************************)
EXTENDS Integers, Sequences, FiniteSets

CONSTANTS
  Channel,         \* notify.channels[], by name
  Address,         \* people's own addresses
  Webhook,         \* channels that take all events in one post
  Item, Problem,   \* Problem holds "cycle", the failed cycle
  Subscribed,      \* what each channel is told of, by kind
  PersistCycles,   \* PERSIST_CYCLES
  MaxPerHour,      \* notify.max_per_hour
  Hour,            \* HOUR_SECS
  SentTtl,         \* SENT_TTL_SECS
  GoneNews,        \* GONE_NEWS_SECS
  Period, Due,     \* a digest or newsletter is for a period, due from a tick of it
  LastTick,        \* bound: the last tick
  MaxCycles,       \* bound: cycles
  MaxMoves,        \* bound: items handed over, taken back or gone
  MaxFaults        \* bound: posts refused or unanswered, failed writes, stops, lost files, settings changed

ASSUME OutboxAssumption ==
  /\ Channel \cap Address = {} /\ Webhook \subseteq Channel /\ "cycle" \in Problem
  /\ PersistCycles \in Nat \ {0} /\ MaxPerHour \in Nat \ {0} /\ Hour \in Nat /\ SentTtl \in Nat
  /\ GoneNews \in Nat /\ Period \in Nat \ {0} /\ Due \in Nat
  /\ LastTick \in Nat /\ MaxCycles \in Nat /\ MaxMoves \in Nat /\ MaxFaults \in Nat

VARIABLES
  time,
  channels,    \* the channels the settings name
  handed,      \* items handed over: their route and when
  gone,        \* the ledger's items gone from the library: handed over when, gone when
  notify,      \* notify.json
  work,        \* the delivery under way
  cycles, moves, faults,
  (* history *)
  log,         \* what each cycle saw, and whether notify.json took note of it
  told,        \* what recipients got, answered or not, from deliveries that wrote notify.json
  posted       \* posts made, accepted or not, by deliveries that wrote notify.json

outboxVars == <<time, channels, handed, gone, notify, work, cycles, moves, faults, log, told, posted>>

-----------------------------------------------------------------------------
(* An event is its key. *)
Event(kind, of, at) == [kind |-> kind, of |-> of, at |-> at]
Kind(e) == IF e.kind \in {"handed", "gone"} THEN "deleted" ELSE e.kind
Order == [problem |-> 1, leaving |-> 2, deleted |-> 3, digest |-> 4, newsletter |-> 5]

(* notices.rs `events`: what a cycle's published facts say at t. *)
Events(t) ==
  {Event(IF handed[i].route = "leaving" THEN "leaving" ELSE "handed", i, handed[i].at) :
     i \in {j \in Item : handed[j].route # "none"}}
  \cup {Event("gone", g.item, g.handed) : g \in {h \in gone : t - h.at < GoneNews}}
  \cup {Event(k, "period", t \div Period) : k \in {d \in {"digest", "newsletter"} : t % Period >= Due}}

(* What a person is told on their own addresses: the titles they asked for, *)
(* and the newsletter.                                                      *)
Own(events) == {e \in events : e.kind \in {"leaving", "newsletter"}}

(* `problems`: the streaks after a cycle that saw these.  A cycle that ended *)
(* early says nothing of the problems it did not see.                        *)
NoStreak == [since |-> 0, cycles |-> 0]
(* Wrong: a cycle that ended early breaks no streak, nor does a whole one. *)
StreaksNeverBroken(streaks, seen, complete, t) ==
  [p \in Problem |->
     IF p \in seen
     THEN [since |-> IF streaks[p].cycles = 0 THEN t ELSE streaks[p].since, cycles |-> streaks[p].cycles + 1]
     ELSE streaks[p]]
Streaks(streaks, seen, complete, t) ==
  [p \in Problem |->
     CASE p \in seen -> [since |-> IF streaks[p].cycles = 0 THEN t ELSE streaks[p].since, cycles |-> streaks[p].cycles + 1]
       [] p \notin seen /\ complete -> NoStreak
       [] OTHER -> streaks[p]]
Persisting(streaks, seen) ==
  {Event("problem", p, streaks[p].since) : p \in {q \in seen : streaks[q].cycles >= PersistCycles}}

-----------------------------------------------------------------------------
(* send_at: what is older than it need be is forgotten. *)
Recent(file, t) ==
  [file EXCEPT !.sent = {s \in @ : t - s.when < SentTtl}, !.posts = {p \in @ : t - p.when < Hour}]

HasHad(file, to, e) == \E s \in file.sent : s.to = to /\ s.event = e

(* The posts to one recipient, each with its turn and the events it delivers. *)
Bundles(file, to, events, wanted) ==
  LET unsent == {e \in events : Kind(e) \in wanted /\ ~HasHad(file, to, e)}
      group(k) == [to |-> to, turn |-> Order[k], events |-> {e \in unsent : Kind(e) = k}]
      groups == IF to \in Webhook THEN {[to |-> to, turn |-> 1, events |-> unsent]}
                ELSE {group(k) : k \in DOMAIN Order}
  IN  {b \in groups : b.events # {}}

ToPost(file, recipients, events, wanted) ==
  UNION {Bundles(file, to, events, wanted[to]) : to \in recipients}

(* One recipient after another, as the settings name them, and each in turn. *)
Place == CHOOSE place \in [Channel \cup Address -> 1..Cardinality(Channel \cup Address)] :
           \A a, b \in DOMAIN place : place[a] = place[b] => a = b
Foremost(b, todo) ==
  b \in todo /\ \A o \in todo : Place[b.to] < Place[o.to] \/ (b.to = o.to /\ b.turn <= o.turn)

(* The posts of the hour, those that were refused too. *)
SpentOf(file, to) == Cardinality({p \in file.posts : p.to = to})

NoDelivery == [at |-> "idle", todo |-> {}, file |-> [sent |-> {}, posts |-> {}, streaks |-> [p \in Problem |-> NoStreak]],
               events |-> {}, personal |-> FALSE, told |-> {}, posted |-> {}]

OutboxInit ==
  /\ time = 0 /\ channels = Channel
  /\ handed = [i \in Item |-> [route |-> "none", at |-> 0]] /\ gone = {}
  /\ notify = NoDelivery.file /\ work = NoDelivery
  /\ cycles = MaxCycles /\ moves = MaxMoves /\ faults = MaxFaults
  /\ log = <<>> /\ told = {} /\ posted = {}

Fault == faults > 0 /\ faults' = faults - 1
FaultIf(failed) == faults' = (IF failed THEN faults - 1 ELSE faults) /\ (failed => faults > 0)

(* send_at is called: the file is read and the posts are worked out. *)
Deliver(file, events, personal) ==
  LET recent == Recent(file, time)
      todo == ToPost(recent, channels, events, Subscribed)
  IN  [NoDelivery EXCEPT !.at = "channels", !.file = recent, !.todo = todo, !.events = events, !.personal = personal]

(* send_personal is called, with what the people's own events are.  Nothing *)
(* is read, or written, when there are none.                                *)
DeliverOwn(file, events) ==
  LET own == Own(events)
      todo == ToPost(file, Address, own, [a \in Address |-> {"leaving", "newsletter"}])
  IN  IF own = {} \/ Address = {} THEN NoDelivery
      ELSE [NoDelivery EXCEPT !.at = "people", !.file = file, !.todo = todo, !.events = events]

(* notices.rs `notify`, after a whole cycle; `cycle_failed`, after one that *)
(* failed.  Streaks that cannot be written tell no problem this cycle.      *)
Cycle(seen, complete, written) ==
  LET noted == channels # {} /\ written
      streaks == Streaks(notify.streaks, seen, complete, time)
      problems == IF noted THEN Persisting(streaks, seen) ELSE {}
      file == IF noted THEN [notify EXCEPT !.streaks = streaks] ELSE notify
      events == problems \cup (IF complete THEN Events(time) ELSE {})
  IN  /\ work.at = "idle" /\ cycles > 0
      /\ channels = {} => written
      /\ FaultIf(~written)
      /\ cycles' = cycles - 1
      /\ notify' = file
      /\ work' = CASE channels # {} /\ (complete \/ problems # {}) -> Deliver(file, events, complete)
                   [] channels = {} /\ complete -> DeliverOwn(file, events)
                   [] OTHER -> NoDelivery
      /\ log' = Append(log, [at |-> time, seen |-> seen, complete |-> complete, noted |-> noted])
      /\ UNCHANGED <<time, channels, handed, gone, moves, told, posted>>

WholeCycle(seen, written) == "cycle" \notin seen /\ Cycle(seen, TRUE, written)
FailedCycle(written) == Cycle({"cycle"}, FALSE, written)

(* The next post.  At its budget a recipient is left out for now; one that  *)
(* refuses a post is left for the next cycle, and so is one that got it but *)
(* whose answer never came: to the daemon the two are the same.             *)
Outcomes == {"accepted", "refused", "unanswered"}
Post(b, outcome) ==
  LET accepted == outcome = "accepted"
      post == [to |-> b.to, when |-> time, no |-> SpentOf(work.file, b.to)]
      sent == {[to |-> b.to, event |-> e, when |-> time] : e \in b.events}
      got == {[to |-> b.to, event |-> e, when |-> time, no |-> post.no, answered |-> accepted] : e \in b.events}
      file == [work.file EXCEPT !.posts = @ \cup {post}, !.sent = IF accepted THEN @ \cup sent ELSE @]
  IN  /\ Foremost(b, work.todo) /\ SpentOf(work.file, b.to) < MaxPerHour
      /\ FaultIf(~accepted)
      /\ work' = [work EXCEPT
           !.todo = IF accepted THEN @ \ {b} ELSE {o \in @ : o.to # b.to},
           !.file = file,
           !.posted = @ \cup {post},
           !.told = IF outcome = "refused" THEN @ ELSE @ \cup got]
      /\ UNCHANGED <<time, channels, handed, gone, notify, cycles, moves, log, told, posted>>

Defer(b) ==
  /\ Foremost(b, work.todo) /\ SpentOf(work.file, b.to) >= MaxPerHour
  /\ work' = [work EXCEPT !.todo = @ \ {b}]
  /\ UNCHANGED <<time, channels, handed, gone, notify, cycles, moves, faults, log, told, posted>>

(* What is written: without the channels the settings name no more.  People *)
(* are not channels.                                                        *)
(* Wrong: people are not channels, so they are dropped. *)
RememberedOfChannels == [work.file EXCEPT !.sent = {s \in @ : s.to \in channels}]
Remembered ==
  IF work.at = "people" THEN work.file
  ELSE [work.file EXCEPT !.sent = {s \in @ : s.to \in Address \cup channels}]

(* If the file is not written, what was sent is not remembered. *)
Finish(written) ==
  /\ work.at # "idle" /\ work.todo = {}
  /\ FaultIf(~written)
  /\ LET file == IF written THEN Remembered ELSE notify
     IN  /\ notify' = file
         /\ work' = IF work.personal THEN DeliverOwn(file, work.events) ELSE NoDelivery
  /\ told' = IF written THEN told \cup work.told ELSE told
  /\ posted' = IF written THEN posted \cup work.posted ELSE posted
  /\ UNCHANGED <<time, channels, handed, gone, cycles, moves, log>>

-----------------------------------------------------------------------------
(* The daemon stops during its posts, or notify.json is damaged. *)
Stop ==
  /\ Fault /\ work.at # "idle"
  /\ work' = NoDelivery
  /\ UNCHANGED <<time, channels, handed, gone, notify, cycles, moves, log, told, posted>>

LoseFile ==
  /\ Fault /\ work.at = "idle"
  /\ notify' = NoDelivery.file /\ told' = {} /\ posted' = {}
  /\ UNCHANGED <<time, channels, handed, gone, work, cycles, moves, log>>

(* A channel is taken out of the settings, or put back. *)
Configure(c) ==
  /\ Fault /\ work.at = "idle"
  /\ channels' = (channels \ {c}) \cup ({c} \ channels)
  /\ told' = {s \in told : s.to # c}
  /\ UNCHANGED <<time, handed, gone, notify, work, cycles, moves, log, posted>>

Moved == moves > 0 /\ moves' = moves - 1

HandOver(i, route) ==
  /\ Moved /\ work.at = "idle" /\ handed[i].route \notin {route, "handed"}
  /\ handed' = [handed EXCEPT ![i] = [route |-> route, at |-> time]]
  /\ UNCHANGED <<time, channels, gone, notify, work, cycles, faults, log, told, posted>>

(* Taken back, or gone from the library. *)
Withdraw(i, deleted) ==
  /\ Moved /\ work.at = "idle" /\ handed[i].route # "none"
  /\ handed' = [handed EXCEPT ![i].route = "none"]
  /\ gone' = IF deleted THEN gone \cup {[item |-> i, handed |-> handed[i].at, at |-> time]} ELSE gone
  /\ UNCHANGED <<time, channels, notify, work, cycles, faults, log, told, posted>>

TimePasses ==
  /\ time < LastTick /\ work.at = "idle"
  /\ time' = time + 1
  /\ UNCHANGED <<channels, handed, gone, notify, work, cycles, moves, faults, log, told, posted>>

OutboxNext ==
  \/ \E seen \in SUBSET Problem, ok \in BOOLEAN : WholeCycle(seen, ok)
  \/ \E ok \in BOOLEAN : FailedCycle(ok) \/ Finish(ok)
  \/ \E b \in work.todo : (\E outcome \in Outcomes : Post(b, outcome)) \/ Defer(b)
  \/ Stop \/ LoseFile \/ (\E c \in Channel : Configure(c))
  \/ \E i \in Item : (\E route \in {"leaving", "handed"} : HandOver(i, route)) \/ (\E d \in BOOLEAN : Withdraw(i, d))
  \/ TimePasses

OutboxSpec == OutboxInit /\ [][OutboxNext]_outboxVars

-----------------------------------------------------------------------------
(* An event reaches a channel or an address once in SENT_TTL_SECS            *)
(* (notify.rs:8-9), counting the posts that arrived although their answer    *)
(* never came.  After such a post it is told again, though never in the same *)
(* delivery (outbox.rs:196-199); and what notify.json was not given to       *)
(* remember may be told again: a failed write, a stop before it, a lost      *)
(* file, a channel taken out.                                                *)
Again(s, o) == o.to = s.to /\ o.event = s.event /\ time - o.when < SentTtl
ToldOnce ==
  [][\A s \in work'.told \ work.told :
       /\ ~\E o \in told : Again(s, o) /\ o.answered
       /\ ~\E o \in work.told : Again(s, o)]_outboxVars

(* A problem is told when PERSIST_CYCLES cycles in a row saw it, the first   *)
(* of them at its `since`; cycles that failed early do not count between     *)
(* (outbox.rs:124-127).                                                      *)
Persisted(e) ==
  \E n \in DOMAIN log :
    /\ log[n].at = e.at
    /\ \A k \in n..Len(log) : log[k].noted /\ log[k].complete => e.of \in log[k].seen
    /\ Cardinality({k \in n..Len(log) : log[k].noted /\ e.of \in log[k].seen}) >= PersistCycles
ToldAfterPersisting ==
  \A b \in work.todo : \A e \in b.events : e.kind = "problem" => Persisted(e)

(* A message to a person's own address that waits for the budget waits for *)
(* posts of the last hour (personal.rs:68-69, notify.rs:222-224).           *)
Posts(to) == {p \in posted \cup work.posted : p.to = to /\ time - p.when < Hour}
Waits(to) == (\E b \in work.todo : b.to = to /\ Foremost(b, work.todo)) /\ SpentOf(work.file, to) >= MaxPerHour
PeopleWaitAnHour == \A to \in Address : Waits(to) => Cardinality(Posts(to)) >= MaxPerHour
=============================================================================
