-------------------------- MODULE HouseholdRequests --------------------------
(***************************************************************************)
(* The household's keeps and removal requests: signed links that need no   *)
(* login, the web that records what they ask in requests.json, the admin   *)
(* who decides removals, and the daemon that reads the book once a cycle.  *)
(* Web handlers run at once and take turns at one lock; the check of a     *)
(* link is done before it, with the settings and the library of that       *)
(* moment.  Times are in ticks.                                            *)
(***************************************************************************)
EXTENDS Integers, FiniteSets

CONSTANTS
  Card, Person, Handler,
  Day,           \* ticks of a day
  KeepTimes,     \* the household.keep_days a settings file may hold, in ticks
  LinkTime,      \* household.link_days, in ticks
  MaxLinkTime,   \* MAX_LINK_DAYS
  ResolvedTtl,   \* RESOLVED_TTL_SECS
  MaxRequests,   \* MAX_REQUESTS
  LeaveTimes,    \* how far ahead a leave date may lie
  Patience,      \* ticks a web request may take
  Horizon,       \* bound: the last tick
  MaxCalls,      \* bound: link presses and decisions
  MaxUpsets,     \* bound: settings changes, lost files, restarts, cards coming and going
  None

ASSUME RequestAssumption ==
  /\ Day \in Nat \ {0} /\ KeepTimes \subseteq Nat \ {0} /\ KeepTimes # {}
  /\ LinkTime \in Nat /\ MaxLinkTime \in Nat /\ ResolvedTtl \in Nat \ {0}
  /\ MaxRequests \in Nat /\ Patience \in Nat /\ Horizon \in Nat /\ MaxCalls \in Nat /\ MaxUpsets \in Nat
  /\ LeaveTimes \subseteq Nat
  /\ None \notin Nat \cup {"approve", "deny", "cancel"}

VARIABLES
  now,
  settings,    \* enabled, removals allowed, how long a keep lasts
  library,     \* cards of the published items.json
  book,        \* requests.json
  handler,     \* what each web request in flight has checked, read and decided
  cycle,       \* what the daemon's last cycle took from the book
  calls, upsets,
  (* history *)
  promised,    \* keeps a page confirmed, that no admin ended
  approved,    \* removals an admin approved and nobody took back
  spent        \* tokens that made a request, and when that was settled

requestVars == <<now, settings, library, book, handler, cycle, calls, upsets, promised, approved, spent>>
history == <<promised, approved, spent>>

-----------------------------------------------------------------------------
(* link.rs *)

RoundedUp(t) == ((t + Day - 1) \div Day) * Day
Least(a, b) == IF a < b THEN a ELSE b

(* When a link signed at t dies; a link without a leave date has a lifetime. *)
Expiry(leaves, t) ==
  RoundedUp(IF leaves = None THEN t + Least(LinkTime, MaxLinkTime) ELSE Least(leaves + Day, t + MaxLinkTime))

(* Every token the daemon may have signed by now.  Its id is its content.   *)
Signed ==
  {[card |-> c, action |-> a, expires |-> e, by |-> p] :
     c \in Card, a \in {"keep", "remove"}, p \in Person,
     e \in {Expiry(None, t) : t \in 0..now} \cup {Expiry(t + d, t) : t \in 0..now, d \in LeaveTimes}}

Verified(link, t) == t < link.expires

-----------------------------------------------------------------------------
(* requests.rs *)

IsKeepAt(r, t) == r.kind = "keep" /\ r.status = "active" /\ t < r.until
Resolved(r) == r.status \in {"expired", "denied", "cancelled"}
OpenRequest(r) == r.status \in {"pending", "approved"}

(* Keeps past their end expire; requests resolved long ago go. *)
Lapsed(r, t) ==
  IF r.kind = "keep" /\ r.status = "active" /\ ~IsKeepAt(r, t)
  THEN [r EXCEPT !.status = "expired", !.decided = r.until]
  ELSE r
Stale(r, t) == Resolved(r) /\ t - (IF r.decided = None THEN r.at ELSE r.decided) >= ResolvedTtl
(* Wrong: what is resolved goes at once. *)
PruneAtOnce(b, t) == {r \in {Lapsed(q, t) : q \in b} : ~Resolved(r)}

Prune(b, t) == {r \in {Lapsed(q, t) : q \in b} : ~Stale(r, t)}

(* Open removals of cards that left the library are settled. *)
Settled(r, present, t) ==
  IF OpenRequest(r) /\ r.card \notin present THEN [r EXCEPT !.status = "cancelled", !.decided = t] ELSE r
ForgetGone(b, present, t) == {Settled(r, present, t) : r \in b}

Full(b) == Cardinality(b) >= MaxRequests

AnswerOf(outcome, r, b) == [outcome |-> outcome, request |-> r, book |-> b]
OneOf(S) == CHOOSE r \in S : TRUE

NewRequest(link, conf, t) ==
  [id |-> link, card |-> link.card, kind |-> link.action, at |-> t, decided |-> None,
   until |-> IF link.action = "keep" THEN t + conf.keep ELSE None,
   status |-> IF link.action = "keep" THEN "active" ELSE "pending"]

(* What a press of a verified link makes of the book. *)
Record(b, link, conf, t) ==
  LET spentOn == {r \in b : r.id = link}
      kept == {r \in b : r.card = link.card /\ IsKeepAt(r, t)}
      queued == {r \in b : r.card = link.card /\ r.kind = "remove" /\ OpenRequest(r)}
      until == t + conf.keep
      moved == [OneOf(kept) EXCEPT !.until = IF @ < until THEN until ELSE @]
      pruned == Prune(b, t)
  IN  CASE spentOn # {} -> AnswerOf("existing", OneOf(spentOn), b)
        [] spentOn = {} /\ link.action = "keep" /\ kept # {} ->
             AnswerOf("existing", moved, (b \ {OneOf(kept)}) \cup {moved})
        [] spentOn = {} /\ link.action = "remove" /\ ~conf.removals -> AnswerOf("refused", None, b)
        [] spentOn = {} /\ link.action = "remove" /\ conf.removals /\ queued # {} ->
             AnswerOf("existing", OneOf(queued), b)
        [] OTHER ->
             IF Full(pruned) THEN AnswerOf("refused", None, pruned)
             ELSE AnswerOf("new", NewRequest(link, conf, t), pruned \cup {NewRequest(link, conf, t)})

Decided(r, decision) ==
  CASE r.kind = "remove" /\ r.status = "pending" /\ decision = "approve" -> "approved"
    [] r.kind = "remove" /\ r.status = "pending" /\ decision = "deny" -> "denied"
    [] r.kind = "remove" /\ r.status = "approved" /\ decision = "cancel" -> "cancelled"
    [] r.kind = "keep" /\ r.status = "active" /\ decision = "cancel" -> "cancelled"
    [] OTHER -> "settled"

Decide(b, id, decision, t) ==
  LET pruned == Prune(b, t)
      named == {r \in pruned : r.id = id}
      r == OneOf(named)
      done == [r EXCEPT !.status = Decided(r, decision), !.decided = t]
  IN  IF named = {} \/ Decided(r, decision) = "settled" THEN AnswerOf("refused", None, pruned)
      ELSE AnswerOf("decided", done, (pruned \ named) \cup {done})

(* Cards a keep holds, and the cards approved removals force. *)
Pins(b, t) == {r.card : r \in {q \in b : IsKeepAt(q, t)}}
(* Wrong: an approved removal forces a kept card too. *)
RulesAnyway(b, t) == {r.card : r \in {q \in b : q.kind = "remove" /\ q.status = "approved"}}
Rules(b, t) == {r.card : r \in {q \in b : q.kind = "remove" /\ q.status = "approved"}} \ Pins(b, t)

-----------------------------------------------------------------------------
NoWork == [at |-> "idle", link |-> None, decision |-> None, present |-> {}, conf |-> None, since |-> 0, answer |-> None]

RequestsInit ==
  /\ now = 0
  /\ settings = [enabled |-> TRUE, removals |-> TRUE, keep |-> OneOf(KeepTimes)]
  /\ library = Card /\ book = {}
  /\ handler = [h \in Handler |-> NoWork]
  /\ cycle = [pins |-> {}, forced |-> {}]
  /\ calls = MaxCalls /\ upsets = MaxUpsets
  /\ promised = {} /\ approved = {} /\ spent = {}

(* `check`: the token, the settings and the library, before the lock. *)
Check(h, link) ==
  /\ handler[h].at = "idle" /\ calls > 0
  /\ settings.enabled /\ Verified(link, now) /\ link.card \in library
  /\ handler' = [handler EXCEPT ![h] =
       [NoWork EXCEPT !.at = "checked", !.link = link, !.present = library, !.since = now,
                      !.conf = [removals |-> settings.removals, keep |-> settings.keep]]]
  /\ calls' = calls - 1
  /\ UNCHANGED <<now, settings, library, book, cycle, upsets, history>>

AskDecision(h, id, decision) ==
  /\ handler[h].at = "idle" /\ calls > 0
  /\ handler' = [handler EXCEPT ![h] =
       [NoWork EXCEPT !.at = "checked", !.link = id, !.decision = decision, !.since = now]]
  /\ calls' = calls - 1
  /\ UNCHANGED <<now, settings, library, book, cycle, upsets, history>>

Writing == {h \in Handler : handler[h].at = "holding"}
(* Wrong: nobody waits for the lock. *)
LockedNever == FALSE

Locked == Writing # {}

(* History: when a request is settled, and the end the book has for a keep a *)
(* page confirms; of one it moves later the new end is in no file.          *)
EndOf(r) ==
  CASE Resolved(r) -> IF r.decided = None THEN r.at ELSE r.decided
    [] r.kind = "keep" /\ r.status = "active" -> r.until
    [] OTHER -> None
SavedEnd(r) == LET saved == {q \in book : q.id = r.id} IN IF saved = {} THEN r.until ELSE OneOf(saved).until

(* Under the lock: the book is read and the answer worked out. *)
Answer(w, b) ==
  IF w.decision = None THEN Record(ForgetGone(b, w.present, w.since), w.link, w.conf, w.since)
  ELSE Decide(b, w.link, w.decision, w.since)

ReadBook(h) ==
  /\ handler[h].at = "checked" /\ ~Locked
  /\ handler' = [handler EXCEPT ![h].at = "holding", ![h].answer = Answer(handler[h], book)]
  /\ UNCHANGED <<now, settings, library, book, cycle, calls, upsets, history>>

(* Only a new request or a decision is written; then the lock is let go and *)
(* the page answers.                                                        *)
Write(h) ==
  /\ handler[h].at = "holding"
  /\ LET w == handler[h]
         a == w.answer
         r == a.request
     IN  /\ handler' = [handler EXCEPT ![h] = NoWork]
         /\ book' = IF a.outcome \in {"new", "decided"} THEN a.book ELSE book
         /\ spent' = {s \in spent : \A q \in book' : q.id # s.link} \cup {[link |-> q.id, ended |-> EndOf(q)] : q \in book'}
         /\ promised' =
              IF a.outcome \in {"new", "existing"} /\ r.kind = "keep" /\ r.status = "active"
              THEN promised \cup {[id |-> r.id, card |-> r.card, until |-> SavedEnd(r)]}
              ELSE IF a.outcome = "decided" /\ r.kind = "keep" THEN {p \in promised : p.id # r.id}
              ELSE promised
         /\ approved' =
              IF a.outcome = "decided" /\ r.kind = "remove"
              THEN IF r.status = "approved" THEN approved \cup {r.card} ELSE approved \ {r.card}
              ELSE approved
  /\ UNCHANGED <<now, settings, library, cycle, calls, upsets>>

(* The write fails: the page says so, or the decision is refused. *)
NotSaved(h) ==
  /\ handler[h].at = "holding" /\ handler[h].answer.outcome \in {"new", "decided"} /\ upsets > 0
  /\ handler' = [handler EXCEPT ![h] = NoWork]
  /\ upsets' = upsets - 1
  /\ UNCHANGED <<now, settings, library, book, cycle, calls, history>>

(* household.rs `prepare`: the book is read once a cycle, if links are on.  *)
Gather ==
  /\ LET b == IF settings.enabled THEN book ELSE {}
     IN  cycle' = [pins |-> Pins(b, now), forced |-> Rules(b, now)]
  /\ UNCHANGED <<now, settings, library, book, handler, calls, upsets, history>>

-----------------------------------------------------------------------------
Upset == upsets > 0 /\ upsets' = upsets - 1

ChangeSettings ==
  /\ Upset
  /\ \/ settings' = [settings EXCEPT !.enabled = ~@]
     \/ settings' = [settings EXCEPT !.removals = ~@]
     \/ \E k \in KeepTimes \ {settings.keep} : settings' = [settings EXCEPT !.keep = k]
  /\ UNCHANGED <<now, library, book, handler, cycle, calls, history>>

(* The card is deleted, or downloaded again. *)
ComeOrGo(c) ==
  /\ Upset
  /\ library' = (library \ {c}) \cup ({c} \ library)
  /\ UNCHANGED <<now, settings, book, handler, cycle, calls, history>>

(* The web stops: what was in flight is answered never. *)
RestartWeb ==
  /\ Upset
  /\ handler' = [h \in Handler |-> NoWork]
  /\ UNCHANGED <<now, settings, library, book, cycle, calls, history>>

(* requests.json is lost or damaged and reads as empty. *)
LoseBook ==
  /\ Upset
  /\ book' = {} /\ promised' = {} /\ approved' = {} /\ spent' = {}
  /\ handler' = [h \in Handler |-> NoWork]
  /\ UNCHANGED <<now, settings, library, cycle, calls>>

DayPasses ==
  /\ now < Horizon
  /\ \A h \in Handler : handler[h].at # "idle" => now < handler[h].since + Patience
  /\ now' = now + 1
  /\ UNCHANGED <<settings, library, book, handler, cycle, calls, upsets, history>>

RequestsNext ==
  \/ \E h \in Handler :
       \/ \E link \in Signed : Check(h, link)
       \/ \E r \in book, d \in {"approve", "deny", "cancel"} : AskDecision(h, r.id, d)
       \/ ReadBook(h) \/ Write(h) \/ NotSaved(h)
  \/ Gather
  \/ ChangeSettings \/ (\E c \in Card : ComeOrGo(c)) \/ RestartWeb \/ LoseBook
  \/ DayPasses

RequestsSpec == RequestsInit /\ [][RequestsNext]_requestVars

-----------------------------------------------------------------------------
(* "Kept until ...": a keep a page confirmed, at its first press or a later   *)
(* one, is in the book and pins its card until the end the book has for it,  *)
(* whatever is pressed, decided, pruned or refused at the same time, unless  *)
(* an admin ended it (requests.rs:44, web requests.rs:12).  The exception is *)
(* in the code: the later end a repeated press is shown is never written.    *)
KeepIsKept == \A p \in promised : now < p.until => \E r \in book : r.card = p.card /\ IsKeepAt(r, now) /\ r.until >= p.until

(* What a cycle forces out an admin approved and took back never since, and  *)
(* nobody holds a confirmed keep on it (requests.rs:280, :312-314).          *)
ForcedIsApproved ==
  [][Gather => /\ cycle'.forced \subseteq approved
               /\ \A p \in promised : now < p.until => p.card \notin cycle'.forced]_requestVars

(* A link is spent once: pressed again it finds the request it made, also    *)
(* when that was denied, cancelled or expired (link.rs:9-11, :142-143), until *)
(* ResolvedTtl after that was settled, when the book forgets it: a link that *)
(* lives as long makes its second request no sooner.                         *)
SpentOnce ==
  [][\A h \in Handler : Write(h) /\ handler[h].answer.outcome = "new" =>
       \A s \in spent : s.link = handler[h].link => s.ended # None /\ now - s.ended >= ResolvedTtl]_requestVars

=============================================================================
