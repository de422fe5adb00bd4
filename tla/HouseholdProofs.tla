--------------------------- MODULE HouseholdProofs ---------------------------
(***************************************************************************)
(* Theorems about the household's request book, for any cards, people, web *)
(* handlers and times: confirmed keeps are kept, what a cycle forces out   *)
(* was approved, and a link makes no second request before the time passed *)
(* after which the book forgets its first.  And about the notice people get, for *)
(* any titles, grace windows, channels, events and clocks: GraceStreaks    *)
(* hands over, or moves, only what as many plans as the grace asks named   *)
(* without a gap; Outbox tells a problem only after it persisted, and      *)
(* nothing twice.                                                          *)
(***************************************************************************)
EXTENDS HouseholdRequests, GraceStreaks, Outbox, FiniteSetTheorems, TLAPS

-----------------------------------------------------------------------------
(* What the parts of the state are. *)
Token == [card : Card, action : {"keep", "remove"}, expires : Int, by : Person]
Request ==
  [id : Token, card : Card, kind : {"keep", "remove"}, at : Nat, until : Nat \cup {None}, decided : Nat \cup {None},
   status : {"pending", "approved", "active", "expired", "denied", "cancelled"}]
Conf == [removals : BOOLEAN, keep : KeepTimes]
Verdict == [outcome : {"existing", "refused", "new", "decided"}, request : Request \cup {None}, book : SUBSET Request]
Work ==
  [at : {"idle", "checked", "holding"}, link : Token \cup {None},
   decision : {"approve", "deny", "cancel", None}, present : SUBSET Card,
   conf : Conf \cup {None}, since : Nat, answer : Verdict \cup {None}]

(* A handler in flight is no older than a request may last, and a press has *)
(* a verified link of the past.                                             *)
Underway(w) ==
  w.at # "idle" =>
    /\ w.link \in Token
    /\ w.since <= now /\ now <= w.since + Patience
    /\ w.decision = None => w.conf \in Conf /\ Verified(w.link, w.since)

RequestsTyped ==
  /\ now \in Nat
  /\ settings \in [enabled : BOOLEAN, removals : BOOLEAN, keep : KeepTimes]
  /\ library \subseteq Card
  /\ book \subseteq Request
  /\ handler \in [Handler -> Work]
  /\ promised \subseteq [id : Token, card : Card, until : Nat]
  /\ approved \subseteq Card
  /\ spent \subseteq [link : Token, ended : Nat \cup {None}]

(* The lock: one handler holds it, and the book is as it found it. *)
OneHolds ==
  \A h \in Handler : handler[h].at = "holding" =>
    /\ handler[h].answer = Answer(handler[h], book)
    /\ \A g \in Handler : handler[g].at = "holding" => g = h

(* A request by itself: a keep is never pending or approved, a removal is   *)
(* never active, and nothing is settled before it was made, but for the     *)
(* time a handler may lag.                                                  *)
Ended(r) == IF r.decided = None THEN r.at ELSE r.decided
Sane(r, t) ==
  /\ r.at <= t
  /\ r.kind = "keep" => /\ r.status \in {"active", "expired", "cancelled"}
                        /\ r.until \in Nat /\ r.at <= r.until
  /\ r.kind = "remove" => r.status \in {"pending", "approved", "denied", "cancelled"}
  /\ Resolved(r) => r.at <= Ended(r) + Patience

(* The requests of a book among each other: a token made one request, and a *)
(* card is asked out once.                                                  *)
OneEach(b) == \A r, q \in b : r.id = q.id => r = q
OneOpen(b) == \A r, q \in b : OpenRequest(r) /\ OpenRequest(q) /\ r.card = q.card => r = q
Orderly(b, t) == b \subseteq Request /\ OneEach(b) /\ OneOpen(b) /\ \A r \in b : Sane(r, t)

(* The book holds every promise still running, and no approval an admin did *)
(* not give or took back.                                                   *)
PromisesInBook ==
  \A p \in promised : now < p.until =>
    \E r \in book : r.id = p.id /\ r.card = p.card /\ r.kind = "keep" /\ r.status = "active" /\ r.until >= p.until
ApprovalsGiven == \A r \in book : r.status = "approved" => r.card \in approved

RequestsInv ==
  /\ RequestsTyped /\ (\A h \in Handler : Underway(handler[h])) /\ OneHolds
  /\ Orderly(book, now) /\ PromisesInBook /\ ApprovalsGiven

(* A later book: each of its requests was in the earlier one, no less open  *)
(* and no less approved.                                                    *)
ComesFrom(c, b) ==
  \A q \in c : \E r \in b :
    /\ q.id = r.id /\ q.card = r.card /\ q.at = r.at
    /\ OpenRequest(q) => OpenRequest(r)
    /\ q.status = "approved" => r.status = "approved"

-----------------------------------------------------------------------------
(* The operators of the book. *)

(* Lapsing and settling leave alone what a request is about. *)
LEMMA LapsedFacts ==
  ASSUME NEW r \in Request, NEW t \in Nat, NEW n \in Nat, t <= n, Sane(r, n)
  PROVE  LET q == Lapsed(r, t)
         IN  /\ q \in Request /\ Sane(q, n)
             /\ q.id = r.id /\ q.card = r.card /\ q.kind = r.kind /\ q.at = r.at /\ q.until = r.until
             /\ OpenRequest(q) <=> OpenRequest(r)
             /\ q.status = "approved" <=> r.status = "approved"
             /\ r.kind = "keep" /\ r.status = "active" /\ n < r.until => q = r
<1> DEFINE over == [r EXCEPT !.status = "expired", !.decided = r.until]
           lapses == r.kind = "keep" /\ r.status = "active" /\ ~IsKeepAt(r, t)
<1>1. CASE ~lapses
  BY <1>1 DEF Lapsed
<1>2. CASE lapses
  <2>1. Lapsed(r, t) = over
    BY <1>2 DEF Lapsed
  <2>2. r.until \in Nat /\ r.at <= r.until /\ r.at <= n /\ ~(t < r.until)
    BY <1>2 DEF Sane, IsKeepAt
  <2>3. over \in Request
    BY <2>2 DEF Request
  <2>4. /\ over.id = r.id /\ over.card = r.card /\ over.kind = r.kind /\ over.at = r.at /\ over.until = r.until
        /\ over.status = "expired" /\ over.decided = r.until
    BY DEF Request
  <2>5. over.at \in Nat /\ over.kind = "keep" /\ r.until # None
    BY <1>2, <2>2, <2>3, <2>4, RequestAssumption DEF Request
  <2>6. Sane(over, n)
    BY <2>2, <2>4, <2>5, RequestAssumption DEF Sane, Ended, Resolved
  <2> HIDE DEF over
  <2> QED
    BY <1>2, <2>1, <2>2, <2>3, <2>4, <2>6 DEF OpenRequest
<1> QED
  BY <1>1, <1>2

LEMMA SettledFacts ==
  ASSUME NEW r \in Request, NEW t \in Nat, NEW n \in Nat, t <= n, n <= t + Patience, Sane(r, n), NEW present
  PROVE  LET q == Settled(r, present, t)
         IN  /\ q \in Request /\ Sane(q, n)
             /\ q.id = r.id /\ q.card = r.card /\ q.kind = r.kind /\ q.at = r.at /\ q.until = r.until
             /\ OpenRequest(q) => OpenRequest(r)
             /\ q.status = "approved" => r.status = "approved"
             /\ r.kind = "keep" /\ r.status = "active" => q = r
<1> DEFINE over == [r EXCEPT !.status = "cancelled", !.decided = t]
<1>1. CASE ~(OpenRequest(r) /\ r.card \notin present)
  BY <1>1 DEF Settled
<1>2. CASE OpenRequest(r) /\ r.card \notin present
  <2>1. Settled(r, present, t) = over
    BY <1>2 DEF Settled
  <2>2. over \in Request
    BY DEF Request
  <2>3. /\ over.id = r.id /\ over.card = r.card /\ over.kind = r.kind /\ over.at = r.at /\ over.until = r.until
        /\ over.status = "cancelled" /\ over.decided = t
    BY DEF Request
  <2>4. r.at \in Nat /\ r.at <= t + Patience
    BY RequestAssumption DEF Sane, Request
  <2>5. Sane(over, n)
    BY <2>3, <2>4, RequestAssumption DEF Sane, Ended, Resolved
  <2> HIDE DEF over
  <2> QED
    BY <1>2, <2>1, <2>2, <2>3, <2>5 DEF OpenRequest
<1> QED
  BY <1>1, <1>2

(* What is pruned of an orderly book is one, and still holds what is not    *)
(* over: of each request the book had it keeps the later form or none.      *)
LEMMA PruneFacts ==
  ASSUME NEW b, NEW t \in Nat, NEW n \in Nat, t <= n, Orderly(b, n)
  PROVE  /\ Orderly(Prune(b, t), n)
         /\ ComesFrom(Prune(b, t), b)
         /\ \A r \in b : r.kind = "keep" /\ r.status = "active" /\ n < r.until => r \in Prune(b, t)
         /\ \A r \in b : (\E q \in Prune(b, t) : q.id = r.id) \/ Stale(Lapsed(r, t), t)
<1>1. \A r \in b : r \in Request /\ Sane(r, n)
  BY DEF Orderly
<1>2. \A q \in Prune(b, t) : \E r \in b : q = Lapsed(r, t)
  BY DEF Prune
<1>3. \A r \in b : Lapsed(r, t) \in Prune(b, t) \/ Stale(Lapsed(r, t), t)
  BY DEF Prune
<1>4. \A r \in b : r.status = "active" => ~Stale(r, t)
  BY DEF Stale, Resolved
<1>5. Prune(b, t) \subseteq Request /\ \A q \in Prune(b, t) : Sane(q, n)
  BY <1>1, <1>2, LapsedFacts
<1>6. OneEach(Prune(b, t))
  <2> SUFFICES ASSUME NEW q \in Prune(b, t), NEW s \in Prune(b, t), q.id = s.id
               PROVE  q = s
    BY DEF OneEach
  <2>1. PICK r \in b : q = Lapsed(r, t)
    BY <1>2
  <2>2. PICK o \in b : s = Lapsed(o, t)
    BY <1>2
  <2>3. r.id = o.id
    BY <1>1, <2>1, <2>2, LapsedFacts
  <2> QED
    BY <2>1, <2>2, <2>3 DEF Orderly, OneEach
<1>7. OneOpen(Prune(b, t))
  <2> SUFFICES ASSUME NEW q \in Prune(b, t), NEW s \in Prune(b, t), OpenRequest(q), OpenRequest(s), q.card = s.card
               PROVE  q = s
    BY DEF OneOpen
  <2>1. PICK r \in b : q = Lapsed(r, t)
    BY <1>2
  <2>2. PICK o \in b : s = Lapsed(o, t)
    BY <1>2
  <2>3. r.card = o.card /\ OpenRequest(r) /\ OpenRequest(o)
    BY <1>1, <2>1, <2>2, LapsedFacts
  <2> QED
    BY <2>1, <2>2, <2>3 DEF Orderly, OneOpen
<1>8. ComesFrom(Prune(b, t), b)
  BY <1>1, <1>2, LapsedFacts DEF ComesFrom
<1>9. \A r \in b : r.kind = "keep" /\ r.status = "active" /\ n < r.until => r \in Prune(b, t)
  BY <1>1, <1>3, <1>4, LapsedFacts
<1>10. \A r \in b : (\E q \in Prune(b, t) : q.id = r.id) \/ Stale(Lapsed(r, t), t)
  BY <1>1, <1>3, LapsedFacts
<1> QED
  BY <1>5, <1>6, <1>7, <1>8, <1>9, <1>10 DEF Orderly

LEMMA ForgetFacts ==
  ASSUME NEW b, NEW t \in Nat, NEW n \in Nat, t <= n, n <= t + Patience, Orderly(b, n), NEW present
  PROVE  LET f == ForgetGone(b, present, t)
         IN  /\ Orderly(f, n)
             /\ ComesFrom(f, b)
             /\ \A r \in b : r.kind = "keep" /\ r.status = "active" => r \in f
             /\ \A r \in b : \E q \in f : q.id = r.id
             /\ \A q \in f : q.status = "active" => q \in b
<1> DEFINE f == ForgetGone(b, present, t)
<1>1. \A r \in b : r \in Request /\ Sane(r, n)
  BY DEF Orderly
<1>2. \A q \in f : \E r \in b : q = Settled(r, present, t)
  BY DEF ForgetGone
<1>3. \A r \in b : Settled(r, present, t) \in f
  BY DEF ForgetGone
<1> HIDE DEF f
<1>4. f \subseteq Request /\ \A q \in f : Sane(q, n)
  BY <1>1, <1>2, SettledFacts
<1>5. OneEach(f)
  <2> SUFFICES ASSUME NEW q \in f, NEW s \in f, q.id = s.id
               PROVE  q = s
    BY DEF OneEach
  <2>1. PICK r \in b : q = Settled(r, present, t)
    BY <1>2
  <2>2. PICK o \in b : s = Settled(o, present, t)
    BY <1>2
  <2>3. r.id = o.id
    BY <1>1, <2>1, <2>2, SettledFacts
  <2> QED
    BY <2>1, <2>2, <2>3 DEF Orderly, OneEach
<1>6. OneOpen(f)
  <2> SUFFICES ASSUME NEW q \in f, NEW s \in f, OpenRequest(q), OpenRequest(s), q.card = s.card
               PROVE  q = s
    BY DEF OneOpen
  <2>1. PICK r \in b : q = Settled(r, present, t)
    BY <1>2
  <2>2. PICK o \in b : s = Settled(o, present, t)
    BY <1>2
  <2>3. r.card = o.card /\ OpenRequest(r) /\ OpenRequest(o)
    BY <1>1, <2>1, <2>2, SettledFacts
  <2> QED
    BY <2>1, <2>2, <2>3 DEF Orderly, OneOpen
<1>7. ComesFrom(f, b)
  BY <1>1, <1>2, SettledFacts DEF ComesFrom
<1>8. \A r \in b : r.kind = "keep" /\ r.status = "active" => r \in f
  BY <1>1, <1>3, SettledFacts
<1>9. \A r \in b : \E q \in f : q.id = r.id
  BY <1>1, <1>3, SettledFacts
<1>10. \A q \in f : q.status = "active" => q \in b
  <2> SUFFICES ASSUME NEW q \in f, q.status = "active" PROVE q \in b
    OBVIOUS
  <2>1. PICK r \in b : q = Settled(r, present, t)
    BY <1>2
  <2> QED
    BY <1>1, <2>1 DEF Settled, Request
<1> QED
  BY <1>4, <1>5, <1>6, <1>7, <1>8, <1>9, <1>10 DEF Orderly, f

(* What a press answers. *)
PressAnswer(a, b, link, conf, t) ==
  /\ a \in Verdict
  /\ a.outcome # "decided"
  /\ a.outcome = "existing" =>
       \E q \in b : a.request \in Request /\ a.request.id = q.id /\ a.request.card = q.card
                     /\ a.request.kind = q.kind /\ a.request.status = q.status
  /\ a.outcome = "new" =>
       /\ a.request = NewRequest(link, conf, t) /\ a.book = Prune(b, t) \cup {NewRequest(link, conf, t)}
       /\ \A q \in b : q.id # link
       /\ link.action = "remove" => \A q \in b : ~(q.card = link.card /\ q.kind = "remove" /\ OpenRequest(q))

LEMMA RecordFacts ==
  ASSUME NEW b \in SUBSET Request, NEW link \in Token, NEW conf \in Conf, NEW t \in Nat,
         Prune(b, t) \subseteq Request
  PROVE  PressAnswer(Record(b, link, conf, t), b, link, conf, t)
<1> DEFINE spentOn == {r \in b : r.id = link}
           kept == {r \in b : r.card = link.card /\ IsKeepAt(r, t)}
           queued == {r \in b : r.card = link.card /\ r.kind = "remove" /\ OpenRequest(r)}
           until == t + conf.keep
           moved == [OneOf(kept) EXCEPT !.until = IF @ < until THEN until ELSE @]
           new == NewRequest(link, conf, t)
<1>1. until \in Nat
  <2>1. conf.keep \in KeepTimes
    BY DEF Conf
  <2>2. conf.keep \in Nat
    BY <2>1, RequestAssumption
  <2> QED
    BY <2>2
<1>2. new \in Request
  BY <1>1 DEF NewRequest, Request, Token
<1>3. CASE spentOn # {}
  <2>1. OneOf(spentOn) \in b
    BY <1>3 DEF OneOf
  <2>2. Record(b, link, conf, t) = AnswerOf("existing", OneOf(spentOn), b)
    BY <1>3 DEF Record
  <2> DEFINE one == OneOf(spentOn)
  <2>3. one \in b /\ one \in Request /\ Record(b, link, conf, t) = AnswerOf("existing", one, b)
    BY <2>1, <2>2
  <2> HIDE DEF one
  <2> QED
    BY <2>3 DEF AnswerOf, Verdict, PressAnswer
<1>4. CASE spentOn = {} /\ link.action = "keep" /\ kept # {}
  <2>1. OneOf(kept) \in b
    BY <1>4 DEF OneOf
  <2>2. moved \in Request
    <3>1. OneOf(kept) \in Request
      BY <2>1
    <3>2. (IF OneOf(kept).until < until THEN until ELSE OneOf(kept).until) \in Nat \cup {None}
      BY <1>1, <3>1 DEF Request
    <3> QED
      BY <3>1, <3>2 DEF Request
  <2>3. Record(b, link, conf, t) = AnswerOf("existing", moved, (b \ {OneOf(kept)}) \cup {moved})
    BY <1>4 DEF Record
  <2>4. /\ OneOf(kept).id = moved.id /\ OneOf(kept).card = moved.card
        /\ OneOf(kept).kind = moved.kind /\ OneOf(kept).status = moved.status
    BY <2>1 DEF Request
  <2> HIDE DEF moved, kept
  <2> QED
    BY <2>1, <2>2, <2>3, <2>4 DEF AnswerOf, Verdict, PressAnswer
<1>5. CASE spentOn = {} /\ link.action = "remove" /\ ~conf.removals
  <2>1. Record(b, link, conf, t) = AnswerOf("refused", None, b)
    BY <1>5 DEF Record
  <2> QED
    BY <2>1 DEF AnswerOf, Verdict, PressAnswer
<1>6. CASE spentOn = {} /\ link.action = "remove" /\ conf.removals /\ queued # {}
  <2>1. OneOf(queued) \in b
    BY <1>6 DEF OneOf
  <2>2. Record(b, link, conf, t) = AnswerOf("existing", OneOf(queued), b)
    BY <1>6 DEF Record
  <2> DEFINE one == OneOf(queued)
  <2>3. one \in b /\ one \in Request /\ Record(b, link, conf, t) = AnswerOf("existing", one, b)
    BY <2>1, <2>2
  <2> HIDE DEF one
  <2> QED
    BY <2>3 DEF AnswerOf, Verdict, PressAnswer
<1>7. CASE /\ spentOn = {}
           /\ ~(link.action = "keep" /\ kept # {})
           /\ ~(link.action = "remove" /\ ~conf.removals)
           /\ ~(link.action = "remove" /\ conf.removals /\ queued # {})
  <2>1. Record(b, link, conf, t) = IF Full(Prune(b, t)) THEN AnswerOf("refused", None, Prune(b, t))
                                   ELSE AnswerOf("new", new, Prune(b, t) \cup {new})
    BY <1>7 DEF Record
  <2>2. link.action = "remove" => queued = {}
    BY <1>7 DEF Conf
  <2> HIDE DEF new
  <2>3. CASE Full(Prune(b, t))
    BY <2>1, <2>3 DEF AnswerOf, Verdict, PressAnswer
  <2>4. CASE ~Full(Prune(b, t))
    <3>1. Record(b, link, conf, t) = AnswerOf("new", new, Prune(b, t) \cup {new})
      BY <2>1, <2>4
    <3> QED
      BY <1>2, <1>7, <2>2, <3>1 DEF AnswerOf, Verdict, PressAnswer, new
  <2> QED
    BY <2>3, <2>4
<1> QED
  BY <1>3, <1>4, <1>5, <1>6, <1>7

(* What a decision answers. *)
DecisionAnswer(a, b, id, decision, t) ==
  /\ a \in Verdict
  /\ a.outcome \in {"refused", "decided"}
  /\ a.outcome = "decided" =>
       \E r \in Prune(b, t) :
         /\ r.id = id /\ Decided(r, decision) # "settled"
         /\ a.request = [r EXCEPT !.status = Decided(r, decision), !.decided = t]
         /\ a.book = (Prune(b, t) \ {q \in Prune(b, t) : q.id = id}) \cup {a.request}

LEMMA DecideFacts ==
  ASSUME NEW b, NEW id, NEW decision, NEW t \in Nat, Prune(b, t) \subseteq Request
  PROVE  DecisionAnswer(Decide(b, id, decision, t), b, id, decision, t)
<1> DEFINE pruned == Prune(b, t)
           named == {r \in pruned : r.id = id}
           r == OneOf(named)
           done == [r EXCEPT !.status = Decided(r, decision), !.decided = t]
<1>1. CASE named = {} \/ Decided(r, decision) = "settled"
  <2>1. Decide(b, id, decision, t) = AnswerOf("refused", None, pruned)
    BY <1>1 DEF Decide
  <2> QED
    BY <2>1 DEF AnswerOf, Verdict, DecisionAnswer
<1>2. CASE ~(named = {} \/ Decided(r, decision) = "settled")
  <2>1. r \in named
    BY <1>2 DEF OneOf
  <2>2. r \in Request /\ r.id = id
    BY <2>1
  <2>3. Decided(r, decision) \in {"approved", "denied", "cancelled"}
    BY <1>2 DEF Decided
  <2>4. done \in Request
    BY <2>2, <2>3 DEF Request
  <2>5. Decide(b, id, decision, t) = AnswerOf("decided", done, (pruned \ named) \cup {done})
    BY <1>2 DEF Decide
  <2>6. done = [r EXCEPT !.status = Decided(r, decision), !.decided = t]
    OBVIOUS
  <2> HIDE DEF r, done
  <2>7. Decide(b, id, decision, t) \in Verdict
    BY <2>4, <2>5 DEF AnswerOf, Verdict
  <2>8. /\ Decide(b, id, decision, t).outcome = "decided" /\ Decide(b, id, decision, t).request = done
        /\ Decide(b, id, decision, t).book = (pruned \ named) \cup {done}
    BY <2>5 DEF AnswerOf
  <2>9. r \in Prune(b, t) /\ r.id = id /\ Decided(r, decision) # "settled"
    BY <1>2, <2>1
  <2> QED
    BY <2>6, <2>7, <2>8, <2>9 DEF DecisionAnswer
<1> QED
  BY <1>1, <1>2

-----------------------------------------------------------------------------
(* The state of the book, step by step. *)

LEMMA ExpiryIsInt ==
  ASSUME NEW t \in Nat, NEW leaves \in Nat \cup {None}
  PROVE  Expiry(leaves, t) \in Int
<1>1. \A i \in Int : RoundedUp(i) \in Int
  <2> SUFFICES ASSUME NEW i \in Int PROVE RoundedUp(i) \in Int
    OBVIOUS
  <2>1. Day \in Nat \ {0}
    BY RequestAssumption
  <2>2. (i + Day - 1) \div Day \in Int
    BY <2>1
  <2> HIDE DEF RequestAssumption
  <2> QED
    BY <2>1, <2>2 DEF RoundedUp
<1>2. /\ t + Least(LinkTime, MaxLinkTime) \in Int
      /\ leaves # None => Least(leaves + Day, t + MaxLinkTime) \in Int
  BY RequestAssumption DEF Least
<1> QED
  BY <1>1, <1>2 DEF Expiry

LEMMA SignedAreTokens ==
  ASSUME now \in Nat
  PROVE  Signed \subseteq Token
<1>1. \A t \in 0..now : Expiry(None, t) \in Int
  <2> SUFFICES ASSUME NEW t \in 0..now PROVE Expiry(None, t) \in Int
    OBVIOUS
  <2>1. t \in Nat /\ None \in Nat \cup {None}
    OBVIOUS
  <2> QED
    BY ONLY <2>1, ExpiryIsInt
<1>2. \A t \in 0..now, d \in LeaveTimes : Expiry(t + d, t) \in Int
  <2> SUFFICES ASSUME NEW t \in 0..now, NEW d \in LeaveTimes PROVE Expiry(t + d, t) \in Int
    OBVIOUS
  <2>1. d \in Nat
    BY RequestAssumption
  <2> QED
    BY <2>1, ExpiryIsInt
<1> QED
  BY <1>1, <1>2 DEF Signed, Token

LEMMA InitHolds == RequestsInit => RequestsInv
<1> SUFFICES ASSUME RequestsInit PROVE RequestsInv
  OBVIOUS
<1>1. OneOf(KeepTimes) \in KeepTimes
  BY RequestAssumption DEF OneOf
<1>2. NoWork \in Work /\ NoWork.at = "idle"
  BY DEF NoWork, Work
<1>3. \A h \in Handler : handler[h] = NoWork
  BY DEF RequestsInit
<1>4. RequestsTyped
  BY <1>1, <1>2 DEF RequestsInit, RequestsTyped
<1> QED
  BY <1>2, <1>3, <1>4 DEF RequestsInit, RequestsInv, Underway, OneHolds, Orderly, OneEach, OneOpen, PromisesInBook, ApprovalsGiven

LEMMA AnswerTyped ==
  ASSUME RequestsInv, NEW h \in Handler, handler[h].at # "idle"
  PROVE  /\ Answer(handler[h], book) \in Verdict
         /\ handler[h].decision = None => Orderly(ForgetGone(book, handler[h].present, handler[h].since), now)
<1> DEFINE w == handler[h]
           f == ForgetGone(book, w.present, w.since)
<1>1. w \in Work /\ w.since \in Nat /\ w.link \in Token /\ w.since <= now /\ now <= w.since + Patience /\ now \in Nat
      /\ (w.decision = None => w.conf \in Conf)
  BY DEF RequestsInv, RequestsTyped, Underway, Work
<1>2. Orderly(book, now)
  BY DEF RequestsInv
<1> HIDE DEF w
<1>3. Orderly(f, now)
  BY <1>1, <1>2, ForgetFacts
<1>4. CASE w.decision = None
  <2>1. f \in SUBSET Request /\ Prune(f, w.since) \subseteq Request
    BY <1>1, <1>3, PruneFacts DEF Orderly
  <2>2. Record(f, w.link, w.conf, w.since) \in Verdict
    BY <1>1, <1>4, <2>1, RecordFacts DEF PressAnswer
  <2>3. Answer(w, book) = Record(f, w.link, w.conf, w.since)
    BY <1>4 DEF Answer
  <2> QED
    BY <1>3, <2>2, <2>3 DEF w
<1>5. CASE w.decision # None
  <2>1. Prune(book, w.since) \subseteq Request
    BY <1>1, <1>2, PruneFacts DEF Orderly
  <2>2. Decide(book, w.link, w.decision, w.since) \in Verdict
    BY <1>1, <2>1, DecideFacts DEF DecisionAnswer
  <2>3. Answer(w, book) = Decide(book, w.link, w.decision, w.since)
    BY <1>5 DEF Answer
  <2> QED
    BY <1>5, <2>2, <2>3 DEF w
<1> QED
  BY <1>4, <1>5

(* What a writer with a new request, or a decision, has worked out. *)
LEMMA NewFacts ==
  ASSUME RequestsInv, NEW h \in Handler, handler[h].at = "holding", handler[h].answer.outcome = "new"
  PROVE  LET w == handler[h]
             f == ForgetGone(book, w.present, w.since)
             r == NewRequest(w.link, w.conf, w.since)
         IN  /\ w.decision = None /\ w.answer.request = r /\ w.answer.book = Prune(f, w.since) \cup {r}
             /\ r \in Request /\ r.id = w.link /\ r.card = w.link.card /\ r.kind = w.link.action /\ r.at = w.since
             /\ r.status = (IF r.kind = "keep" THEN "active" ELSE "pending")
             /\ Sane(r, now)
             /\ \A q \in f : q.id # w.link
             /\ w.link.action = "remove" => \A q \in f : ~(q.card = w.link.card /\ q.kind = "remove" /\ OpenRequest(q))
<1> DEFINE w == handler[h]
           f == ForgetGone(book, w.present, w.since)
           r == NewRequest(w.link, w.conf, w.since)
<1>1. w \in Work /\ w.since \in Nat /\ w.link \in Token /\ w.since <= now /\ now <= w.since + Patience /\ now \in Nat
      /\ (w.decision = None => w.conf \in Conf) /\ w.answer = Answer(w, book)
  BY DEF RequestsInv, RequestsTyped, Underway, Work, OneHolds
<1>2. Orderly(book, now)
  BY DEF RequestsInv
<1> SUFFICES /\ w.decision = None /\ w.answer.request = r /\ w.answer.book = Prune(f, w.since) \cup {r}
             /\ r \in Request /\ r.id = w.link /\ r.card = w.link.card /\ r.kind = w.link.action /\ r.at = w.since
             /\ r.status = (IF r.kind = "keep" THEN "active" ELSE "pending")
             /\ Sane(r, now)
             /\ \A q \in f : q.id # w.link
             /\ w.link.action = "remove" => \A q \in f : ~(q.card = w.link.card /\ q.kind = "remove" /\ OpenRequest(q))
  OBVIOUS
<1>10. w.answer.outcome = "new"
  OBVIOUS
<1> HIDE DEF w
<1>3. w.decision = None
  <2> SUFFICES ASSUME w.decision # None PROVE FALSE
    OBVIOUS
  <2>1. Prune(book, w.since) \subseteq Request
    BY <1>1, <1>2, PruneFacts DEF Orderly
  <2>2. Decide(book, w.link, w.decision, w.since).outcome # "new"
    BY <1>1, <2>1, DecideFacts DEF DecisionAnswer
  <2> QED
    BY <1>1, <1>10, <2>2 DEF Answer
<1>4. Orderly(f, now)
  BY <1>1, <1>2, ForgetFacts
<1>5. f \in SUBSET Request /\ Prune(f, w.since) \subseteq Request
  BY <1>1, <1>4, PruneFacts DEF Orderly
<1>6. w.answer = Record(f, w.link, w.conf, w.since)
  BY <1>1, <1>3 DEF Answer
<1>7. /\ w.answer.request = r /\ w.answer.book = Prune(f, w.since) \cup {r}
      /\ \A q \in f : q.id # w.link
      /\ w.link.action = "remove" => \A q \in f : ~(q.card = w.link.card /\ q.kind = "remove" /\ OpenRequest(q))
  <2>1. w.link \in Token /\ w.conf \in Conf /\ w.since \in Nat
    BY <1>1, <1>3
  <2> HIDE DEF f
  <2>2. Record(f, w.link, w.conf, w.since).outcome = "new"
    BY <1>6, <1>10
  <2>3. PressAnswer(Record(f, w.link, w.conf, w.since), f, w.link, w.conf, w.since)
    BY <1>5, <2>1, RecordFacts
  <2> QED
    BY <1>5, <1>6, <2>1, <2>2, <2>3 DEF PressAnswer
<1>8. w.since + w.conf.keep \in Nat /\ w.since <= w.since + w.conf.keep
  <2>1. w.conf.keep \in KeepTimes
    BY <1>1, <1>3 DEF Conf
  <2>2. w.conf.keep \in Nat
    BY <2>1, RequestAssumption
  <2> QED
    BY <1>1, <2>2
<1>9. /\ r \in Request /\ r.id = w.link /\ r.card = w.link.card /\ r.kind = w.link.action /\ r.at = w.since
      /\ r.status = (IF r.kind = "keep" THEN "active" ELSE "pending")
      /\ Sane(r, now)
  <2>1. r \in Request
    BY <1>1, <1>8 DEF NewRequest, Request, Token
  <2>2. w.link.action \in {"keep", "remove"}
    BY <1>1 DEF Token
  <2>3. Sane(r, now)
    BY <1>1, <1>8, <2>2 DEF NewRequest, Sane, Resolved
  <2> QED
    BY <2>1, <2>3 DEF NewRequest
<1> QED
  BY <1>3, <1>7, <1>9

LEMMA DecidedFacts ==
  ASSUME RequestsInv, NEW h \in Handler, handler[h].at = "holding", handler[h].answer.outcome = "decided"
  PROVE  LET w == handler[h]
             a == w.answer
         IN  /\ w.decision # None
             /\ \E r \in Prune(book, w.since) :
                  /\ a.book = (Prune(book, w.since) \ {q \in Prune(book, w.since) : q.id = r.id}) \cup {a.request}
                  /\ a.request \in Request /\ Sane(a.request, now)
                  /\ a.request.id = r.id /\ a.request.card = r.card /\ a.request.kind = r.kind /\ a.request.at = r.at
                  /\ r.kind = "remove" => OpenRequest(r) /\ a.request.status \in {"approved", "denied", "cancelled"}
                  /\ r.kind = "keep" => a.request.status = "cancelled"
                  /\ a.request.decided = w.since
<1> DEFINE w == handler[h]
           a == w.answer
           pruned == Prune(book, w.since)
<1> SUFFICES /\ w.decision # None
             /\ \E r \in pruned :
                  /\ a.book = (pruned \ {q \in pruned : q.id = r.id}) \cup {a.request}
                  /\ a.request \in Request /\ Sane(a.request, now)
                  /\ a.request.id = r.id /\ a.request.card = r.card /\ a.request.kind = r.kind /\ a.request.at = r.at
                  /\ r.kind = "remove" => OpenRequest(r) /\ a.request.status \in {"approved", "denied", "cancelled"}
                  /\ r.kind = "keep" => a.request.status = "cancelled"
                  /\ a.request.decided = w.since
  OBVIOUS
<1>1. w \in Work /\ w.since \in Nat /\ w.link \in Token /\ w.since <= now /\ now <= w.since + Patience /\ now \in Nat
      /\ (w.decision = None => w.conf \in Conf) /\ a = Answer(w, book)
  BY DEF RequestsInv, RequestsTyped, Underway, Work, OneHolds
<1>2. Orderly(book, now)
  BY DEF RequestsInv
<1>3. a.outcome = "decided"
  OBVIOUS
<1> HIDE DEF w
<1>4. w.decision # None
  <2> SUFFICES ASSUME w.decision = None PROVE FALSE
    OBVIOUS
  <2> DEFINE f == ForgetGone(book, w.present, w.since)
  <2>1. Orderly(f, now)
    BY <1>1, <1>2, ForgetFacts
  <2>2. f \in SUBSET Request /\ Prune(f, w.since) \subseteq Request
    BY <1>1, <2>1, PruneFacts DEF Orderly
  <2>3. Record(f, w.link, w.conf, w.since).outcome # "decided"
    <3>1. w.link \in Token /\ w.conf \in Conf /\ w.since \in Nat
      BY <1>1
    <3> HIDE DEF f
    <3>2. PressAnswer(Record(f, w.link, w.conf, w.since), f, w.link, w.conf, w.since)
      BY <2>2, <3>1, RecordFacts
    <3> QED
      BY <3>2 DEF PressAnswer
  <2> QED
    BY <1>1, <1>3, <2>3 DEF Answer
<1>5. a = Decide(book, w.link, w.decision, w.since)
  BY <1>1, <1>4 DEF Answer
<1>6. Orderly(pruned, now)
  BY <1>1, <1>2, PruneFacts
<1>7. PICK r \in pruned :
        /\ r.id = w.link /\ Decided(r, w.decision) # "settled"
        /\ a.request = [r EXCEPT !.status = Decided(r, w.decision), !.decided = w.since]
        /\ a.book = (pruned \ {q \in pruned : q.id = w.link}) \cup {a.request}
  <2>1. Prune(book, w.since) \subseteq Request
    BY <1>6 DEF Orderly
  <2>2. Decide(book, w.link, w.decision, w.since).outcome = "decided"
    BY <1>3, <1>5
  <2>3. DecisionAnswer(Decide(book, w.link, w.decision, w.since), book, w.link, w.decision, w.since)
    BY <1>1, <2>1, DecideFacts
  <2> QED
    BY <1>5, <2>2, <2>3 DEF DecisionAnswer
<1>8. r \in Request /\ Sane(r, now)
  BY <1>6 DEF Orderly
<1>9. /\ r.kind = "remove" => OpenRequest(r) /\ Decided(r, w.decision) \in {"approved", "denied", "cancelled"}
      /\ r.kind = "keep" => Decided(r, w.decision) = "cancelled"
      /\ Decided(r, w.decision) \in {"approved", "denied", "cancelled"}
  BY <1>7 DEF Decided, OpenRequest
<1>10. a.request \in Request
  BY <1>1, <1>7, <1>8, <1>9 DEF Request
<1>11. /\ a.request.id = r.id /\ a.request.card = r.card /\ a.request.kind = r.kind /\ a.request.at = r.at
       /\ a.request.until = r.until /\ a.request.status = Decided(r, w.decision) /\ a.request.decided = w.since
  BY <1>7, <1>8 DEF Request
<1>12. Sane(a.request, now)
  <2>1. r.at \in Nat /\ r.at <= w.since + Patience
    BY <1>1, <1>8, RequestAssumption DEF Request, Sane
  <2>2. w.since # None
    BY <1>1, RequestAssumption
  <2> QED
    BY <1>8, <1>9, <1>11, <2>1, <2>2 DEF Sane, Ended
<1> QED
  BY <1>4, <1>7, <1>9, <1>10, <1>11, <1>12

(* What a page confirms of a keep there is already is an active keep of the *)
(* book, and the end promised is the one the book has.                      *)
LEMMA ExistingFacts ==
  ASSUME RequestsInv, NEW h \in Handler, handler[h].at = "holding", handler[h].answer.outcome = "existing",
         handler[h].answer.request.status = "active"
  PROVE  LET r == handler[h].answer.request
         IN  \E q \in book : /\ r.id = q.id /\ r.card = q.card /\ r.kind = q.kind /\ q.status = "active"
                             /\ SavedEnd(r) = q.until
<1> DEFINE w == handler[h]
           f == ForgetGone(book, w.present, w.since)
           r == w.answer.request
<1>1. w \in Work /\ w.since \in Nat /\ w.link \in Token /\ w.since <= now /\ now <= w.since + Patience /\ now \in Nat
      /\ (w.decision = None => w.conf \in Conf) /\ w.answer = Answer(w, book)
  BY DEF RequestsInv, RequestsTyped, Underway, Work, OneHolds
<1>2. Orderly(book, now)
  BY DEF RequestsInv
<1>3. w.answer.outcome = "existing" /\ r.status = "active"
  OBVIOUS
<1> SUFFICES \E q \in book : /\ r.id = q.id /\ r.card = q.card /\ r.kind = q.kind /\ q.status = "active"
                             /\ SavedEnd(r) = q.until
  OBVIOUS
<1> HIDE DEF w
<1>4. w.decision = None
  <2> SUFFICES ASSUME w.decision # None PROVE FALSE
    OBVIOUS
  <2>1. Prune(book, w.since) \subseteq Request
    BY <1>1, <1>2, PruneFacts DEF Orderly
  <2>2. Decide(book, w.link, w.decision, w.since).outcome # "existing"
    BY <1>1, <2>1, DecideFacts DEF DecisionAnswer
  <2> QED
    BY <1>1, <1>3, <2>2 DEF Answer
<1>5. Orderly(f, now) /\ \A q \in f : q.status = "active" => q \in book
  BY <1>1, <1>2, ForgetFacts
<1>6. f \in SUBSET Request /\ Prune(f, w.since) \subseteq Request
  BY <1>1, <1>5, PruneFacts DEF Orderly
<1>7. w.answer = Record(f, w.link, w.conf, w.since)
  BY <1>1, <1>4 DEF Answer
<1> HIDE DEF f
<1>8. PressAnswer(w.answer, f, w.link, w.conf, w.since)
  BY <1>1, <1>4, <1>6, <1>7, RecordFacts
<1>9. PICK q \in f : r.id = q.id /\ r.card = q.card /\ r.kind = q.kind /\ r.status = q.status
  BY <1>3, <1>8 DEF PressAnswer
<1>10. q \in book /\ q.status = "active"
  BY <1>3, <1>5, <1>9
<1>11. SavedEnd(r) = q.until
  <2>1. {o \in book : o.id = r.id} = {q}
    BY <1>2, <1>9, <1>10 DEF Orderly, OneEach
  <2> QED
    BY <2>1 DEF SavedEnd, OneOf
<1> QED
  BY <1>9, <1>10, <1>11

(* A new request finds its place in the book. *)
LEMMA NewKeeps ==
  ASSUME RequestsInv, NEW h \in Handler, Write(h), handler[h].answer.outcome = "new"
  PROVE  Orderly(book', now) /\ PromisesInBook' /\ ApprovalsGiven' /\ promised' \subseteq [id : Token, card : Card, until : Nat]
<1> DEFINE w == handler[h]
           f == ForgetGone(book, w.present, w.since)
           r == NewRequest(w.link, w.conf, w.since)
           pruned == Prune(f, w.since)
<1>1. w \in Work /\ w.since \in Nat /\ w.link \in Token /\ w.since <= now /\ now <= w.since + Patience /\ now \in Nat
  BY DEF RequestsInv, RequestsTyped, Underway, Work, Write
<1>2. Orderly(book, now) /\ PromisesInBook /\ ApprovalsGiven
  BY DEF RequestsInv
<1>3. /\ w.decision = None /\ w.answer.request = r /\ w.answer.book = pruned \cup {r}
      /\ r \in Request /\ r.id = w.link /\ r.card = w.link.card /\ r.kind = w.link.action /\ r.at = w.since
      /\ r.status = (IF r.kind = "keep" THEN "active" ELSE "pending")
      /\ Sane(r, now)
      /\ \A q \in f : q.id # w.link
      /\ w.link.action = "remove" => \A q \in f : ~(q.card = w.link.card /\ q.kind = "remove" /\ OpenRequest(q))
  BY NewFacts DEF Write
<1>17. SavedEnd(r) = r.until
  <2> HIDE DEF w, r
  <2>3. \A o \in book : \E q \in f : q.id = o.id
    BY <1>1, <1>2, ForgetFacts
  <2>1. \A o \in book : o.id # w.link
    BY <1>3, <2>3
  <2>2. {o \in book : o.id = r.id} = {}
    BY <1>3, <2>1
  <2> QED
    BY <2>2 DEF SavedEnd
<1>4. /\ book' = pruned \cup {r} /\ now' = now /\ approved' = approved
      /\ promised' = IF r.kind = "keep" THEN promised \cup {[id |-> r.id, card |-> r.card, until |-> r.until]} ELSE promised
  BY <1>3, <1>17 DEF Write
<1> HIDE DEF w, r
<1>5. Orderly(f, now)
  BY <1>1, <1>2, ForgetFacts
<1>6. ComesFrom(f, book)
  BY <1>1, <1>2, ForgetFacts
<1>7. \A o \in book : o.kind = "keep" /\ o.status = "active" => o \in f
  BY <1>1, <1>2, ForgetFacts
<1> HIDE DEF f
<1>8. Orderly(pruned, now)
  BY <1>1, <1>5, PruneFacts
<1>9. ComesFrom(pruned, f)
  BY <1>1, <1>5, PruneFacts
<1>10. \A o \in f : o.kind = "keep" /\ o.status = "active" /\ now < o.until => o \in pruned
  BY <1>1, <1>5, PruneFacts
<1> HIDE DEF pruned
<1>11. OpenRequest(r) => \A q \in pruned : ~(OpenRequest(q) /\ q.card = r.card)
  <2> SUFFICES ASSUME OpenRequest(r), NEW q \in pruned, OpenRequest(q), q.card = r.card PROVE FALSE
    OBVIOUS
  <2>1. r.kind = "remove"
    BY <1>3 DEF OpenRequest, Request
  <2>2. PICK o \in f : q.card = o.card /\ OpenRequest(o)
    BY <1>9 DEF ComesFrom
  <2>3. o.kind = "remove"
    BY <1>5, <2>2 DEF Orderly, Sane, OpenRequest, Request
  <2> QED
    BY <1>3, <2>1, <2>2, <2>3
<1>12. Orderly(book', now)
  <2>1. \A q \in pruned : q.id # r.id
    BY <1>3, <1>9 DEF ComesFrom
  <2> QED
    BY <1>3, <1>4, <1>8, <1>11, <2>1 DEF Orderly, OneEach, OneOpen
<1>13. r.kind = "keep" => r.until \in Nat
  BY <1>3 DEF Sane
<1>14. promised' \subseteq [id : Token, card : Card, until : Nat]
  <2>1. promised \subseteq [id : Token, card : Card, until : Nat]
    BY DEF RequestsInv, RequestsTyped
  <2>2. r.id \in Token /\ r.card \in Card
    BY <1>3 DEF Request
  <2> QED
    BY <1>4, <1>13, <2>1, <2>2
<1>15. PromisesInBook'
  <2> SUFFICES ASSUME NEW p \in promised', now < p.until
               PROVE  \E o \in book' : /\ o.id = p.id /\ o.card = p.card /\ o.kind = "keep"
                                       /\ o.status = "active" /\ o.until >= p.until
    BY <1>4 DEF PromisesInBook
  <2>1. CASE p \in promised
    <3>1. PICK o \in book : o.id = p.id /\ o.card = p.card /\ o.kind = "keep" /\ o.status = "active" /\ o.until >= p.until
      BY <1>2, <2>1 DEF PromisesInBook
    <3>2. now < o.until
      <4>1. o.until \in Nat
        BY <1>2, <3>1 DEF Orderly, Sane
      <4>2. p.until \in Nat
        BY <1>14
      <4> QED
        BY <1>1, <3>1, <4>1, <4>2
    <3>3. o \in pruned
      BY <1>7, <1>10, <3>1, <3>2
    <3> QED
      BY <1>4, <3>1, <3>3
  <2>2. CASE p \notin promised
    <3>1. r.kind = "keep" /\ p = [id |-> r.id, card |-> r.card, until |-> r.until]
      BY <1>4, <2>2
    <3>2. r \in book' /\ r.status = "active" /\ r.until >= r.until
      BY <1>3, <1>4, <1>13, <3>1
    <3> QED
      BY <3>1, <3>2
  <2> QED
    BY <2>1, <2>2
<1>16. ApprovalsGiven'
  BY <1>2, <1>3, <1>4, <1>6, <1>9 DEF ApprovalsGiven, ComesFrom
<1> QED
  BY <1>12, <1>14, <1>15, <1>16

(* A decision changes the one request it names. *)
LEMMA DecisionKeeps ==
  ASSUME RequestsInv, NEW h \in Handler, Write(h), handler[h].answer.outcome = "decided"
  PROVE  Orderly(book', now) /\ PromisesInBook' /\ ApprovalsGiven' /\ approved' \subseteq Card
<1> DEFINE w == handler[h]
           done == w.answer.request
           pruned == Prune(book, w.since)
<1>1. w \in Work /\ w.since \in Nat /\ w.since <= now /\ now \in Nat
  BY DEF RequestsInv, RequestsTyped, Underway, Work, Write
<1>2. Orderly(book, now) /\ PromisesInBook /\ ApprovalsGiven /\ approved \subseteq Card
  BY DEF RequestsInv, RequestsTyped
<1>3. PICK r \in pruned :
        /\ w.answer.book = (pruned \ {q \in pruned : q.id = r.id}) \cup {done}
        /\ done \in Request /\ Sane(done, now)
        /\ done.id = r.id /\ done.card = r.card /\ done.kind = r.kind
        /\ r.kind = "remove" => OpenRequest(r) /\ done.status \in {"approved", "denied", "cancelled"}
        /\ r.kind = "keep" => done.status = "cancelled"
  BY DecidedFacts DEF Write
<1>4. /\ book' = (pruned \ {q \in pruned : q.id = r.id}) \cup {done} /\ now' = now
      /\ promised' = IF done.kind = "keep" THEN {p \in promised : p.id # done.id} ELSE promised
      /\ approved' = IF done.kind = "remove"
                     THEN IF done.status = "approved" THEN approved \cup {done.card} ELSE approved \ {done.card}
                     ELSE approved
  BY <1>3 DEF Write
<1> HIDE DEF w, done
<1>5. Orderly(pruned, now)
  BY <1>1, <1>2, PruneFacts
<1>6. ComesFrom(pruned, book)
  BY <1>1, <1>2, PruneFacts
<1>7. \A o \in book : o.kind = "keep" /\ o.status = "active" /\ now < o.until => o \in pruned
  BY <1>1, <1>2, PruneFacts
<1> HIDE DEF pruned
<1>8. r \in Request /\ (r.kind = "keep" \/ r.kind = "remove")
  BY <1>5 DEF Orderly, Request
<1>9. OpenRequest(done) => OpenRequest(r)
  BY <1>3, <1>8 DEF OpenRequest
<1>10. Orderly(book', now)
  <2>1. \A q \in book' : (q \in pruned /\ q.id # r.id) \/ q = done
    BY <1>4
  <2>2. OneEach(book')
    BY <1>3, <1>5, <2>1 DEF Orderly, OneEach
  <2>3. OneOpen(book')
    <3>1. \A q \in pruned : q.id # r.id /\ OpenRequest(q) /\ OpenRequest(done) => q.card # done.card
      BY <1>3, <1>5, <1>9 DEF Orderly, OneOpen
    <3> QED
      BY <1>5, <2>1, <3>1 DEF Orderly, OneOpen
  <2> QED
    BY <1>3, <1>4, <1>5, <2>2, <2>3 DEF Orderly
<1>11. PromisesInBook'
  <2> SUFFICES ASSUME NEW p \in promised', now < p.until
               PROVE  \E o \in book' : /\ o.id = p.id /\ o.card = p.card /\ o.kind = "keep"
                                       /\ o.status = "active" /\ o.until >= p.until
    BY <1>4 DEF PromisesInBook
  <2>1. p \in promised
    BY <1>4
  <2>2. PICK o \in book : o.id = p.id /\ o.card = p.card /\ o.kind = "keep" /\ o.status = "active" /\ o.until >= p.until
    BY <1>2, <2>1 DEF PromisesInBook
  <2>3. now < o.until
    <3>1. o.until \in Nat /\ p.until \in Nat
      BY <1>2, <2>1, <2>2 DEF Orderly, Sane, RequestsInv, RequestsTyped
    <3> QED
      BY <1>1, <2>2, <3>1
  <2>4. o \in pruned
    BY <1>7, <2>2, <2>3
  <2>5. o.id # r.id
    <3> SUFFICES ASSUME o.id = r.id PROVE FALSE
      OBVIOUS
    <3>1. o = r
      BY <1>5, <2>4 DEF Orderly, OneEach
    <3> QED
      BY <1>3, <1>4, <2>2, <3>1
  <2> QED
    BY <1>4, <2>2, <2>4, <2>5
<1>12. ApprovalsGiven'
  <2> SUFFICES ASSUME NEW q \in book', q.status = "approved" PROVE q.card \in approved'
    BY DEF ApprovalsGiven
  <2>1. CASE q = done
    BY <1>3, <1>4, <1>8, <2>1
  <2>2. CASE q \in pruned /\ q.id # r.id
    <3>1. q.card \in approved
      BY <1>2, <1>6, <2>2 DEF ApprovalsGiven, ComesFrom
    <3>2. r.kind = "remove" => q.card # r.card
      BY <1>3, <1>5, <2>2 DEF Orderly, OneOpen, OpenRequest
    <3> QED
      BY <1>3, <1>4, <3>1, <3>2
  <2> QED
    BY <1>4, <2>1, <2>2
<1>13. approved' \subseteq Card
  BY <1>2, <1>3, <1>4 DEF Request
<1> QED
  BY <1>10, <1>11, <1>12, <1>13

(* Where the book, its history and the time stay, only the handlers count. *)
LEMMA HandlersChange ==
  ASSUME RequestsInv, UNCHANGED <<now, book, promised, approved, spent>>,
         settings' \in [enabled : BOOLEAN, removals : BOOLEAN, keep : KeepTimes], library' \subseteq Card,
         handler' \in [Handler -> Work], OneHolds', \A h \in Handler : Underway(handler[h])'
  PROVE  RequestsInv'
  BY DEF RequestsInv, RequestsTyped, Orderly, OneEach, OneOpen, PromisesInBook, ApprovalsGiven

(* A request is settled at a time, or not yet. *)
LEMMA EndTyped ==
  ASSUME NEW r \in Request
  PROVE  EndOf(r) \in Nat \cup {None}
  BY DEF EndOf, Request

LEMMA StepHolds == RequestsInv /\ [RequestsNext]_requestVars => RequestsInv'
<1> SUFFICES ASSUME RequestsInv, [RequestsNext]_requestVars PROVE RequestsInv'
  OBVIOUS
<1>1. RequestsTyped /\ OneHolds /\ (\A h \in Handler : Underway(handler[h]))
  BY DEF RequestsInv
<1>2. /\ now \in Nat /\ settings \in [enabled : BOOLEAN, removals : BOOLEAN, keep : KeepTimes] /\ library \subseteq Card
      /\ handler \in [Handler -> Work]
  BY <1>1 DEF RequestsTyped
<1>3. NoWork \in Work /\ NoWork.at = "idle"
  BY DEF NoWork, Work
<1>4. ASSUME NEW h \in Handler, NEW link \in Signed, Check(h, link)
      PROVE  RequestsInv'
  <2> DEFINE conf == [removals |-> settings.removals, keep |-> settings.keep]
             w == [NoWork EXCEPT !.at = "checked", !.link = link, !.present = library, !.since = now, !.conf = conf]
  <2>1. link \in Token
    BY <1>2, SignedAreTokens
  <2>2. handler' = [handler EXCEPT ![h] = w] /\ UNCHANGED <<now, book, promised, approved, spent, settings, library>>
    BY <1>4 DEF Check, history
  <2>3. w \in Work /\ w.at = "checked" /\ w.link = link /\ w.since = now /\ w.conf \in Conf
    <3>1. conf \in Conf
      BY <1>2 DEF Conf
    <3> HIDE DEF conf
    <3> QED
      BY <1>2, <1>3, <2>1, <3>1 DEF Work
  <2>4. w.at = "checked" /\ w.link = link /\ w.since = now /\ w.conf \in Conf
    BY <2>3
  <2>5. Verified(w.link, w.since)
    BY <1>4 DEF Check
  <2> HIDE DEF w
  <2>6. \A g \in Handler : handler'[g] = IF g = h THEN w ELSE handler[g]
    BY <1>2, <2>2
  <2>7. Underway(w)
    BY <1>2, <2>1, <2>4, <2>5, RequestAssumption DEF Underway
  <2>8. \A g \in Handler : Underway(handler[g])'
    BY <1>1, <2>2, <2>6, <2>7 DEF Underway
  <2>9. OneHolds'
    BY <1>1, <2>2, <2>4, <2>6 DEF OneHolds, Answer
  <2>10. handler' \in [Handler -> Work]
    BY <1>2, <2>2, <2>3
  <2> QED
    BY <1>2, <2>2, <2>8, <2>9, <2>10, HandlersChange
<1>5. ASSUME NEW h \in Handler, NEW r \in book, NEW d \in {"approve", "deny", "cancel"}, AskDecision(h, r.id, d)
      PROVE  RequestsInv'
  <2> DEFINE w == [NoWork EXCEPT !.at = "checked", !.link = r.id, !.decision = d, !.since = now]
  <2>1. r.id \in Token
    BY <1>1 DEF RequestsTyped, Request
  <2>2. handler' = [handler EXCEPT ![h] = w] /\ UNCHANGED <<now, book, promised, approved, spent, settings, library>>
    BY <1>5 DEF AskDecision, history
  <2>3. w \in Work /\ w.at = "checked" /\ w.link = r.id /\ w.since = now /\ w.decision = d
    BY <1>2, <1>3, <2>1 DEF Work
  <2>4. w.at = "checked" /\ w.link = r.id /\ w.since = now /\ w.decision # None
    BY <2>3, RequestAssumption
  <2> HIDE DEF w
  <2>6. \A g \in Handler : handler'[g] = IF g = h THEN w ELSE handler[g]
    BY <1>2, <2>2
  <2>7. Underway(w)
    BY <1>2, <2>1, <2>4, RequestAssumption DEF Underway
  <2>8. \A g \in Handler : Underway(handler[g])'
    BY <1>1, <2>2, <2>6, <2>7 DEF Underway
  <2>9. OneHolds'
    BY <1>1, <2>2, <2>4, <2>6 DEF OneHolds, Answer
  <2>10. handler' \in [Handler -> Work]
    BY <1>2, <2>2, <2>3
  <2> QED
    BY <1>2, <2>2, <2>8, <2>9, <2>10, HandlersChange
<1>6. ASSUME NEW h \in Handler, ReadBook(h)
      PROVE  RequestsInv'
  <2> DEFINE w == [handler[h] EXCEPT !.at = "holding", !.answer = Answer(handler[h], book)]
  <2>1. /\ handler' = [handler EXCEPT ![h] = w] /\ UNCHANGED <<now, book, promised, approved, spent, settings, library>>
        /\ handler[h].at = "checked" /\ \A g \in Handler : handler[g].at # "holding"
    BY <1>6 DEF ReadBook, history, Locked, Writing
  <2>2. Answer(handler[h], book) \in Verdict
    BY <2>1, AnswerTyped
  <2>3. /\ w \in Work /\ w.at = "holding" /\ w.link = handler[h].link /\ w.decision = handler[h].decision
        /\ w.present = handler[h].present /\ w.conf = handler[h].conf /\ w.since = handler[h].since
        /\ w.answer = Answer(handler[h], book)
    BY <1>2, <2>2 DEF Work
  <2> HIDE DEF w
  <2>4. \A g \in Handler : handler'[g] = IF g = h THEN w ELSE handler[g]
    BY <1>2, <2>1
  <2>5. Underway(w)
    BY <1>1, <2>1, <2>3 DEF Underway
  <2>6. \A g \in Handler : Underway(handler[g])'
    BY <1>1, <2>1, <2>4, <2>5 DEF Underway
  <2>7. Answer(w, book) = Answer(handler[h], book)
    BY <2>3 DEF Answer
  <2>8. OneHolds'
    <3>1. \A g \in Handler : handler'[g].at = "holding" => g = h
      BY <2>1, <2>4
    <3>2. handler'[h].answer = Answer(handler'[h], book')
      BY <2>1, <2>3, <2>4, <2>7
    <3> QED
      BY <3>1, <3>2 DEF OneHolds, Answer
  <2>9. handler' \in [Handler -> Work]
    BY <1>2, <2>1, <2>3
  <2> QED
    BY <1>2, <2>1, <2>6, <2>8, <2>9, HandlersChange
<1>7. ASSUME NEW h \in Handler, Write(h)
      PROVE  RequestsInv'
  <2>1. handler' = [handler EXCEPT ![h] = NoWork] /\ handler[h].at = "holding" /\ UNCHANGED <<now, settings, library>>
    BY <1>7 DEF Write
  <2>2. handler' \in [Handler -> Work] /\ \A g \in Handler : handler'[g] = IF g = h THEN NoWork ELSE handler[g]
    BY <1>2, <1>3, <2>1
  <2>3. (\A g \in Handler : Underway(handler[g])') /\ OneHolds'
    BY <1>1, <1>3, <2>1, <2>2 DEF Underway, OneHolds
  <2>4. book' \subseteq Request => spent' \subseteq [link : Token, ended : Nat \cup {None}]
    <3> SUFFICES ASSUME book' \subseteq Request, NEW s \in spent' PROVE s \in [link : Token, ended : Nat \cup {None}]
      OBVIOUS
    <3>1. spent' = {o \in spent : \A q \in book' : q.id # o.link} \cup {[link |-> q.id, ended |-> EndOf(q)] : q \in book'}
      BY <1>7 DEF Write
    <3>2. CASE s \in spent
      BY <1>1, <3>2 DEF RequestsTyped
    <3>3. CASE \E q \in book' : s = [link |-> q.id, ended |-> EndOf(q)]
      <4>1. PICK q \in book' : s = [link |-> q.id, ended |-> EndOf(q)]
        BY <3>3
      <4> QED
        BY <4>1, EndTyped DEF Request
    <3> QED
      BY <3>1, <3>2, <3>3
  <2>5. CASE handler[h].answer.outcome = "new"
    <3>1. approved' = approved
      BY <1>7, <2>5 DEF Write
    <3> QED
      BY <1>1, <1>2, <1>7, <2>1, <2>2, <2>3, <2>4, <2>5, <3>1, NewKeeps
         DEF RequestsInv, RequestsTyped, Orderly, OneEach, OneOpen
  <2>6. CASE handler[h].answer.outcome = "decided"
    <3>1. promised' \subseteq promised
      BY <1>7, <2>6 DEF Write
    <3> QED
      BY <1>1, <1>2, <1>7, <2>1, <2>2, <2>3, <2>4, <2>6, <3>1, DecisionKeeps
         DEF RequestsInv, RequestsTyped, Orderly, OneEach, OneOpen
  <2>7. CASE handler[h].answer.outcome \notin {"new", "decided"}
    <3>1. UNCHANGED <<book, approved>> /\ now' = now
      BY <1>7, <2>7 DEF Write
    <3>2. \A p \in promised' : p \in promised \/
            \E q \in book : /\ p = [id |-> q.id, card |-> q.card, until |-> q.until]
                           /\ q.kind = "keep" /\ q.status = "active"
      <4> DEFINE r == handler[h].answer.request
      <4>1. CASE handler[h].answer.outcome = "existing" /\ r.kind = "keep" /\ r.status = "active"
        <5>1. PICK q \in book : /\ r.id = q.id /\ r.card = q.card /\ r.kind = q.kind /\ q.status = "active"
                              /\ SavedEnd(r) = q.until
          BY <2>1, <4>1, ExistingFacts
        <5>2. promised' = promised \cup {[id |-> r.id, card |-> r.card, until |-> SavedEnd(r)]}
          BY <1>7, <4>1 DEF Write
        <5> QED
          BY <4>1, <5>1, <5>2
      <4>2. CASE ~(handler[h].answer.outcome = "existing" /\ r.kind = "keep" /\ r.status = "active")
        BY <1>7, <2>7, <4>2 DEF Write
      <4> QED
        BY <4>1, <4>2
    <3>3. \A q \in book : q.kind = "keep" => q.until \in Nat
      BY DEF RequestsInv, Orderly, Sane
    <3>4. promised' \subseteq [id : Token, card : Card, until : Nat]
      BY <1>1, <3>2, <3>3 DEF RequestsTyped, Request
    <3>5. PromisesInBook'
      BY <3>1, <3>2, <3>3 DEF RequestsInv, PromisesInBook
    <3> QED
      BY <1>1, <1>2, <2>1, <2>2, <2>3, <2>4, <3>1, <3>4, <3>5
         DEF RequestsInv, RequestsTyped, Orderly, OneEach, OneOpen, ApprovalsGiven
  <2> QED
    BY <2>5, <2>6, <2>7
<1>8. ASSUME NEW h \in Handler, NotSaved(h)
      PROVE  RequestsInv'
  <2>1. handler' = [handler EXCEPT ![h] = NoWork] /\ UNCHANGED <<now, book, promised, approved, spent, settings, library>>
    BY <1>8 DEF NotSaved, history
  <2>2. handler' \in [Handler -> Work] /\ \A g \in Handler : handler'[g] = IF g = h THEN NoWork ELSE handler[g]
    BY <1>2, <1>3, <2>1
  <2>3. (\A g \in Handler : Underway(handler[g])') /\ OneHolds'
    BY <1>1, <1>3, <2>1, <2>2 DEF Underway, OneHolds, Answer
  <2> QED
    BY <1>2, <2>1, <2>2, <2>3, HandlersChange
<1>9. CASE Gather \/ ChangeSettings \/ \E c \in Card : ComeOrGo(c)
  <2>1. UNCHANGED <<now, book, promised, approved, spent, handler>>
    BY <1>9 DEF Gather, ChangeSettings, ComeOrGo, history
  <2>2. settings' \in [enabled : BOOLEAN, removals : BOOLEAN, keep : KeepTimes] /\ library' \subseteq Card
    BY <1>2, <1>9 DEF Gather, ChangeSettings, ComeOrGo
  <2> QED
    BY <1>1, <1>2, <2>1, <2>2, HandlersChange DEF OneHolds, Underway, Answer
<1>10. CASE RestartWeb
  <2>1. UNCHANGED <<now, book, promised, approved, spent, settings, library>> /\ handler' = [h \in Handler |-> NoWork]
    BY <1>10 DEF RestartWeb, history
  <2> QED
    BY <1>2, <1>3, <2>1, HandlersChange DEF OneHolds, Underway
<1>11. CASE LoseBook
  <2>1. /\ UNCHANGED <<now, settings, library>> /\ handler' = [h \in Handler |-> NoWork]
        /\ book' = {} /\ promised' = {} /\ approved' = {} /\ spent' = {}
    BY <1>11 DEF LoseBook
  <2> QED
    BY <1>2, <1>3, <2>1 DEF RequestsInv, RequestsTyped, OneHolds, Underway, Orderly, OneEach, OneOpen, PromisesInBook, ApprovalsGiven
<1>12. CASE DayPasses
  <2>1. /\ UNCHANGED <<book, promised, approved, spent, handler, settings, library>> /\ now' = now + 1
        /\ \A h \in Handler : handler[h].at # "idle" => now < handler[h].since + Patience
    BY <1>12 DEF DayPasses, history
  <2>2. \A h \in Handler : Underway(handler[h])'
    <3> SUFFICES ASSUME NEW h \in Handler, handler[h].at # "idle", Underway(handler[h])
                 PROVE  handler[h].since <= now + 1 /\ now + 1 <= handler[h].since + Patience
      BY <1>1, <2>1 DEF Underway
    <3>1. handler[h].since \in Nat /\ handler[h].since <= now /\ now < handler[h].since + Patience
      BY <1>2, <2>1 DEF Underway, Work
    <3> QED
      BY <1>2, <3>1, RequestAssumption
  <2>3. OneHolds'
    BY <1>1, <2>1 DEF OneHolds, Answer
  <2>4. Orderly(book, now)'
    <3>1. \A r \in book : r.at \in Nat /\ r.at <= now + 1 /\ Sane(r, now)
      BY <1>2 DEF RequestsInv, Orderly, Sane, Request
    <3>2. \A r \in book : Sane(r, now')
      BY <2>1, <3>1 DEF Sane
    <3> QED
      BY <2>1, <3>2 DEF RequestsInv, Orderly, OneEach, OneOpen
  <2>5. PromisesInBook'
    <3>1. \A p \in promised : now + 1 < p.until => now < p.until
      BY <1>1, <1>2 DEF RequestsTyped
    <3> QED
      BY <2>1, <3>1 DEF RequestsInv, PromisesInBook
  <2>6. RequestsTyped'
    BY <1>1, <2>1 DEF RequestsTyped
  <2> QED
    BY <2>1, <2>2, <2>3, <2>4, <2>5, <2>6 DEF RequestsInv, ApprovalsGiven
<1>13. CASE UNCHANGED requestVars
  <2>1. UNCHANGED <<now, book, promised, approved, spent, settings, library, handler>>
    BY <1>13 DEF requestVars
  <2> QED
    BY <1>1, <1>2, <2>1, HandlersChange DEF OneHolds, Underway, Answer
<1> QED
  BY <1>4, <1>5, <1>6, <1>7, <1>8, <1>9, <1>10, <1>11, <1>12, <1>13 DEF RequestsNext

(* The request book of every reachable state is orderly, holds the promises *)
(* and no more approvals than were given.                                   *)
THEOREM BookStaysOrderly == RequestsSpec => []RequestsInv
  BY InitHolds, StepHolds, PTL DEF RequestsSpec

-----------------------------------------------------------------------------
(* A keep a page confirmed, first or again, stays in the book and pins its  *)
(* card until the end the book has for it, whatever handlers, decisions and *)
(* prunings come between (requests.rs:44, web requests.rs:12, :114-119); a  *)
(* later end a repeated press is shown is not one the book has.             *)
THEOREM KeepIsKeptHolds == RequestsSpec => []KeepIsKept
<1>1. RequestsInv => KeepIsKept
  <2> SUFFICES ASSUME RequestsInv, NEW p \in promised, now < p.until
               PROVE  \E r \in book : r.card = p.card /\ IsKeepAt(r, now) /\ r.until >= p.until
    BY DEF KeepIsKept
  <2>1. PICK r \in book : r.id = p.id /\ r.card = p.card /\ r.kind = "keep" /\ r.status = "active" /\ r.until >= p.until
    BY DEF RequestsInv, PromisesInBook
  <2>2. now \in Nat /\ p.until \in Nat /\ r.until \in Nat
    BY <2>1 DEF RequestsInv, RequestsTyped, Orderly, Sane
  <2> QED
    BY <2>1, <2>2 DEF IsKeepAt
<1> QED
  BY <1>1, BookStaysOrderly, PTL

(* A cycle forces out only cards whose removal an admin approved and did    *)
(* not take back, and none that a confirmed keep holds (requests.rs:280,    *)
(* household.rs `prepare`).                                                 *)
THEOREM ForcedIsApprovedHolds == RequestsSpec => ForcedIsApproved
<1>1. RequestsInv /\ RequestsInv' /\ [RequestsNext]_requestVars
        => [Gather => /\ cycle'.forced \subseteq approved
                      /\ \A p \in promised : now < p.until => p.card \notin cycle'.forced]_requestVars
  <2> SUFFICES ASSUME RequestsInv, Gather
               PROVE  /\ cycle'.forced \subseteq approved
                      /\ \A p \in promised : now < p.until => p.card \notin cycle'.forced
    OBVIOUS
  <2> DEFINE b == IF settings.enabled THEN book ELSE {}
  <2>1. cycle'.forced = Rules(b, now)
    BY DEF Gather
  <2>2. cycle'.forced \subseteq approved
    BY <2>1 DEF Rules, RequestsInv, ApprovalsGiven
  <2>3. ASSUME NEW p \in promised, now < p.until, p.card \in cycle'.forced PROVE FALSE
    <3>1. b = book
      BY <2>1, <2>3 DEF Rules
    <3>2. PICK r \in book : r.id = p.id /\ r.card = p.card /\ r.kind = "keep" /\ r.status = "active" /\ r.until >= p.until
      BY <2>3 DEF RequestsInv, PromisesInBook
    <3>3. now \in Nat /\ p.until \in Nat /\ r.until \in Nat
      BY <3>2 DEF RequestsInv, RequestsTyped, Orderly, Sane
    <3>4. IsKeepAt(r, now)
      BY <2>3, <3>2, <3>3 DEF IsKeepAt
    <3> HIDE DEF b
    <3> QED
      BY <2>1, <2>3, <3>1, <3>2, <3>4 DEF Rules, Pins
  <2> QED
    BY <2>2, <2>3
<1> QED
  BY <1>1, BookStaysOrderly, PTL DEF RequestsSpec, ForcedIsApproved

-----------------------------------------------------------------------------
(* A link makes one request, as long as the book remembers it: what is       *)
(* known of a token that made one is what the book says of its request, or   *)
(* that this was settled ResolvedTtl ago or earlier.                         *)
Forgettable(s) == s.ended # None /\ now - s.ended >= ResolvedTtl
SpentInv == \A s \in spent : (\E r \in book : r.id = s.link /\ EndOf(r) = s.ended) \/ Forgettable(s)

(* What a writer at t drops from the book was settled long ago: what it      *)
(* settles itself it keeps.                                                  *)
LEMMA ForgottenIsOld ==
  ASSUME NEW r \in Request, NEW t \in Nat, t <= now, now \in Nat, Sane(r, now), NEW q \in Request,
         q = r \/ \E present : q = Settled(r, present, t), Stale(Lapsed(q, t), t)
  PROVE  EndOf(r) # None /\ now - EndOf(r) >= ResolvedTtl
<1> DEFINE o == Lapsed(q, t)
<1>1. t - (IF o.decided = None THEN o.at ELSE o.decided) >= ResolvedTtl /\ Resolved(o)
  BY DEF Stale
<1>2. q = r
  <2> SUFFICES ASSUME q # r PROVE FALSE
    OBVIOUS
  <2>1. q = [r EXCEPT !.status = "cancelled", !.decided = t]
    BY DEF Settled
  <2>2. q.status = "cancelled" /\ q.decided = t
    BY <2>1 DEF Request
  <2>3. o = q /\ t # None
    BY <2>2, RequestAssumption DEF Lapsed
  <2> QED
    BY <1>1, <2>2, <2>3, RequestAssumption
<1>3. EndOf(r) = IF o.decided = None THEN o.at ELSE o.decided
  <2>1. CASE r.kind = "keep" /\ r.status = "active" /\ ~IsKeepAt(r, t)
    <3>1. o = [r EXCEPT !.status = "expired", !.decided = r.until]
      BY <1>2, <2>1 DEF Lapsed
    <3>2. o.decided = r.until /\ o.at = r.at
      BY <3>1 DEF Request
    <3>3. r.until # None
      BY <2>1, RequestAssumption DEF Sane
    <3> QED
      BY <2>1, <3>2, <3>3 DEF EndOf, Resolved
  <2>2. CASE ~(r.kind = "keep" /\ r.status = "active" /\ ~IsKeepAt(r, t))
    BY <1>1, <1>2, <2>2 DEF Lapsed, EndOf, Resolved
  <2> QED
    BY <2>1, <2>2
<1>5. o.at = r.at
  BY <1>2 DEF Lapsed, Request
<1> HIDE DEF o
<1>4. EndOf(r) \in Nat
  BY <1>1, <1>3, <1>5, EndTyped, RequestAssumption DEF Request
<1> QED
  BY <1>1, <1>3, <1>4, RequestAssumption

LEMMA SpentStepHolds ==
  ASSUME RequestsInv, SpentInv, [RequestsNext]_requestVars
  PROVE  SpentInv'
<1>1. /\ now \in Nat /\ Orderly(book, now) /\ handler \in [Handler -> Work]
      /\ spent \subseteq [link : Token, ended : Nat \cup {None}]
  BY DEF RequestsInv, RequestsTyped
<1>2. CASE UNCHANGED <<now, book, spent>>
  BY <1>2 DEF SpentInv, Forgettable
<1>3. ASSUME NEW h \in Handler, Write(h)
      PROVE  SpentInv'
  <2> DEFINE w == handler[h]
  <2>1. w.at = "holding" /\ now' = now
        /\ spent' = {s \in spent : \A q \in book' : q.id # s.link} \cup {[link |-> q.id, ended |-> EndOf(q)] : q \in book'}
    BY <1>3 DEF Write
  <2>2. w.since \in Nat /\ w.since <= now /\ now <= w.since + Patience
    BY <1>1, <2>1 DEF RequestsInv, Underway, Work
  <2>3. ASSUME NEW r \in book, \A q \in book' : q.id # r.id
        PROVE  EndOf(r) # None /\ now - EndOf(r) >= ResolvedTtl
    <3>1. r \in Request
      BY <1>1 DEF Orderly
    <3>2. CASE w.answer.outcome = "new"
      <4> DEFINE f == ForgetGone(book, w.present, w.since)
                 pruned == Prune(f, w.since)
                 q == Settled(r, w.present, w.since)
      <4>1. book' = pruned \cup {NewRequest(w.link, w.conf, w.since)}
        <5>1. w.answer.book = pruned \cup {NewRequest(w.link, w.conf, w.since)}
          BY <2>1, <3>2, NewFacts
        <5> QED
          BY <1>3, <3>2, <5>1 DEF Write
      <4>2. q \in f
        BY DEF ForgetGone
      <4> HIDE DEF w
      <4>3. Sane(r, now)
        BY <1>1 DEF Orderly
      <4>4. q \in Request /\ q.id = r.id /\ Sane(q, now)
        BY <1>1, <2>2, <3>1, <4>3, SettledFacts
      <4>5. Lapsed(q, w.since).id = q.id
        BY <1>1, <2>2, <4>4, LapsedFacts
      <4> HIDE DEF f, q
      <4>6. Lapsed(q, w.since) \notin pruned
        BY <2>3, <4>1, <4>4, <4>5
      <4>7. Stale(Lapsed(q, w.since), w.since)
        BY <4>2, <4>6 DEF Prune
      <4>8. \E present : q = Settled(r, present, w.since)
        BY DEF q
      <4> QED
        BY <1>1, <2>2, <3>1, <4>3, <4>4, <4>7, <4>8, ForgottenIsOld
    <3>3. CASE w.answer.outcome = "decided"
      <4> DEFINE pruned == Prune(book, w.since)
      <4>1. PICK d \in pruned :
              /\ w.answer.book = (pruned \ {q \in pruned : q.id = d.id}) \cup {w.answer.request}
              /\ w.answer.request.id = d.id
        BY <2>1, <3>3, DecidedFacts
      <4>2. book' = (pruned \ {q \in pruned : q.id = d.id}) \cup {w.answer.request}
        BY <1>3, <3>3, <4>1 DEF Write
      <4> HIDE DEF w
      <4>3. Lapsed(r, w.since).id = r.id
        BY <1>1, <2>2, <3>1, LapsedFacts DEF Orderly
      <4>4. Lapsed(r, w.since) \notin pruned
        BY <2>3, <4>1, <4>2, <4>3
      <4>5. Stale(Lapsed(r, w.since), w.since)
        BY <4>4 DEF Prune
      <4> QED
        BY <1>1, <2>2, <3>1, <4>5, ForgottenIsOld DEF Orderly
    <3>4. CASE w.answer.outcome \notin {"new", "decided"}
      BY <1>3, <2>3, <3>4 DEF Write
    <3> QED
      BY <3>2, <3>3, <3>4
  <2> SUFFICES ASSUME NEW s \in spent'
               PROVE  (\E r \in book' : r.id = s.link /\ EndOf(r) = s.ended) \/ Forgettable(s)'
    BY DEF SpentInv
  <2>4. CASE \E q \in book' : s = [link |-> q.id, ended |-> EndOf(q)]
    BY <2>4
  <2>5. CASE s \in spent /\ \A q \in book' : q.id # s.link
    BY <2>1, <2>3, <2>5 DEF SpentInv, Forgettable
  <2> QED
    BY <2>1, <2>4, <2>5
<1>4. CASE LoseBook
  BY <1>4 DEF LoseBook, SpentInv
<1>5. CASE DayPasses
  <2>1. UNCHANGED <<book, spent>> /\ now' = now + 1
    BY <1>5 DEF DayPasses, history
  <2>2. \A s \in spent : Forgettable(s) => Forgettable(s)'
    <3> SUFFICES ASSUME NEW s \in spent, s.ended # None, now - s.ended >= ResolvedTtl
                 PROVE  (now + 1) - s.ended >= ResolvedTtl
      BY <2>1 DEF Forgettable
    <3>1. s.ended \in Nat
      BY <1>1
    <3> QED
      BY <1>1, <3>1, RequestAssumption
  <2> QED
    BY <2>1, <2>2 DEF SpentInv
<1>6. \/ \E h \in Handler : Write(h)
      \/ LoseBook \/ DayPasses \/ UNCHANGED <<now, book, spent>>
  BY DEF RequestsNext, Check, AskDecision, ReadBook, NotSaved, Gather, ChangeSettings, ComeOrGo, RestartWeb,
         history, requestVars
<1> QED
  BY <1>2, <1>3, <1>4, <1>5, <1>6

(* A link makes no second request before the book may have forgotten its    *)
(* first, ResolvedTtl after that was settled, however long links live and   *)
(* whatever handlers race (link.rs:9-11, :142-143, requests.rs:245-258).    *)
THEOREM SpentOnceHolds == RequestsSpec => SpentOnce
<1>1. RequestsInit => SpentInv
  BY DEF RequestsInit, SpentInv
<1>2. RequestsInv /\ SpentInv /\ [RequestsNext]_requestVars => SpentInv'
  BY SpentStepHolds
<1>3. RequestsInv /\ SpentInv
        => (\A h \in Handler : Write(h) /\ handler[h].answer.outcome = "new" =>
              \A s \in spent : s.link = handler[h].link => s.ended # None /\ now - s.ended >= ResolvedTtl)
  <2> SUFFICES ASSUME RequestsInv, SpentInv, NEW h \in Handler, handler[h].at = "holding",
                      handler[h].answer.outcome = "new", NEW s \in spent, s.link = handler[h].link
               PROVE  s.ended # None /\ now - s.ended >= ResolvedTtl
    BY DEF Write
  <2> DEFINE w == handler[h]
             f == ForgetGone(book, w.present, w.since)
  <2>1. \A q \in f : q.id # w.link
    BY NewFacts
  <2>2. w.since \in Nat /\ now \in Nat /\ w.since <= now /\ now <= w.since + Patience /\ Orderly(book, now)
    BY DEF RequestsInv, RequestsTyped, Underway, Work
  <2>3. \A r \in book : \E q \in f : q.id = r.id
    <3> HIDE DEF w
    <3> QED
      BY <2>2, ForgetFacts
  <2>4. \A r \in book : r.id # s.link
    BY <2>1, <2>3
  <2> QED
    BY <2>4 DEF SpentInv, Forgettable
<1>4. RequestsInv /\ SpentInv /\ [RequestsNext]_requestVars
        => [\A h \in Handler : Write(h) /\ handler[h].answer.outcome = "new" =>
              \A s \in spent : s.link = handler[h].link => s.ended # None /\ now - s.ended >= ResolvedTtl]_requestVars
  BY <1>3
<1> QED
  BY <1>1, <1>2, <1>4, BookStaysOrderly, PTL DEF RequestsSpec, SpentOnce

-----------------------------------------------------------------------------
OneStreak == [runs : Nat, since : Int]
StreakFile == UNION {[S -> OneStreak] : S \in SUBSET Title}
Run == [at : Int, named : SUBSET Title]

Dropped(seen) == SubSeq(seen, 1, Len(seen) - 1)
Moves == [at : {"idle", "sending"}, due : SUBSET Title, streaks : StreakFile, named : SUBSET Title, sent : SUBSET Title]

(* A title's streak is as many of the last runs, each of which named it.     *)
Tracks(streaks, seen) ==
  \A t \in DOMAIN streaks :
    LET first == Len(seen) - streaks[t].runs + 1 IN
    /\ first \in 1..Len(seen)
    /\ \A k \in first..Len(seen) : t \in seen[k].named
    /\ seen[first].at = streaks[t].since

GraceTypes ==
  /\ graceClock \in Int /\ graceRuns \in Nat
  /\ leaving \in StreakFile /\ moving \in StreakFile
  /\ leavingLog \in Seq(Run) /\ movingLog \in Seq(Run)
  /\ mover \in Moves

(* While moves are made the file is one run behind, and what was sent has no *)
(* streak any more.                                                         *)
MoverFits ==
  IF mover.at = "idle" THEN Tracks(moving, movingLog)
  ELSE /\ movingLog # <<>> /\ Tracks(moving, Dropped(movingLog)) /\ Tracks(mover.streaks, movingLog)
       /\ DOMAIN mover.streaks \cap mover.sent = {}

GraceInv == GraceTypes /\ Tracks(leaving, leavingLog) /\ MoverFits

LEMMA SeqIsFunction ==
  ASSUME NEW S, NEW n \in Nat, NEW seq \in [1..n -> S]
  PROVE  seq \in Seq(S) /\ Len(seq) = n
OBVIOUS

LEMMA MoreType ==
  ASSUME NEW S, NEW seen \in Seq(S), NEW run \in S
  PROVE  /\ Append(seen, run) \in Seq(S) /\ Append(seen, run) # <<>>
         /\ Len(Append(seen, run)) = Len(seen) + 1 /\ Len(seen) \in Nat
         /\ \A k \in 1..Len(seen) : Append(seen, run)[k] = seen[k]
         /\ Append(seen, run)[Len(seen) + 1] = run
         /\ Dropped(Append(seen, run)) = seen
<1>1. /\ Append(seen, run) \in Seq(S) /\ Append(seen, run) # <<>>
      /\ Len(Append(seen, run)) = Len(seen) + 1 /\ Len(seen) \in Nat
      /\ \A k \in 1..Len(seen) : Append(seen, run)[k] = seen[k]
  OBVIOUS
<1>2. Append(seen, run)[Len(seen) + 1] = run
  OBVIOUS
<1>3. SubSeq(Append(seen, run), 1, Len(seen)) = seen
  OBVIOUS
<1>4. Len(Append(seen, run)) - 1 = Len(seen)
  BY <1>1
<1> QED BY <1>1, <1>2, <1>3, <1>4 DEF Dropped

(* A run's own plan is the last of its log. *)
LEMMA LastOfMore ==
  ASSUME NEW seen \in Seq(Run), NEW named \in SUBSET Title, NEW at \in Int
  PROVE  LET more == Append(seen, [at |-> at, named |-> named]) IN more[Len(more)].at = at /\ more[Len(more)].named = named
<1> DEFINE run == [at |-> at, named |-> named]
           more == Append(seen, run)
<1>1. more[Len(more)] = run
  BY DEF Run
<1> QED BY <1>1

(* One more run, with its plan.                                             *)
LEMMA AdvancedTracks ==
  ASSUME NEW streaks \in StreakFile, NEW seen \in Seq(Run), Tracks(streaks, seen),
         NEW named \in SUBSET Title, NEW at \in Int
  PROVE  /\ Advanced(streaks, named, at) \in StreakFile
         /\ Append(seen, [at |-> at, named |-> named]) \in Seq(Run)
         /\ Tracks(Advanced(streaks, named, at), Append(seen, [at |-> at, named |-> named]))
<1> DEFINE more == Append(seen, [at |-> at, named |-> named])
           next == Advanced(streaks, named, at)
<1>0. more[Len(more)].at = at /\ more[Len(more)].named = named
  BY LastOfMore
<1>1. more \in Seq(Run) /\ Len(more) = Len(seen) + 1 /\ Len(seen) \in Nat
      /\ \A k \in 1..Len(seen) : more[k] = seen[k]
  <2>1. [at |-> at, named |-> named] \in Run
    BY DEF Run
  <2> QED BY <2>1, MoreType
<1>2. \A t \in named : t \in DOMAIN streaks => streaks[t] \in OneStreak
  BY DEF StreakFile
<1>3. next = [t \in named |-> IF t \in DOMAIN streaks THEN [streaks[t] EXCEPT !.runs = @ + 1] ELSE [runs |-> 1, since |-> at]]
  BY DEF Advanced
<1>4. \A t \in named : next[t] \in OneStreak
  BY <1>2, <1>3 DEF OneStreak
<1>5. next \in [named -> OneStreak]
  BY <1>3, <1>4
<1>6. next \in StreakFile
  BY <1>5 DEF StreakFile
<1> HIDE DEF more, next
<1>7. ASSUME NEW t \in named
      PROVE  LET first == Len(more) - next[t].runs + 1 IN
             /\ first \in 1..Len(more)
             /\ \A k \in first..Len(more) : t \in more[k].named
             /\ more[first].at = next[t].since
  <2>1. CASE t \in DOMAIN streaks
    <3> DEFINE first == Len(seen) - streaks[t].runs + 1
    <3>1. first \in 1..Len(seen) /\ (\A k \in first..Len(seen) : t \in seen[k].named) /\ seen[first].at = streaks[t].since
      BY <2>1 DEF Tracks
    <3>2. next[t].runs = streaks[t].runs + 1 /\ next[t].since = streaks[t].since /\ streaks[t].runs \in Nat
      BY <1>2, <1>3, <2>1 DEF OneStreak
    <3>3. Len(more) - next[t].runs + 1 = first
      BY <1>1, <3>2
    <3>4. \A k \in first..Len(more) : t \in more[k].named
      BY <1>0, <1>1, <3>1
    <3> QED BY <1>1, <3>1, <3>2, <3>3, <3>4
  <2>2. CASE t \notin DOMAIN streaks
    <3>1. next[t].runs = 1 /\ next[t].since = at
      BY <1>3, <2>2
    <3>3. Len(more) - next[t].runs + 1 = Len(more)
      BY <1>1, <3>1
    <3>4. \A k \in Len(more)..Len(more) : k = Len(more)
      BY <1>1
    <3> QED BY <1>0, <1>1, <3>1, <3>3, <3>4
  <2> QED BY <2>1, <2>2
<1> QED BY <1>1, <1>3, <1>6, <1>7 DEF Tracks, more, next

LEMMA NoStreaksTrack ==
  ASSUME NEW seen
  PROVE  NoStreaks \in StreakFile /\ Tracks(NoStreaks, seen)
<1>1. NoStreaks \in [{} -> OneStreak]
  BY DEF NoStreaks
<1> QED BY <1>1 DEF StreakFile, Tracks

LEMMA GraceStarts == GraceInit => GraceInv
<1> SUFFICES ASSUME GraceInit PROVE GraceInv
  OBVIOUS
<1>1. <<>> \in Seq(Run)
  OBVIOUS
<1>2. graceRuns \in Nat
  BY GraceAssumption DEF GraceInit
<1> QED BY <1>1, <1>2, NoStreaksTrack DEF GraceInit, GraceInv, GraceTypes, MoverFits, NoMoves, Moves

(* A plan for what leaves. *)
LEMMA ReleaseKeeps ==
  ASSUME GraceInv, NEW named \in SUBSET Title, NEW acting \in BOOLEAN, NEW written \in BOOLEAN,
         Release(named, acting, written)
  PROVE  GraceInv'
<1> DEFINE streaks == Advanced(leaving, named, graceClock)
           more == Append(leavingLog, [at |-> graceClock, named |-> named])
<1>1. /\ UNCHANGED <<graceClock, graceRuns, moving, mover, movingLog>>
      /\ \/ UNCHANGED <<leaving, leavingLog>>
         \/ /\ leaving' = streaks
            /\ leavingLog' = more
  BY DEF Release
<1>2. streaks \in StreakFile /\ more \in Seq(Run) /\ Tracks(streaks, more)
  BY AdvancedTracks DEF GraceInv, GraceTypes
<1> HIDE DEF streaks, more
<1>3. leaving' \in StreakFile /\ leavingLog' \in Seq(Run) /\ Tracks(leaving', leavingLog')
  BY <1>1, <1>2 DEF GraceInv, GraceTypes
<1> QED BY <1>1, <1>3 DEF GraceInv, GraceTypes, MoverFits

(* A plan for what moves. *)
LEMMA PlanMovesKeeps ==
  ASSUME GraceInv, NEW named \in SUBSET Title, PlanMoves(named)
  PROVE  GraceInv'
<1> DEFINE streaks == Advanced(moving, named, graceClock)
           more == Append(movingLog, [at |-> graceClock, named |-> named])
<1>1. /\ UNCHANGED <<graceClock, graceRuns, leaving, moving, leavingLog>> /\ mover.at = "idle"
      /\ movingLog' = more
      /\ \E due : mover' = [at |-> "sending", due |-> due, streaks |-> streaks, named |-> named, sent |-> {}]
      /\ mover'.at = "sending" /\ mover'.streaks = streaks /\ mover'.sent = {}
      /\ mover'.due \subseteq Ripe(streaks, graceRuns, graceClock)
  BY DEF PlanMoves, NoMoves
<1>2. streaks \in StreakFile /\ more \in Seq(Run) /\ Tracks(streaks, more)
  BY <1>1, AdvancedTracks DEF GraceInv, GraceTypes, MoverFits
<1>3. more # <<>> /\ Dropped(more) = movingLog
  <2>1. [at |-> graceClock, named |-> named] \in Run /\ movingLog \in Seq(Run)
    BY DEF GraceInv, GraceTypes, Run
  <2> QED BY <2>1, MoreType
<1>4. mover'.due \subseteq Title
  BY <1>1 DEF Ripe, Advanced
<1>5. mover' \in Moves
  BY <1>1, <1>2, <1>4 DEF Moves
<1> HIDE DEF streaks, more
<1> QED BY <1>1, <1>2, <1>3, <1>5 DEF GraceInv, GraceTypes, MoverFits

(* A move is made: what was sent has no streak any more. *)
LEMMA SendMoveKeeps ==
  ASSUME GraceInv, NEW t \in Title, NEW accepted \in BOOLEAN, SendMove(t, accepted)
  PROVE  GraceInv'
<1>1. /\ UNCHANGED <<graceClock, graceRuns, leaving, moving, leavingLog, movingLog>>
      /\ mover.at = "sending"
      /\ mover' = [mover EXCEPT
           !.due = @ \ {t},
           !.sent = IF accepted THEN @ \cup {t} ELSE @,
           !.streaks = IF accepted THEN Restrict(@, DOMAIN @ \ {t}) ELSE @]
  BY DEF SendMove
<1>2. mover \in Moves
  BY DEF GraceInv, GraceTypes
<1>3. CASE ~accepted
  <2>1. mover' = [mover EXCEPT !.due = @ \ {t}]
    BY <1>1, <1>2, <1>3
  <2>2. mover'.at = "sending" /\ mover'.sent = mover.sent /\ mover'.streaks = mover.streaks
        /\ mover' \in Moves
    BY <1>1, <1>2, <2>1 DEF Moves
  <2> QED BY <1>1, <2>2 DEF GraceInv, GraceTypes, MoverFits, Tracks
<1>4. CASE accepted
  <2> DEFINE less == Restrict(mover.streaks, DOMAIN mover.streaks \ {t})
  <2>1. PICK S \in SUBSET Title : mover.streaks \in [S -> OneStreak]
    BY <1>2 DEF StreakFile, Moves
  <2>2. less \in [S \ {t} -> OneStreak] /\ \A u \in S \ {t} : less[u] = mover.streaks[u]
    BY <2>1 DEF Restrict
  <2>3. less \in StreakFile
    BY <2>2 DEF StreakFile
  <2> HIDE DEF less
  <2>4. mover' = [mover EXCEPT !.due = @ \ {t}, !.sent = @ \cup {t}, !.streaks = less]
    BY <1>1, <1>2, <1>4 DEF less, Moves
  <2>5. /\ mover'.at = "sending" /\ mover'.sent = mover.sent \cup {t} /\ mover'.streaks = less
        /\ mover' = [at |-> mover.at, due |-> mover.due \ {t}, streaks |-> less, named |-> mover.named, sent |-> mover.sent \cup {t}]
    BY <1>1, <1>2, <2>4 DEF Moves
  <2>10. mover' \in Moves
    BY <1>2, <2>3, <2>5 DEF Moves
  <2>6. Tracks(mover.streaks, movingLog) /\ DOMAIN mover.streaks \cap mover.sent = {}
    BY <1>1 DEF GraceInv, MoverFits
  <2>7. Tracks(less, movingLog)
    BY <2>1, <2>2, <2>6 DEF Tracks
  <2>8. DOMAIN less \cap (mover.sent \cup {t}) = {}
    BY <2>1, <2>2, <2>6
  <2>9. movingLog # <<>> /\ Tracks(moving, Dropped(movingLog))
    BY <1>1 DEF GraceInv, MoverFits
  <2> QED BY <1>1, <2>5, <2>7, <2>8, <2>9, <2>10 DEF GraceInv, GraceTypes, MoverFits
<1> QED BY <1>3, <1>4

(* A log whose last run named less keeps the streaks of what it still names. *)
LEMMA NamedLessTracks ==
  ASSUME NEW streaks, NEW seen \in Seq(Run), seen # <<>>, NEW moved, Tracks(streaks, seen),
         DOMAIN streaks \cap moved = {}
  PROVE  LET less == [seen EXCEPT ![Len(seen)].named = @ \ moved]
         IN  less \in Seq(Run) /\ Tracks(streaks, less)
<1> DEFINE less == [seen EXCEPT ![Len(seen)].named = @ \ moved]
<1>1. Len(seen) \in 1..Len(seen) /\ DOMAIN seen = 1..Len(seen) /\ \A k \in 1..Len(seen) : seen[k] \in Run
  OBVIOUS
<1>2. less = [k \in 1..Len(seen) |-> IF k = Len(seen) THEN [seen[k] EXCEPT !.named = @ \ moved] ELSE seen[k]]
  BY <1>1
<1>3. \A k \in 1..Len(seen) : less[k] \in Run /\ less[k].at = seen[k].at
                               /\ \A t \in seen[k].named \ moved : t \in less[k].named
  BY <1>1, <1>2 DEF Run
<1>4. less \in Seq(Run) /\ Len(less) = Len(seen)
  <2>1. less \in [1..Len(seen) -> Run]
    BY <1>2, <1>3
  <2> HIDE DEF less
  <2>2. Len(seen) \in Nat
    OBVIOUS
  <2> QED BY <2>1, <2>2, SeqIsFunction
<1> HIDE DEF less
<1>5. Tracks(streaks, less)
  BY <1>3, <1>4 DEF Tracks
<1> QED BY <1>4, <1>5 DEF less

LEMMA DroppedType ==
  ASSUME NEW seen \in Seq(Run), seen # <<>>
  PROVE  Dropped(seen) \in Seq(Run)
BY DEF Dropped

(* The file is written, or is not. *)
LEMMA SaveMovesKeeps ==
  ASSUME GraceInv, NEW written \in BOOLEAN, SaveMoves(written)
  PROVE  GraceInv'
<1>1. /\ UNCHANGED <<graceClock, graceRuns, leaving, leavingLog>> /\ mover' = NoMoves /\ mover.at = "sending"
      /\ moving' = IF written THEN mover.streaks ELSE moving
      /\ movingLog' = IF written THEN [movingLog EXCEPT ![Len(movingLog)].named = @ \ mover.sent] ELSE Dropped(movingLog)
  BY DEF SaveMoves, Dropped
<1>2. /\ movingLog # <<>> /\ movingLog \in Seq(Run) /\ mover.streaks \in StreakFile /\ moving \in StreakFile
      /\ Tracks(moving, Dropped(movingLog)) /\ Tracks(mover.streaks, movingLog)
      /\ DOMAIN mover.streaks \cap mover.sent = {}
  BY <1>1 DEF GraceInv, GraceTypes, MoverFits, Moves
<1>3. moving' \in StreakFile /\ movingLog' \in Seq(Run) /\ Tracks(moving', movingLog')
  <2>1. CASE written
    BY <1>1, <1>2, <2>1, NamedLessTracks
  <2>2. CASE ~written
    BY <1>1, <1>2, <2>2, DroppedType
  <2> QED BY <2>1, <2>2
<1>4. NoMoves \in Moves
      /\ NoMoves.at = "idle"
  BY NoStreaksTrack DEF NoMoves, Moves
<1> QED BY <1>1, <1>3, <1>4 DEF GraceInv, GraceTypes, MoverFits

LEMMA StopMovingKeeps ==
  ASSUME GraceInv, StopMoving
  PROVE  GraceInv'
<1>1. /\ UNCHANGED <<graceClock, graceRuns, leaving, moving, leavingLog>> /\ mover' = NoMoves /\ mover.at = "sending"
      /\ movingLog' = Dropped(movingLog)
  BY DEF StopMoving, Dropped
<1>2. movingLog # <<>> /\ movingLog \in Seq(Run) /\ Tracks(moving, Dropped(movingLog))
  BY <1>1 DEF GraceInv, GraceTypes, MoverFits
<1>3. movingLog' \in Seq(Run) /\ Tracks(moving', movingLog')
  BY <1>1, <1>2, DroppedType
<1>4. NoMoves \in Moves
      /\ NoMoves.at = "idle"
  BY NoStreaksTrack DEF NoMoves, Moves
<1> QED BY <1>1, <1>3, <1>4 DEF GraceInv, GraceTypes, MoverFits

LEMMA TheRestKeep ==
  ASSUME GraceInv, LoseStreaks \/ SetGrace \/ GraceClockMoves \/ UNCHANGED graceVars
  PROVE  GraceInv'
<1>1. CASE LoseStreaks
  <2>1. <<>> \in Seq(Run)
    OBVIOUS
  <2>2. /\ UNCHANGED <<graceClock, graceRuns, mover>> /\ mover.at = "idle"
        /\ leaving' = NoStreaks /\ moving' = NoStreaks /\ leavingLog' = <<>> /\ movingLog' = <<>>
    BY <1>1 DEF LoseStreaks
  <2> QED BY <2>1, <2>2, NoStreaksTrack DEF GraceInv, GraceTypes, MoverFits
<1>2. CASE SetGrace
  BY <1>2, GraceAssumption DEF SetGrace, GraceInv, GraceTypes, MoverFits
<1>3. CASE GraceClockMoves
  <2>1. graceClock' \in Int
    BY <1>3 DEF GraceClockMoves, GraceInv, GraceTypes
  <2> QED BY <1>3, <2>1 DEF GraceClockMoves, GraceInv, GraceTypes, MoverFits
<1>4. CASE UNCHANGED graceVars
  BY <1>4 DEF graceVars, GraceInv, GraceTypes, MoverFits
<1> QED BY <1>1, <1>2, <1>3, <1>4

LEMMA GraceInvStep == GraceInv /\ [GraceNext]_graceVars => GraceInv'
<1> SUFFICES ASSUME GraceInv, [GraceNext]_graceVars PROVE GraceInv'
  OBVIOUS
<1>1. ASSUME NEW named \in SUBSET Title, NEW acting \in BOOLEAN, NEW written \in BOOLEAN, Release(named, acting, written)
      PROVE  GraceInv'
  BY <1>1, ReleaseKeeps
<1>2. ASSUME NEW named \in SUBSET Title, PlanMoves(named) PROVE GraceInv'
  BY <1>2, PlanMovesKeeps
<1>3. ASSUME NEW ok \in BOOLEAN, NEW t \in Title, SendMove(t, ok) PROVE GraceInv'
  BY <1>3, SendMoveKeeps
<1>4. ASSUME NEW ok \in BOOLEAN, SaveMoves(ok) PROVE GraceInv'
  BY <1>4, SaveMovesKeeps
<1>5. CASE StopMoving
  BY <1>5, StopMovingKeeps
<1>6. CASE LoseStreaks \/ SetGrace \/ GraceClockMoves \/ UNCHANGED graceVars
  BY <1>6, TheRestKeep
<1> QED BY <1>1, <1>2, <1>3, <1>4, <1>5, <1>6 DEF GraceNext

(* What is ripe by the streak file was named without a gap, and long enough. *)
LEMMA RipeIsEarned ==
  ASSUME GraceInv, NEW streaks \in StreakFile, NEW seen \in Seq(Run), Tracks(streaks, seen),
         seen # <<>> => seen[Len(seen)].at = graceClock,
         NEW t \in Ripe(streaks, graceRuns, graceClock)
  PROVE  Earned(seen, t)
<1> DEFINE asked == AtLeastOne(graceRuns)
           first == Len(seen) - streaks[t].runs + 1
<1>1. graceRuns \in Nat /\ graceClock \in Int /\ Interval \in Nat /\ Interval > 0
  BY GraceAssumption DEF GraceInv, GraceTypes
<1>2. t \in DOMAIN streaks /\ streaks[t].runs >= asked /\ Elapsed(graceClock, streaks[t].since) >= (asked - 1) * Interval
  BY DEF Ripe, MinAge
<1>3. asked \in Nat /\ asked >= 1
  BY <1>1 DEF AtLeastOne
<1>4. streaks[t] \in OneStreak
  BY <1>2 DEF StreakFile
<1>5. first \in 1..Len(seen) /\ (\A k \in first..Len(seen) : t \in seen[k].named) /\ seen[first].at = streaks[t].since
  BY <1>2 DEF Tracks
<1>6. streaks[t].runs \in Nat /\ streaks[t].since \in Int
  BY <1>4 DEF OneStreak
<1>7. Len(seen) - first + 1 = streaks[t].runs
  BY <1>6
<1> HIDE DEF asked, first
<1>8. CASE graceClock >= streaks[t].since
  <2>1. graceClock - seen[first].at >= (asked - 1) * Interval
    BY <1>1, <1>2, <1>5, <1>6, <1>8 DEF Elapsed
  <2>2. first \in DOMAIN seen /\ Len(seen) - first + 1 >= asked
    BY <1>2, <1>5, <1>7
  <2> QED BY <1>5, <2>1, <2>2 DEF Earned, MinAge, asked
<1>9. CASE graceClock < streaks[t].since
  <2>1. 0 >= (asked - 1) * Interval
    BY <1>2, <1>9 DEF Elapsed
  <2>2. asked = 1
    <3>1. ASSUME asked > 1 PROVE FALSE
      <4>1. PICK more \in Nat : asked - 1 = more + 1
        <5>1. asked - 2 \in Nat /\ asked - 1 = (asked - 2) + 1
          BY <1>3, <3>1
        <5> QED BY <5>1
      <4>2. more * Interval \in Nat /\ (more + 1) * Interval = more * Interval + Interval
        BY <1>1
      <4> QED BY <1>1, <2>1, <4>1, <4>2
    <3> QED BY <1>3, <3>1
  <2>3. Len(seen) \in 1..Len(seen) /\ DOMAIN seen = 1..Len(seen) /\ Len(seen) \in first..Len(seen)
    BY <1>5
  <2>4. t \in seen[Len(seen)].named /\ seen[Len(seen)].at = graceClock
    BY <1>5, <2>3
  <2>5. /\ \A k \in Len(seen)..Len(seen) : t \in seen[k].named
        /\ Len(seen) - Len(seen) + 1 >= asked
        /\ graceClock - seen[Len(seen)].at >= (asked - 1) * Interval
    BY <1>1, <2>2, <2>3, <2>4
  <2> QED BY <2>3, <2>5 DEF Earned, MinAge, asked
<1> QED BY <1>1, <1>6, <1>8, <1>9

(* Both streak files are what the runs they took note of make them. *)
THEOREM GraceInvHolds == GraceSpec => []GraceInv
<1> QED BY GraceStarts, GraceInvStep, PTL DEF GraceSpec

LEMMA StepEarns ==
  ASSUME GraceInv, [GraceNext]_graceVars
  PROVE  /\ released' # released => \A t \in released' : Earned(leavingLog', t)
         /\ mover.at = "idle" /\ mover'.at = "sending" => \A t \in mover'.due : Earned(movingLog', t)
<1>1. ASSUME NEW named \in SUBSET Title, NEW acting \in BOOLEAN, NEW written \in BOOLEAN, Release(named, acting, written)
      PROVE  mover' = mover /\ \A t \in released' : Earned(leavingLog', t)
  <2> DEFINE streaks == Advanced(leaving, named, graceClock)
             more == Append(leavingLog, [at |-> graceClock, named |-> named])
  <2>1. mover' = mover /\ (released' = {} \/ (released' = Ripe(streaks, graceRuns, graceClock) /\ leavingLog' = more))
    BY <1>1 DEF Release
  <2>2. streaks \in StreakFile /\ more \in Seq(Run) /\ Tracks(streaks, more) /\ more[Len(more)].at = graceClock
    BY AdvancedTracks, LastOfMore DEF GraceInv, GraceTypes
  <2> HIDE DEF streaks, more
  <2> QED BY <2>1, <2>2, RipeIsEarned
<1>2. ASSUME NEW named \in SUBSET Title, PlanMoves(named)
      PROVE  released' = {} /\ \A t \in mover'.due : Earned(movingLog', t)
  <2> DEFINE streaks == Advanced(moving, named, graceClock)
             more == Append(movingLog, [at |-> graceClock, named |-> named])
  <2>1. released' = {} /\ mover'.due \subseteq Ripe(streaks, graceRuns, graceClock) /\ movingLog' = more /\ mover.at = "idle"
    BY <1>2 DEF PlanMoves, NoMoves
  <2>2. streaks \in StreakFile /\ more \in Seq(Run) /\ Tracks(streaks, more) /\ more[Len(more)].at = graceClock
    BY <2>1, AdvancedTracks, LastOfMore DEF GraceInv, GraceTypes, MoverFits
  <2> HIDE DEF streaks, more
  <2> QED BY <2>1, <2>2, RipeIsEarned
<1>3. ASSUME NEW ok \in BOOLEAN, NEW t \in Title, SendMove(t, ok) PROVE released' = released /\ mover.at # "idle"
  BY <1>3 DEF SendMove
<1>4. ASSUME NEW ok \in BOOLEAN, SaveMoves(ok) PROVE released' = released /\ mover.at # "idle"
  BY <1>4 DEF SaveMoves
<1>5. CASE StopMoving
  BY <1>5 DEF StopMoving
<1>6. CASE LoseStreaks \/ SetGrace \/ GraceClockMoves \/ UNCHANGED graceVars
  BY <1>6 DEF LoseStreaks, SetGrace, GraceClockMoves, graceVars
<1> QED BY <1>1, <1>2, <1>3, <1>4, <1>5, <1>6 DEF GraceNext

(* What is handed over, or due to move, was named by as many plans in a row  *)
(* as the grace asks, that took at least their normal time, for any titles,  *)
(* graces and intervals, wherever the clock goes (daemon/state.rs:328-333).  *)
THEOREM GraceIsEarnedHolds == GraceSpec => GraceIsEarned
<1>1. GraceInv /\ [GraceNext]_graceVars
      => [/\ released' # released => \A t \in released' : Earned(leavingLog', t)
          /\ mover.at = "idle" /\ mover'.at = "sending" => \A t \in mover'.due : Earned(movingLog', t)]_graceVars
  BY StepEarns
<1> QED BY <1>1, GraceInvHolds, PTL DEF GraceSpec, GraceIsEarned

-----------------------------------------------------------------------------
(* Outbox: the streaks of the problems. *)
SeenCycle == [at : Int, seen : SUBSET Problem, complete : BOOLEAN, noted : BOOLEAN]
Sightings(cycleLog, p, n) == {k \in n..Len(cycleLog) : cycleLog[k].noted /\ p \in cycleLog[k].seen}
(* The problem lasted, by the log, for so many cycles since then.            *)
Lasted(cycleLog, p, since, count) ==
  \E n \in DOMAIN cycleLog :
    /\ cycleLog[n].at = since
    /\ \A k \in n..Len(cycleLog) : cycleLog[k].noted /\ cycleLog[k].complete => p \in cycleLog[k].seen
    /\ Cardinality(Sightings(cycleLog, p, n)) >= count

LEMMA SightingsCount ==
  ASSUME NEW cycleLog \in Seq(SeenCycle), NEW p, NEW n \in Nat
  PROVE  IsFiniteSet(Sightings(cycleLog, p, n)) /\ Cardinality(Sightings(cycleLog, p, n)) \in Nat
<1>1. IsFiniteSet(n..Len(cycleLog))
  BY FS_Interval
<1>2. Sightings(cycleLog, p, n) \subseteq n..Len(cycleLog)
  BY DEF Sightings
<1> QED BY <1>1, <1>2, FS_Subset, FS_CardinalityType

LEMMA LastedGrows ==
  ASSUME NEW cycleLog \in Seq(SeenCycle), NEW run \in SeenCycle, NEW p, NEW since, NEW count \in Nat,
         Lasted(cycleLog, p, since, count), run.noted /\ run.complete => p \in run.seen
  PROVE  Lasted(Append(cycleLog, run), p, since, IF run.noted /\ p \in run.seen THEN count + 1 ELSE count)
<1> DEFINE more == Append(cycleLog, run)
<1>1. /\ more \in Seq(SeenCycle) /\ Len(more) = Len(cycleLog) + 1 /\ Len(cycleLog) \in Nat
      /\ \A k \in 1..Len(cycleLog) : more[k] = cycleLog[k]
      /\ more[Len(cycleLog) + 1] = run
  BY MoreType
<1>2. PICK n \in 1..Len(cycleLog) :
        /\ cycleLog[n].at = since
        /\ \A k \in n..Len(cycleLog) : cycleLog[k].noted /\ cycleLog[k].complete => p \in cycleLog[k].seen
        /\ Cardinality(Sightings(cycleLog, p, n)) >= count
  BY DEF Lasted
<1> HIDE DEF more
<1>3. n \in DOMAIN more /\ more[n].at = since
  BY <1>1, <1>2
<1>4. \A k \in n..Len(more) : more[k].noted /\ more[k].complete => p \in more[k].seen
  <2>1. \A k \in n..Len(more) : k \in n..Len(cycleLog) \/ k = Len(cycleLog) + 1
    BY <1>1
  <2> QED BY <1>1, <1>2, <2>1
<1>5. IsFiniteSet(Sightings(cycleLog, p, n)) /\ Cardinality(Sightings(cycleLog, p, n)) \in Nat
      /\ Len(cycleLog) + 1 \notin Sightings(cycleLog, p, n)
  <2>1. Len(cycleLog) + 1 \notin n..Len(cycleLog)
    BY <1>1
  <2>2. Len(cycleLog) + 1 \notin Sightings(cycleLog, p, n)
    BY <2>1 DEF Sightings
  <2> QED BY <2>2, SightingsCount
<1>6. CASE run.noted /\ p \in run.seen
  <2>1. Sightings(more, p, n) = Sightings(cycleLog, p, n) \cup {Len(cycleLog) + 1}
    BY <1>1, <1>6 DEF Sightings
  <2>2. Cardinality(Sightings(more, p, n)) = Cardinality(Sightings(cycleLog, p, n)) + 1
    BY <1>5, <2>1, FS_AddElement
  <2>3. Cardinality(Sightings(more, p, n)) >= count + 1
    BY <1>2, <1>5, <2>2
  <2> QED BY <1>3, <1>4, <1>6, <2>3 DEF Lasted, more
<1>7. CASE ~(run.noted /\ p \in run.seen)
  <2>1. Sightings(more, p, n) = Sightings(cycleLog, p, n)
    BY <1>1, <1>7 DEF Sightings
  <2> QED BY <1>2, <1>3, <1>4, <1>7, <2>1 DEF Lasted, more
<1> QED BY <1>6, <1>7

LEMMA LastedStarts ==
  ASSUME NEW cycleLog \in Seq(SeenCycle), NEW run \in SeenCycle, NEW p \in run.seen, run.noted
  PROVE  Lasted(Append(cycleLog, run), p, run.at, 1)
<1> DEFINE more == Append(cycleLog, run)
           n == Len(cycleLog) + 1
<1>1. Len(more) = n /\ n \in 1..Len(more) /\ DOMAIN more = 1..Len(more) /\ n \in Nat
  OBVIOUS
<1>2. more[n] = run
  BY MoreType
<1> HIDE DEF more, n
<1>3. \A k \in n..Len(more) : k = n
  BY <1>1
<1>4. n \in n..Len(more)
  BY <1>1
<1>5. Sightings(more, p, n) = {n}
  BY <1>2, <1>3, <1>4 DEF Sightings
<1>6. Cardinality(Sightings(more, p, n)) >= 1
  <2>1. Cardinality({n}) = 1
    BY FS_Singleton, Zenon
  <2> QED BY <1>5, <2>1
<1> QED BY <1>1, <1>2, <1>3, <1>6 DEF Lasted, more

LEMMA LastedLess ==
  ASSUME NEW cycleLog \in Seq(SeenCycle), NEW p, NEW since, NEW count \in Nat, NEW less \in Nat, less <= count,
         Lasted(cycleLog, p, since, count)
  PROVE  Lasted(cycleLog, p, since, less)
<1>1. PICK n \in 1..Len(cycleLog) :
        /\ cycleLog[n].at = since
        /\ \A k \in n..Len(cycleLog) : cycleLog[k].noted /\ cycleLog[k].complete => p \in cycleLog[k].seen
        /\ Cardinality(Sightings(cycleLog, p, n)) >= count
  BY DEF Lasted
<1>2. Cardinality(Sightings(cycleLog, p, n)) >= less
  BY <1>1, SightingsCount
<1>3. n \in DOMAIN cycleLog
  OBVIOUS
<1> QED BY <1>1, <1>2, <1>3 DEF Lasted

LEMMA LastedIsPersisted ==
  ASSUME NEW e
  PROVE  Persisted(e) <=> Lasted(log, e.of, e.at, PersistCycles)
BY DEF Persisted, Lasted, Sightings

ProblemStreaks == [Problem -> [since : Int, cycles : Nat]]
StreaksLast(streaks, cycleLog) ==
  \A p \in Problem : streaks[p].cycles > 0 => Lasted(cycleLog, p, streaks[p].since, streaks[p].cycles)

(* One more cycle, whose file is written. *)
LEMMA StreaksGrow ==
  ASSUME NEW streaks \in ProblemStreaks, NEW cycleLog \in Seq(SeenCycle), StreaksLast(streaks, cycleLog),
         NEW run \in SeenCycle, run.noted
  PROVE  LET next == Streaks(streaks, run.seen, run.complete, run.at)
         IN  next \in ProblemStreaks /\ StreaksLast(next, Append(cycleLog, run))
<1> DEFINE next == Streaks(streaks, run.seen, run.complete, run.at)
           more == Append(cycleLog, run)
<1>1. run.at \in Int /\ run.complete \in BOOLEAN
  BY DEF SeenCycle
<1>2. \A p \in Problem : streaks[p].since \in Int /\ streaks[p].cycles \in Nat
  BY DEF ProblemStreaks
<1>3. \A p \in Problem :
        /\ next[p].since = IF p \in run.seen THEN IF streaks[p].cycles = 0 THEN run.at ELSE streaks[p].since
                           ELSE IF run.complete THEN 0 ELSE streaks[p].since
        /\ next[p].cycles = IF p \in run.seen THEN streaks[p].cycles + 1 ELSE IF run.complete THEN 0 ELSE streaks[p].cycles
  BY <1>1 DEF Streaks, NoStreak
<1>4. next \in ProblemStreaks
  <2>1. \A p \in Problem : next[p] \in [since : Int, cycles : Nat]
    <3> SUFFICES ASSUME NEW p \in Problem PROVE next[p] \in [since : Int, cycles : Nat]
      OBVIOUS
    <3>1. streaks[p] \in [since : Int, cycles : Nat]
      BY DEF ProblemStreaks
    <3> QED BY <1>1, <1>2, <3>1 DEF Streaks, NoStreak
  <2>2. next = [p \in Problem |-> next[p]]
    BY DEF Streaks
  <2> QED BY <2>1, <2>2 DEF ProblemStreaks
<1> HIDE DEF next, more
<1>5. ASSUME NEW p \in Problem, next[p].cycles > 0
      PROVE  Lasted(more, p, next[p].since, next[p].cycles)
  <2>1. CASE p \in run.seen /\ streaks[p].cycles = 0
    BY <1>2, <1>3, <2>1, LastedStarts DEF more
  <2>2. CASE p \in run.seen /\ streaks[p].cycles > 0
    <3>1. Lasted(cycleLog, p, streaks[p].since, streaks[p].cycles)
      BY <2>2 DEF StreaksLast
    <3>2. Lasted(more, p, streaks[p].since, streaks[p].cycles + 1)
      BY <1>2, <2>2, <3>1, LastedGrows DEF more
    <3> QED BY <1>2, <1>3, <2>2, <3>2
  <2>3. CASE p \notin run.seen
    <3>1. ~run.complete /\ next[p].cycles = streaks[p].cycles /\ next[p].since = streaks[p].since
      BY <1>1, <1>3, <1>5, <2>3
    <3>2. Lasted(cycleLog, p, streaks[p].since, streaks[p].cycles)
      BY <1>5, <3>1 DEF StreaksLast
    <3>3. Lasted(more, p, streaks[p].since, streaks[p].cycles)
      BY <1>2, <2>3, <3>1, <3>2, LastedGrows DEF more
    <3> QED BY <3>1, <3>3
  <2> QED BY <1>2, <2>1, <2>2, <2>3
<1> QED BY <1>4, <1>5 DEF StreaksLast, next, more

(* One more cycle, whose file is left as it was. *)
LEMMA StreaksStay ==
  ASSUME NEW streaks \in ProblemStreaks, NEW cycleLog \in Seq(SeenCycle), StreaksLast(streaks, cycleLog),
         NEW run \in SeenCycle, ~run.noted
  PROVE  StreaksLast(streaks, Append(cycleLog, run))
<1> SUFFICES ASSUME NEW p \in Problem, streaks[p].cycles > 0
             PROVE  Lasted(Append(cycleLog, run), p, streaks[p].since, streaks[p].cycles)
  BY DEF StreaksLast
<1>1. streaks[p].cycles \in Nat
  BY DEF ProblemStreaks
<1>2. Lasted(cycleLog, p, streaks[p].since, streaks[p].cycles)
  BY DEF StreaksLast
<1> QED BY <1>1, <1>2, LastedGrows

-----------------------------------------------------------------------------
(* Outbox: what notify.json remembers, and the delivery under way. *)
IsFile(file) == file = [sent |-> file.sent, posts |-> file.posts, streaks |-> file.streaks]
IsWork(w) == w = [at |-> w.at, todo |-> w.todo, file |-> w.file, events |-> w.events,
                  personal |-> w.personal, told |-> w.told, posted |-> w.posted]
Recipients == Address \cup channels
(* What somebody got lately, and answered for, is in the file.              *)
Entry(o) == [to |-> o.to, event |-> o.event, when |-> o.when]
Covers(file, news) == \A o \in news : o.answered /\ time - o.when < SentTtl => Entry(o) \in file.sent
ProperNews(news, to) == \A o \in news : o.when \in Int /\ o.to \in to
(* Whoever did not answer is posted nothing more by this delivery.          *)
LeftOut(todo, news) == \A o \in news : ~o.answered => \A b \in todo : b.to # o.to

(* A post tells what its recipient has not had, and no two tell the same.   *)
Fresh(todo, file) ==
  /\ \A b \in todo : \A e \in b.events : ~HasHad(file, b.to, e)
  /\ \A b, o \in todo : b.to = o.to /\ b # o => b.events \cap o.events = {}

OutboxTypes ==
  /\ time \in Int /\ channels \subseteq Channel
  /\ log \in Seq(SeenCycle)
  /\ IsFile(notify) /\ notify.streaks \in ProblemStreaks
  /\ IsWork(work) /\ IsFile(work.file)

WorkFits(w, file, news) ==
  IF w.at = "idle" THEN w = NoDelivery
  ELSE /\ w.file.streaks = file.streaks
       /\ \A b \in w.todo : b.to \in Recipients /\ b.events \subseteq w.events
       /\ Fresh(w.todo, w.file)
       /\ ProperNews(w.told, Recipients)
       /\ Covers(w.file, news \cup w.told) /\ LeftOut(w.todo, w.told)

OutboxInv ==
  /\ OutboxTypes
  /\ StreaksLast(notify.streaks, log)
  /\ \A e \in work.events : e.kind = "problem" => Persisted(e)
  /\ ProperNews(told, Recipients) /\ Covers(notify, told)
  /\ WorkFits(work, notify, told)

LEMMA NoDeliveryIsIdle ==
  /\ IsWork(NoDelivery) /\ IsFile(NoDelivery.file) /\ NoDelivery.file.streaks \in ProblemStreaks
  /\ NoDelivery.at = "idle" /\ NoDelivery.todo = {} /\ NoDelivery.events = {} /\ NoDelivery.told = {}
  /\ NoDelivery.file.sent = {} /\ \A p \in Problem : NoDelivery.file.streaks[p].cycles = 0
<1>1. [p \in Problem |-> NoStreak] \in ProblemStreaks /\ \A p \in Problem : [q \in Problem |-> NoStreak][p].cycles = 0
  BY DEF NoStreak, ProblemStreaks
<1> DEFINE none == [p \in Problem |-> NoStreak]
<1> HIDE DEF none
<1>2. NoDelivery = [at |-> "idle", todo |-> {}, file |-> [sent |-> {}, posts |-> {}, streaks |-> none],
                    events |-> {}, personal |-> FALSE, told |-> {}, posted |-> {}]
  BY DEF NoDelivery, none
<1> QED BY <1>1, <1>2 DEF IsWork, IsFile, none

LEMMA OutboxStarts == OutboxInit => OutboxInv
<1> SUFFICES ASSUME OutboxInit PROVE OutboxInv
  OBVIOUS
<1>1. <<>> \in Seq(SeenCycle)
  OBVIOUS
<1> QED BY <1>1, NoDeliveryIsIdle
        DEF OutboxInit, OutboxInv, OutboxTypes, WorkFits, StreaksLast, ProperNews, Covers

(* The bundles to one recipient, and to all. *)
LEMMA BundlesFresh ==
  ASSUME NEW file, NEW to, NEW events, NEW wanted
  PROVE  /\ \A b \in Bundles(file, to, events, wanted) :
              b.to = to /\ b.events \subseteq events /\ \A e \in b.events : ~HasHad(file, to, e)
         /\ \A b, o \in Bundles(file, to, events, wanted) : b # o => b.events \cap o.events = {}
<1> DEFINE unsent == {e \in events : Kind(e) \in wanted /\ ~HasHad(file, to, e)}
           group(k) == [to |-> to, turn |-> Order[k], events |-> {e \in unsent : Kind(e) = k}]
           every == [to |-> to, turn |-> 1, events |-> unsent]
<1>1. \A b \in Bundles(file, to, events, wanted) :
        IF to \in Webhook THEN b = every ELSE \E k \in DOMAIN Order : b = group(k)
  BY DEF Bundles
<1>2. every.to = to /\ every.events = unsent
  OBVIOUS
<1>3. \A k : group(k).to = to /\ group(k).events = {e \in unsent : Kind(e) = k}
  OBVIOUS
<1>4. unsent \subseteq events /\ \A e \in unsent : ~HasHad(file, to, e)
  OBVIOUS
<1> HIDE DEF unsent, group, every
<1>5. ASSUME NEW b \in Bundles(file, to, events, wanted)
      PROVE  b.to = to /\ b.events \subseteq unsent
  BY <1>1, <1>2, <1>3
<1>6. ASSUME NEW b \in Bundles(file, to, events, wanted), NEW o \in Bundles(file, to, events, wanted), b # o
      PROVE  b.events \cap o.events = {}
  <2>1. to \notin Webhook
    BY <1>1, <1>6
  <2>2. PICK k, l : b = group(k) /\ o = group(l)
    BY <1>1, <2>1
  <2>3. k # l
    BY <1>6, <2>2
  <2> QED BY <1>3, <2>2, <2>3
<1> QED BY <1>4, <1>5, <1>6

LEMMA ToPostFresh ==
  ASSUME NEW file, NEW recipients, NEW events, NEW wanted
  PROVE  /\ \A b \in ToPost(file, recipients, events, wanted) : b.to \in recipients /\ b.events \subseteq events
         /\ Fresh(ToPost(file, recipients, events, wanted), file)
<1> DEFINE todo == ToPost(file, recipients, events, wanted)
<1>1. \A b \in todo : \E to \in recipients : b \in Bundles(file, to, events, wanted[to])
  BY DEF ToPost
<1> HIDE DEF todo
<1>2. ASSUME NEW b \in todo
      PROVE  b.to \in recipients /\ b \in Bundles(file, b.to, events, wanted[b.to]) /\ b.events \subseteq events
             /\ \A e \in b.events : ~HasHad(file, b.to, e)
  <2>1. PICK to \in recipients : b \in Bundles(file, to, events, wanted[to])
    BY <1>1
  <2>2. b.to = to
    BY <2>1, BundlesFresh
  <2> QED BY <2>1, <2>2, BundlesFresh
<1>3. ASSUME NEW b \in todo, NEW o \in todo, b.to = o.to, b # o
      PROVE  b.events \cap o.events = {}
  BY <1>2, <1>3, BundlesFresh
<1> QED BY <1>2, <1>3 DEF Fresh, todo

LEMMA FileWith ==
  ASSUME NEW file, IsFile(file), NEW kept, NEW used
  PROVE  [file EXCEPT !.sent = kept, !.posts = used] = [sent |-> kept, posts |-> used, streaks |-> file.streaks]
<1>1. [file EXCEPT !.sent = kept] = [sent |-> kept, posts |-> file.posts, streaks |-> file.streaks]
  BY DEF IsFile
<1> DEFINE first == [sent |-> kept, posts |-> file.posts, streaks |-> file.streaks]
<1>2. [first EXCEPT !.posts = used] = [sent |-> kept, posts |-> used, streaks |-> file.streaks]
  OBVIOUS
<1> QED BY <1>1, <1>2

LEMMA RecentIs ==
  ASSUME NEW file, IsFile(file), NEW t
  PROVE  Recent(file, t) = [sent |-> {s \in file.sent : t - s.when < SentTtl},
                            posts |-> {p \in file.posts : t - p.when < Hour}, streaks |-> file.streaks]
BY FileWith DEF Recent

(* A delivery begins: to the channels, and to people. *)
LEMMA DeliverFits ==
  ASSUME NEW file, IsFile(file), file.streaks \in ProblemStreaks, NEW events, NEW personal, NEW news,
         Covers(file, news)
  PROVE  LET w == Deliver(file, events, personal)
         IN  IsWork(w) /\ IsFile(w.file) /\ w.events = events /\ WorkFits(w, file, news)
<1> DEFINE recent == Recent(file, time)
           todo == ToPost(recent, channels, events, Subscribed)
           w == Deliver(file, events, personal)
<1>1. /\ recent = [sent |-> recent.sent, posts |-> recent.posts, streaks |-> recent.streaks]
      /\ recent.sent = {s \in file.sent : time - s.when < SentTtl} /\ recent.streaks = file.streaks
  BY RecentIs
<1>2. (\A b \in todo : b.to \in channels /\ b.events \subseteq events) /\ Fresh(todo, recent)
  BY ToPostFresh
<1> HIDE DEF recent, todo
<1>3. w = [at |-> "channels", todo |-> todo, file |-> recent, events |-> events,
           personal |-> personal, told |-> {}, posted |-> {}]
  <2> DEFINE none == NoDelivery.file
  <2>1. NoDelivery = [at |-> "idle", todo |-> {}, file |-> none, events |-> {}, personal |-> FALSE, told |-> {}, posted |-> {}]
    BY DEF NoDelivery
  <2> HIDE DEF none
  <2>2. w = [NoDelivery EXCEPT !.at = "channels", !.file = recent, !.todo = todo, !.events = events, !.personal = personal]
    BY DEF Deliver, recent, todo
  <2> HIDE DEF w
  <2> QED BY <2>1, <2>2
<1> HIDE DEF w
<1>4. /\ w.at = "channels" /\ w.todo = todo /\ w.file = recent /\ w.events = events /\ w.told = {}
      /\ IsWork(w) /\ IsFile(w.file)
  BY <1>1, <1>3 DEF IsWork, IsFile
<1>5. Covers(recent, news)
  BY <1>1 DEF Covers, Entry
<1>6. WorkFits(w, file, news)
  BY <1>1, <1>2, <1>4, <1>5 DEF WorkFits, ProperNews, Covers, LeftOut, Recipients
<1> QED BY <1>4, <1>6 DEF w

LEMMA DeliverOwnFits ==
  ASSUME NEW file, IsFile(file), file.streaks \in ProblemStreaks, NEW events, NEW news, Covers(file, news)
  PROVE  LET w == DeliverOwn(file, events)
         IN  IsWork(w) /\ IsFile(w.file) /\ w.events \subseteq events /\ WorkFits(w, file, news)
<1> DEFINE own == Own(events)
           todo == ToPost(file, Address, own, [a \in Address |-> {"leaving", "newsletter"}])
           w == DeliverOwn(file, events)
<1>1. (\A b \in todo : b.to \in Address /\ b.events \subseteq own) /\ Fresh(todo, file)
  BY ToPostFresh
<1>2. own \subseteq events
  BY DEF Own
<1> HIDE DEF own, todo
<1>3. \/ w = NoDelivery
      \/ w = [at |-> "people", todo |-> todo, file |-> file, events |-> events,
              personal |-> FALSE, told |-> {}, posted |-> {}]
  BY DEF DeliverOwn, NoDelivery, own, todo
<1> HIDE DEF w
<1>4. CASE w = NoDelivery
  BY <1>4, NoDeliveryIsIdle DEF WorkFits, w
<1>5. CASE w # NoDelivery
  <2>1. /\ w.at = "people" /\ w.todo = todo /\ w.file = file /\ w.events = events /\ w.told = {}
        /\ IsWork(w) /\ IsFile(w.file)
    BY <1>3, <1>5 DEF IsWork
  <2>2. WorkFits(w, file, news)
    BY <1>1, <1>2, <2>1 DEF WorkFits, ProperNews, Covers, LeftOut, Recipients
  <2> QED BY <2>1, <2>2 DEF w
<1> QED BY <1>4, <1>5

LEMMA CycleKeeps ==
  ASSUME OutboxInv, NEW seen \in SUBSET Problem, NEW complete \in BOOLEAN, NEW written \in BOOLEAN,
         Cycle(seen, complete, written)
  PROVE  OutboxInv'
<1> DEFINE noted == channels # {} /\ written
           streaks == Streaks(notify.streaks, seen, complete, time)
           problems == IF noted THEN Persisting(streaks, seen) ELSE {}
           file == IF noted THEN [notify EXCEPT !.streaks = streaks] ELSE notify
           events == problems \cup (IF complete THEN Events(time) ELSE {})
           run == [at |-> time, seen |-> seen, complete |-> complete, noted |-> noted]
<1>1. /\ notify' = file /\ UNCHANGED <<time, channels, told>> /\ log' = Append(log, run)
      /\ \/ work' = Deliver(file, events, complete)
         \/ complete /\ work' = DeliverOwn(file, events)
         \/ work' = NoDelivery
  BY DEF Cycle
<1>2. /\ time \in Int /\ channels \subseteq Channel /\ log \in Seq(SeenCycle) /\ IsFile(notify)
      /\ notify.streaks \in ProblemStreaks /\ StreaksLast(notify.streaks, log) /\ Covers(notify, told)
      /\ ProperNews(told, Recipients)
  BY DEF OutboxInv, OutboxTypes
<1>3. run \in SeenCycle /\ run.at = time /\ run.seen = seen /\ run.complete = complete /\ run.noted = noted
  BY <1>2 DEF SeenCycle
<1>4. noted => streaks \in ProblemStreaks /\ StreaksLast(streaks, Append(log, run))
  <2> HIDE DEF run, noted
  <2> QED BY <1>2, <1>3, StreaksGrow
<1>5. ~noted => StreaksLast(notify.streaks, Append(log, run))
  <2> HIDE DEF run, noted
  <2> QED BY <1>2, <1>3, StreaksStay
<1>6. log' \in Seq(SeenCycle)
  <2> HIDE DEF run
  <2> QED BY <1>1, <1>2, <1>3
<1> HIDE DEF run, streaks, noted
<1>7. /\ IsFile(file) /\ file.sent = notify.sent /\ file.streaks = IF noted THEN streaks ELSE notify.streaks
  BY <1>2 DEF IsFile
<1> HIDE DEF file
<1>8. file.streaks \in ProblemStreaks /\ StreaksLast(file.streaks, log')
  BY <1>1, <1>2, <1>4, <1>5, <1>7
<1>9. \A e \in problems : Lasted(log', e.of, e.at, PersistCycles)
  <2> SUFFICES ASSUME noted, NEW p \in seen, streaks[p].cycles >= PersistCycles,
                      NEW e, e = Event("problem", p, streaks[p].since)
               PROVE  Lasted(log', e.of, e.at, PersistCycles)
    BY DEF Persisting
  <2>1. e.of = p /\ e.at = streaks[p].since
    BY DEF Event
  <2>2. PersistCycles \in Nat /\ PersistCycles > 0
    BY OutboxAssumption
  <2>3. streaks[p].cycles \in Nat
    BY <1>4 DEF ProblemStreaks
  <2>4. Lasted(log', p, streaks[p].since, streaks[p].cycles)
    BY <1>1, <1>4, <2>2, <2>3 DEF StreaksLast
  <2> QED BY <1>6, <2>1, <2>2, <2>3, <2>4, LastedLess
<1>10. \A e \in Events(time) : e.kind # "problem"
  BY DEF Events, Event
<1>11. \A e \in events : e.kind = "problem" => Lasted(log', e.of, e.at, PersistCycles)
  BY <1>9, <1>10
<1> HIDE DEF events
<1>12. Covers(file, told)
  BY <1>2, <1>7 DEF Covers
<1>13. IsWork(work') /\ IsFile(work'.file) /\ work'.events \subseteq events /\ WorkFits(work', file, told)
  <2>1. CASE work' = Deliver(file, events, complete)
    BY <1>7, <1>8, <1>12, <2>1, DeliverFits
  <2>2. CASE work' = DeliverOwn(file, events)
    BY <1>7, <1>8, <1>12, <2>2, DeliverOwnFits
  <2>3. CASE work' = NoDelivery
    BY <2>3, NoDeliveryIsIdle DEF WorkFits
  <2> QED BY <1>1, <2>1, <2>2, <2>3
<1>14. OutboxTypes'
  BY <1>1, <1>2, <1>6, <1>7, <1>8, <1>13 DEF OutboxTypes
<1>15. \A e \in work'.events : e.kind = "problem" => Persisted(e)'
  BY <1>11, <1>13 DEF Persisted, Lasted, Sightings
<1>16. (ProperNews(told, Recipients) /\ Covers(notify, told) /\ WorkFits(work, notify, told))'
  BY <1>1, <1>2, <1>12, <1>13 DEF ProperNews, Covers, WorkFits, Fresh, HasHad, Recipients
<1> QED BY <1>1, <1>8, <1>14, <1>15, <1>16 DEF OutboxInv

LEMMA PersistedStays ==
  ASSUME log' = log
  PROVE  \A e : Persisted(e)' <=> Persisted(e)
<1> SUFFICES ASSUME NEW e PROVE Persisted(e)' <=> Persisted(e)
  OBVIOUS
<1>1. Persisted(e)' <=> Lasted(log', e.of, e.at, PersistCycles)
  BY DEF Persisted, Lasted, Sightings
<1> QED BY <1>1, LastedIsPersisted

LEMMA WorkWith ==
  ASSUME NEW w, IsWork(w), NEW todo, NEW file, NEW told2, NEW posted2
  PROVE  [w EXCEPT !.todo = todo, !.file = file, !.posted = posted2, !.told = told2]
         = [at |-> w.at, todo |-> todo, file |-> file, events |-> w.events,
            personal |-> w.personal, told |-> told2, posted |-> posted2]
<1> DEFINE w1 == [at |-> w.at, todo |-> todo, file |-> w.file, events |-> w.events,
                  personal |-> w.personal, told |-> w.told, posted |-> w.posted]
           w2 == [at |-> w.at, todo |-> todo, file |-> file, events |-> w.events,
                  personal |-> w.personal, told |-> w.told, posted |-> w.posted]
           w3 == [at |-> w.at, todo |-> todo, file |-> file, events |-> w.events,
                  personal |-> w.personal, told |-> w.told, posted |-> posted2]
<1>1. [w EXCEPT !.todo = todo] = w1
  BY DEF IsWork
<1>2. [w1 EXCEPT !.file = file] = w2
  OBVIOUS
<1>3. [w2 EXCEPT !.posted = posted2] = w3
  OBVIOUS
<1>4. [w3 EXCEPT !.told = told2]
      = [at |-> w.at, todo |-> todo, file |-> file, events |-> w.events,
         personal |-> w.personal, told |-> told2, posted |-> posted2]
  OBVIOUS
<1> HIDE DEF w1, w2, w3
<1> QED BY <1>1, <1>2, <1>3, <1>4

(* A post: what it told its recipient is in the file, and nothing else that  *)
(* waits tells it.                                                          *)
LEMMA PostKeeps ==
  ASSUME OutboxInv, NEW b \in work.todo, NEW outcome \in Outcomes, Post(b, outcome)
  PROVE  OutboxInv'
<1> DEFINE accepted == outcome = "accepted"
           post == [to |-> b.to, when |-> time, no |-> SpentOf(work.file, b.to)]
           sent == {[to |-> b.to, event |-> e, when |-> time] : e \in b.events}
           got == {[to |-> b.to, event |-> e, when |-> time, no |-> post.no, answered |-> accepted] : e \in b.events}
           news == IF outcome = "refused" THEN {} ELSE got
           kept == IF accepted THEN work.file.sent \cup sent ELSE work.file.sent
           used == work.file.posts \cup {post}
           file == [sent |-> kept, posts |-> used, streaks |-> work.file.streaks]
           todo == IF accepted THEN work.todo \ {b} ELSE {o \in work.todo : o.to # b.to}
           posted2 == work.posted \cup {post}
           told2 == work.told \cup news
<1>1. IsWork(work) /\ IsFile(work.file)
  BY DEF OutboxInv, OutboxTypes
<1>2. /\ UNCHANGED <<time, channels, notify, log, told>>
      /\ work' = [work EXCEPT !.todo = todo, !.file = [work.file EXCEPT !.posts = used, !.sent = kept],
                              !.posted = posted2, !.told = told2]
  BY DEF Post
<1>3. /\ \A n \in sent : n.to = b.to /\ n.event \in b.events
      /\ \A n \in news : n.to = b.to /\ n.when = time /\ n.event \in b.events /\ n.answered = accepted
      /\ \A e \in b.events : [to |-> b.to, event |-> e, when |-> time] \in sent
      /\ todo \subseteq work.todo /\ (accepted => b \notin todo) /\ \A o \in todo : o.to = b.to => accepted
  OBVIOUS
<1>3a. (accepted => kept = work.file.sent \cup sent) /\ work.file.sent \subseteq kept /\ kept \subseteq work.file.sent \cup sent
  OBVIOUS
<1> HIDE DEF post, sent, got, news, todo, posted2, told2, accepted
<1>4. [work.file EXCEPT !.posts = used, !.sent = kept] = file
  <2> HIDE DEF kept, used
  <2>1. [work.file EXCEPT !.posts = used] = [sent |-> work.file.sent, posts |-> used, streaks |-> work.file.streaks]
    BY <1>1 DEF IsFile
  <2> DEFINE first == [sent |-> work.file.sent, posts |-> used, streaks |-> work.file.streaks]
  <2>2. [first EXCEPT !.sent = kept] = [sent |-> kept, posts |-> used, streaks |-> work.file.streaks]
    OBVIOUS
  <2> QED BY <2>1, <2>2
<1>5. IsFile(file) /\ file.sent = kept /\ file.streaks = work.file.streaks
  BY DEF IsFile
<1> HIDE DEF file, kept
<1>6. work' = [at |-> work.at, todo |-> todo, file |-> file, events |-> work.events,
               personal |-> work.personal, told |-> told2, posted |-> posted2]
  <2>1. work' = [work EXCEPT !.todo = todo, !.file = file, !.posted = posted2, !.told = told2]
    BY <1>2, <1>4
  <2> QED BY ONLY <1>1, <2>1, WorkWith, ZenonT(30)
<1>7. /\ work'.at = work.at /\ work'.todo = todo /\ work'.file = file /\ work'.events = work.events
      /\ work'.told = told2 /\ IsWork(work')
  BY <1>6 DEF IsWork
<1>8. work.at # "idle"
  BY NoDeliveryIsIdle DEF OutboxInv, WorkFits
<1>9. /\ work.file.streaks = notify.streaks
      /\ \A o \in work.todo : o.to \in Recipients /\ o.events \subseteq work.events
      /\ Fresh(work.todo, work.file)
      /\ ProperNews(work.told, Recipients)
      /\ Covers(work.file, told \cup work.told) /\ LeftOut(work.todo, work.told)
  BY <1>8 DEF OutboxInv, WorkFits
<1>10. Fresh(todo, file)
  <2>1. ASSUME NEW o \in todo, NEW e \in o.events
        PROVE  ~HasHad(file, o.to, e)
    <3>1. o \in work.todo /\ ~HasHad(work.file, o.to, e)
      BY <1>3, <1>9 DEF Fresh
    <3>2. ASSUME NEW n \in sent, n.to = o.to, accepted PROVE n.event # e
      <4>1. o # b /\ o.to = b.to
        BY <1>3, <3>2
      <4>2. o.events \cap b.events = {}
        BY <1>9, <3>1, <4>1 DEF Fresh
      <4> QED BY <1>3, <4>2
    <3>3. ASSUME ~accepted PROVE kept = work.file.sent
      BY <3>3 DEF kept
    <3> QED BY <1>3a, <1>5, <3>1, <3>2, <3>3 DEF HasHad
  <2>2. \A o, u \in todo : o.to = u.to /\ o # u => o.events \cap u.events = {}
    BY <1>3, <1>9 DEF Fresh
  <2> QED BY <2>1, <2>2 DEF Fresh
<1>11. time \in Int
  BY DEF OutboxInv, OutboxTypes
<1>12. ProperNews(told2, Recipients)
  <2>1. \A n \in news : n.when \in Int /\ n.to \in Recipients
    BY <1>3, <1>9, <1>11
  <2> QED BY <1>9, <2>1 DEF ProperNews, told2
<1>13. Covers(file, told \cup told2)
  <2>1. ASSUME NEW n \in news, n.answered PROVE Entry(n) \in file.sent
    BY <1>3, <1>3a, <1>5, <2>1 DEF Entry
  <2> QED BY <1>3a, <1>5, <1>9, <2>1 DEF Covers, told2
<1>13a. LeftOut(todo, told2)
  <2>1. ASSUME NEW n \in news, ~n.answered, NEW o \in todo PROVE o.to # n.to
    BY <1>3, <2>1
  <2> QED BY <1>3, <1>9, <2>1 DEF LeftOut, told2
<1>14. WorkFits(work', notify, told)
  BY <1>3, <1>5, <1>7, <1>8, <1>9, <1>10, <1>12, <1>13, <1>13a DEF WorkFits
<1>15. (WorkFits(work, notify, told) /\ ProperNews(told, Recipients) /\ Covers(notify, told))'
  BY <1>2, <1>14 DEF WorkFits, ProperNews, Covers, LeftOut, Entry, Recipients, Fresh, HasHad, OutboxInv
<1>16. (OutboxTypes /\ StreaksLast(notify.streaks, log))'
  BY <1>2, <1>5, <1>7 DEF OutboxInv, OutboxTypes, StreaksLast
<1>17. \A e \in work'.events : e.kind = "problem" => Persisted(e)'
  BY <1>2, <1>7, PersistedStays DEF OutboxInv
<1> QED BY <1>15, <1>16, <1>17 DEF OutboxInv

LEMMA DeferKeeps ==
  ASSUME OutboxInv, NEW b \in work.todo, Defer(b)
  PROVE  OutboxInv'
<1> DEFINE todo == work.todo \ {b}
<1>1. IsWork(work) /\ IsFile(work.file)
  BY DEF OutboxInv, OutboxTypes
<1>2. UNCHANGED <<time, channels, notify, log, told>> /\ work' = [work EXCEPT !.todo = todo]
  BY DEF Defer
<1>3. todo \subseteq work.todo
  OBVIOUS
<1> HIDE DEF todo
<1>4. /\ work'.at = work.at /\ work'.todo = todo /\ work'.file = work.file /\ work'.events = work.events
      /\ work'.told = work.told /\ IsWork(work')
  BY <1>1, <1>2 DEF IsWork
<1>5. work.at # "idle"
  BY NoDeliveryIsIdle DEF OutboxInv, WorkFits
<1>6. Fresh(todo, work.file)
  BY <1>3, <1>5 DEF OutboxInv, WorkFits, Fresh
<1>7. WorkFits(work', notify, told)
  BY <1>3, <1>4, <1>5, <1>6 DEF OutboxInv, WorkFits, LeftOut
<1>8. (WorkFits(work, notify, told) /\ ProperNews(told, Recipients) /\ Covers(notify, told))'
  BY <1>2, <1>7 DEF WorkFits, ProperNews, Covers, LeftOut, Entry, Recipients, Fresh, HasHad, OutboxInv
<1>9. (OutboxTypes /\ StreaksLast(notify.streaks, log))'
  BY <1>1, <1>2, <1>4 DEF OutboxInv, OutboxTypes, StreaksLast
<1>10. \A e \in work'.events : e.kind = "problem" => Persisted(e)'
  BY <1>2, <1>4, PersistedStays DEF OutboxInv
<1> QED BY <1>8, <1>9, <1>10 DEF OutboxInv

(* The file is written after the posts, or is not. *)
LEMMA FinishKeeps ==
  ASSUME OutboxInv, NEW written \in BOOLEAN, Finish(written)
  PROVE  OutboxInv'
<1> DEFINE file == IF written THEN Remembered ELSE notify
           news == IF written THEN told \cup work.told ELSE told
           kept == {s \in work.file.sent : s.to \in Recipients}
<1>1. /\ UNCHANGED <<time, channels, log>> /\ notify' = file /\ told' = news /\ work.at # "idle"
      /\ work' = DeliverOwn(file, work.events) \/ work' = NoDelivery
  BY DEF Finish
<1>2. /\ IsFile(notify) /\ IsFile(work.file) /\ notify.streaks \in ProblemStreaks
      /\ time \in Int /\ channels \subseteq Channel /\ log \in Seq(SeenCycle)
      /\ ProperNews(told, Recipients) /\ Covers(notify, told)
  BY DEF OutboxInv, OutboxTypes
<1>3. /\ work.file.streaks = notify.streaks
      /\ ProperNews(work.told, Recipients)
      /\ Covers(work.file, told \cup work.told)
  BY <1>1 DEF OutboxInv, WorkFits
<1>4. ProperNews(news, Recipients)
  BY <1>2, <1>3 DEF ProperNews
<1>5. IsFile(file) /\ file.streaks = notify.streaks /\ Covers(file, news)
  <2>1. CASE ~written
    BY <1>2, <2>1
  <2>2. CASE written /\ work.at = "people"
    BY <1>2, <1>3, <2>2 DEF Remembered
  <2>3. CASE written /\ work.at # "people"
    <3>1. Remembered = [work.file EXCEPT !.sent = kept]
      BY <2>3 DEF Remembered, Recipients
    <3>2. kept \subseteq work.file.sent /\ \A s \in work.file.sent : s.to \in Recipients => s \in kept
      OBVIOUS
    <3> HIDE DEF kept
    <3>3. IsFile(Remembered) /\ Remembered.streaks = work.file.streaks /\ Remembered.sent = kept
      BY <1>2, <3>1 DEF IsFile
    <3>4. Covers(Remembered, told \cup work.told)
      BY <1>2, <1>3, <3>2, <3>3 DEF Covers, Entry, ProperNews
    <3> QED BY <1>3, <2>3, <3>3, <3>4
  <2> QED BY <2>1, <2>2, <2>3
<1> HIDE DEF file, news
<1>6. IsWork(work') /\ IsFile(work'.file) /\ work'.events \subseteq work.events /\ WorkFits(work', file, news)
  <2>1. CASE work' = DeliverOwn(file, work.events)
    BY <1>2, <1>5, <2>1, DeliverOwnFits
  <2>2. CASE work' = NoDelivery
    BY <2>2, NoDeliveryIsIdle DEF WorkFits
  <2> QED BY <1>1, <2>1, <2>2
<1>7. (WorkFits(work, notify, told) /\ ProperNews(told, Recipients) /\ Covers(notify, told))'
  BY <1>1, <1>4, <1>5, <1>6 DEF WorkFits, ProperNews, Covers, LeftOut, Entry, Recipients, Fresh, HasHad
<1>8. (OutboxTypes /\ StreaksLast(notify.streaks, log))'
  BY <1>1, <1>2, <1>5, <1>6 DEF OutboxInv, OutboxTypes, StreaksLast
<1>9. \A e \in work'.events : e.kind = "problem" => Persisted(e)'
  BY <1>1, <1>6, PersistedStays DEF OutboxInv
<1> QED BY <1>7, <1>8, <1>9 DEF OutboxInv

(* What leaves the log and the clock alone, with no delivery left under way. *)
LEMMA IdleKeeps ==
  ASSUME OutboxInv, log' = log, work' = NoDelivery, IsFile(notify)', notify'.streaks \in ProblemStreaks,
         StreaksLast(notify'.streaks, log), time' \in Int, channels' \subseteq Channel,
         ProperNews(told, Recipients)', Covers(notify, told)'
  PROVE  OutboxInv'
<1>1. OutboxTypes'
  BY NoDeliveryIsIdle DEF OutboxInv, OutboxTypes
<1>2. WorkFits(work, notify, told)'
  BY NoDeliveryIsIdle DEF WorkFits
<1> QED BY <1>1, <1>2, NoDeliveryIsIdle DEF OutboxInv, StreaksLast

LEMMA OthersKeep ==
  ASSUME OutboxInv,
         \/ Stop \/ LoseFile \/ (\E c \in Channel : Configure(c)) \/ TimePasses
         \/ \E i \in Item : (\E route \in {"leaving", "handed"} : HandOver(i, route)) \/ (\E d \in BOOLEAN : Withdraw(i, d))
         \/ UNCHANGED outboxVars
  PROVE  OutboxInv'
<1>1. /\ IsFile(notify) /\ notify.streaks \in ProblemStreaks /\ StreaksLast(notify.streaks, log) /\ time \in Int
      /\ channels \subseteq Channel /\ ProperNews(told, Recipients) /\ Covers(notify, told)
  BY DEF OutboxInv, OutboxTypes
<1>2. work.at = "idle" => work = NoDelivery
  BY DEF OutboxInv, WorkFits
<1>3. CASE Stop
  <2>1. UNCHANGED <<time, channels, notify, log, told>> /\ work' = NoDelivery
    BY <1>3 DEF Stop
  <2> QED BY <1>1, <2>1, IdleKeeps DEF IsFile, ProperNews, Covers, Recipients
<1>4. CASE LoseFile
  <2>1. UNCHANGED <<time, channels, log>> /\ work' = NoDelivery /\ notify' = NoDelivery.file /\ told' = {}
    BY <1>2, <1>4 DEF LoseFile
  <2> QED BY <1>1, <2>1, IdleKeeps, NoDeliveryIsIdle DEF IsFile, ProperNews, Covers, StreaksLast
<1>5. CASE \E c \in Channel : Configure(c)
  <2>1. PICK c \in Channel : Configure(c)
    BY <1>5
  <2>2. /\ UNCHANGED <<time, notify, log>> /\ work' = NoDelivery /\ told' = {s \in told : s.to # c}
        /\ channels' = (channels \ {c}) \cup ({c} \ channels)
    BY <1>2, <2>1 DEF Configure
  <2>3. ProperNews(told, Recipients)' /\ Covers(notify, told)'
    BY <1>1, <2>2 DEF ProperNews, Covers, Recipients
  <2> QED BY <1>1, <2>2, <2>3, IdleKeeps DEF IsFile
<1>6. CASE TimePasses
  <2>1. UNCHANGED <<channels, notify, log, told>> /\ work' = NoDelivery /\ time' = time + 1
    BY <1>2, <1>6 DEF TimePasses
  <2>2. Covers(notify, told)'
    <3> SUFFICES ASSUME NEW o \in told, o.answered, (time + 1) - o.when < SentTtl PROVE Entry(o) \in notify.sent
      BY <2>1 DEF Covers, Entry
    <3>1. SentTtl \in Nat /\ o.when \in Int
      BY <1>1, OutboxAssumption DEF ProperNews
    <3>2. time - o.when < SentTtl
      BY <1>1, <3>1
    <3> QED BY <1>1, <3>2 DEF Covers
  <2> QED BY <1>1, <2>1, <2>2, IdleKeeps DEF IsFile, ProperNews, Recipients
<1>7. CASE \E i \in Item : (\E route \in {"leaving", "handed"} : HandOver(i, route)) \/ (\E d \in BOOLEAN : Withdraw(i, d))
  <2>1. UNCHANGED <<time, channels, notify, log, told>> /\ work' = NoDelivery
    BY <1>2, <1>7 DEF HandOver, Withdraw
  <2> QED BY <1>1, <2>1, IdleKeeps DEF IsFile, ProperNews, Covers, Recipients
<1>8. CASE UNCHANGED outboxVars
  <2>1. UNCHANGED <<time, channels, notify, work, log, told>>
    BY <1>8 DEF outboxVars
  <2>2. OutboxTypes' /\ StreaksLast(notify.streaks, log)' /\ (ProperNews(told, Recipients) /\ Covers(notify, told))'
    BY <2>1 DEF OutboxInv, OutboxTypes, StreaksLast, ProperNews, Covers, Entry, Recipients, IsFile, IsWork
  <2>3. WorkFits(work, notify, told)'
    <3>1. WorkFits(work, notify, told)
      BY DEF OutboxInv
    <3> QED BY <2>1, <3>1 DEF WorkFits, ProperNews, Covers, LeftOut, Entry, Recipients, Fresh, HasHad
  <2> QED BY <2>1, <2>2, <2>3, PersistedStays DEF OutboxInv
<1> QED BY <1>3, <1>4, <1>5, <1>6, <1>7, <1>8

LEMMA OutboxInvStep == OutboxInv /\ [OutboxNext]_outboxVars => OutboxInv'
<1> SUFFICES ASSUME OutboxInv, [OutboxNext]_outboxVars PROVE OutboxInv'
  OBVIOUS
<1>1. ASSUME NEW seen \in SUBSET Problem, NEW ok \in BOOLEAN, WholeCycle(seen, ok) PROVE OutboxInv'
  BY <1>1, CycleKeeps DEF WholeCycle
<1>2. ASSUME NEW ok \in BOOLEAN, FailedCycle(ok) PROVE OutboxInv'
  <2>1. {"cycle"} \in SUBSET Problem
    BY OutboxAssumption
  <2> QED BY <1>2, <2>1, CycleKeeps DEF FailedCycle
<1>3. ASSUME NEW ok \in BOOLEAN, Finish(ok) PROVE OutboxInv'
  BY <1>3, FinishKeeps
<1>4. ASSUME NEW b \in work.todo, NEW outcome \in Outcomes, Post(b, outcome) PROVE OutboxInv'
  BY <1>4, PostKeeps
<1>5. ASSUME NEW b \in work.todo, Defer(b) PROVE OutboxInv'
  BY <1>5, DeferKeeps
<1>6. CASE \/ Stop \/ LoseFile \/ (\E c \in Channel : Configure(c)) \/ TimePasses
           \/ \E i \in Item : (\E route \in {"leaving", "handed"} : HandOver(i, route)) \/ (\E d \in BOOLEAN : Withdraw(i, d))
           \/ UNCHANGED outboxVars
  BY <1>6, OthersKeep
<1> QED BY <1>1, <1>2, <1>3, <1>4, <1>5, <1>6 DEF OutboxNext

(* notify.json remembers what was told, and every streak is one of the log.  *)
THEOREM OutboxInvHolds == OutboxSpec => []OutboxInv
<1> QED BY OutboxStarts, OutboxInvStep, PTL DEF OutboxSpec

(* A problem is posted only if the cycles since its `since` that could tell  *)
(* all saw it, and PERSIST_CYCLES of them did, for any channels, problems    *)
(* and failures (outbox.rs:124-127).                                         *)
THEOREM ToldAfterPersistingHolds == OutboxSpec => []ToldAfterPersisting
<1>1. OutboxInv => ToldAfterPersisting
  BY NoDeliveryIsIdle DEF OutboxInv, WorkFits, ToldAfterPersisting
<1> QED BY <1>1, OutboxInvHolds, PTL

LEMMA StepTellsOnce ==
  ASSUME OutboxInv, [OutboxNext]_outboxVars, NEW s \in work'.told \ work.told
  PROVE  (~\E o \in told : Again(s, o) /\ o.answered) /\ ~\E o \in work.told : Again(s, o)
<1>1. ASSUME work'.told = work.told \/ work'.told = {} PROVE FALSE
  BY <1>1
<1>2. ASSUME NEW b \in work.todo, NEW outcome \in Outcomes, Post(b, outcome)
      PROVE  (~\E o \in told : Again(s, o) /\ o.answered) /\ ~\E o \in work.told : Again(s, o)
  <2> DEFINE got == {[to |-> b.to, event |-> e, when |-> time, no |-> SpentOf(work.file, b.to), answered |-> outcome = "accepted"] : e \in b.events}
  <2>1. s \in got
    BY <1>2 DEF Post, OutboxInv, OutboxTypes, IsWork
  <2>2. s.to = b.to /\ s.event \in b.events
    BY <2>1
  <2>3. work.at # "idle"
    BY NoDeliveryIsIdle DEF OutboxInv, WorkFits
  <2>4. /\ Fresh(work.todo, work.file) /\ Covers(work.file, told \cup work.told)
        /\ LeftOut(work.todo, work.told)
    BY <2>3 DEF OutboxInv, WorkFits
  <2>5. ~HasHad(work.file, s.to, s.event)
    BY <2>2, <2>4 DEF Fresh
  <2>6. ASSUME NEW o \in told \cup work.told, Again(s, o), o.answered PROVE FALSE
    BY <2>4, <2>5, <2>6 DEF HasHad, Covers, Entry, Again
  <2>7. ASSUME NEW o \in work.told, Again(s, o), ~o.answered PROVE FALSE
    BY <2>2, <2>4, <2>7 DEF LeftOut, Again
  <2> QED BY <2>6, <2>7
<1>3. ASSUME NEW b \in work.todo, Defer(b) PROVE FALSE
  <2>1. work'.told = work.told
    BY <1>3 DEF Defer, OutboxInv, OutboxTypes, IsWork
  <2> QED BY <1>1, <2>1
<1>4. \A file, events, personal : Deliver(file, events, personal).told = {}
  <2> SUFFICES ASSUME NEW file, NEW events, NEW personal PROVE Deliver(file, events, personal).told = {}
    OBVIOUS
  <2> DEFINE recent == Recent(file, time)
             todo == ToPost(recent, channels, events, Subscribed)
  <2> HIDE DEF recent, todo
  <2>1. [NoDelivery EXCEPT !.at = "channels", !.file = recent, !.todo = todo, !.events = events, !.personal = personal].told = {}
    BY NoDeliveryIsIdle DEF IsWork
  <2> QED BY <2>1 DEF Deliver, recent, todo
<1>5. \A file, events : DeliverOwn(file, events).told = {}
  <2> SUFFICES ASSUME NEW file, NEW events PROVE DeliverOwn(file, events).told = {}
    OBVIOUS
  <2> DEFINE todo == ToPost(file, Address, Own(events), [a \in Address |-> {"leaving", "newsletter"}])
  <2> HIDE DEF todo
  <2>1. [NoDelivery EXCEPT !.at = "people", !.file = file, !.todo = todo, !.events = events].told = {}
    BY NoDeliveryIsIdle DEF IsWork
  <2> QED BY <2>1, NoDeliveryIsIdle DEF DeliverOwn, todo
<1>6. ASSUME NEW seen, NEW complete, NEW written, Cycle(seen, complete, written) PROVE FALSE
  <2>1. \/ \E file, events : work' = Deliver(file, events, complete)
        \/ \E file, events : work' = DeliverOwn(file, events)
        \/ work' = NoDelivery
    BY <1>6 DEF Cycle
  <2> QED BY <1>1, <1>4, <1>5, <2>1, NoDeliveryIsIdle
<1>7. ASSUME NEW ok, Finish(ok) PROVE FALSE
  <2>1. (\E file, events : work' = DeliverOwn(file, events)) \/ work' = NoDelivery
    BY <1>7 DEF Finish
  <2> QED BY <1>1, <1>5, <2>1, NoDeliveryIsIdle
<1>8. ASSUME \/ Stop \/ LoseFile \/ (\E c \in Channel : Configure(c)) \/ TimePasses
             \/ \E i \in Item : (\E route \in {"leaving", "handed"} : HandOver(i, route)) \/ (\E d \in BOOLEAN : Withdraw(i, d))
             \/ UNCHANGED outboxVars
      PROVE  FALSE
  <2>1. work' = work \/ work' = NoDelivery
    BY <1>8 DEF Stop, LoseFile, Configure, TimePasses, HandOver, Withdraw, outboxVars
  <2> QED BY <1>1, <2>1, NoDeliveryIsIdle
<1> QED BY <1>2, <1>3, <1>6, <1>7, <1>8 DEF OutboxNext, WholeCycle, FailedCycle

(* Nobody is told again, within SENT_TTL_SECS, what notify.json was given to *)
(* remember, unless an answer was lost, and even then not by the same        *)
(* delivery, for any channels, addresses, budgets and failures               *)
(* (notify.rs:8-9).                                                          *)
THEOREM ToldOnceHolds == OutboxSpec => ToldOnce
<1>1. OutboxInv /\ [OutboxNext]_outboxVars
      => [\A s \in work'.told \ work.told :
            /\ ~\E o \in told : Again(s, o) /\ o.answered
            /\ ~\E o \in work.told : Again(s, o)]_outboxVars
  BY StepTellsOnce
<1> QED BY <1>1, OutboxInvHolds, PTL DEF OutboxSpec, ToldOnce
=============================================================================
