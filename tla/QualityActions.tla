--------------------------- MODULE QualityActions ---------------------------
(* The quality steps of a cycle: profile moves for items advised a smaller  *)
(* copy (quality/act.rs and the daemon's quality_act.rs), the guard against *)
(* upgrade churn (quality/churn.rs, upgrade_guard.rs) and the upgrade       *)
(* searches (quality/upgrade.rs, upgrade_search.rs).  Each reads its ledger *)
(* file, settles and prunes it, picks, writes to Radarr or Sonarr one item  *)
(* at a time, and saves its ledger at the end; the daemon may stop, or a    *)
(* save fail, anywhere between.  The operator changes the same profiles and *)
(* monitored flags in the *arrs.  What the advice, the churn counts and the *)
(* cutoff lists say in a cycle is an input.                                 *)
EXTENDS Integers, FiniteSets, FiniteSetsExt, Functions

CONSTANTS
    Movie,        \* *arr items holding one card
    Series,       \* *arr items holding a card per season
    Card,         \* movies and seasons
    ItemOf,       \* [Card -> Movie \cup Series]
    Key,          \* [Movie \cup Series -> Nat]: app, instance and id, as they sort
    Likelihood,   \* [Card -> Nat]: P(watch), by rank
    Growth,       \* [Card -> Nat]: what a better copy needs beyond the file
    MaxMoves,     \* quality_actions.max_per_day
    MaxSearches,  \* upgrade_search.max_per_day
    MoveKeep,     \* act/ledger.rs LEDGER_KEEP_SECS, in days
    MoveWindow,   \* act/ledger.rs OUTCOME_WINDOW_SECS
    GuardKeep,    \* churn.rs APPLIED_KEEP_SECS
    SearchRetry,  \* upgrade/ledger.rs RETRY_SECS
    SearchWindow, \* upgrade/ledger.rs OUTCOME_WINDOW_SECS
    SearchKeep,   \* upgrade/ledger.rs LEDGER_KEEP_SECS
    Settings,     \* the settings explored: records [step, guard]
    LastDay,      \* bound: days
    Bustle        \* bound: what operators, downloads and failures do

ASSUME QualityAssumption ==
    /\ MoveKeep \in Nat /\ GuardKeep \in Nat
    /\ \A a, b \in Card : Likelihood[a] = Likelihood[b] => a = b
    /\ \A i, j \in Movie \cup Series : Key[i] = Key[j] => i = j

Item == Movie \cup Series
Profile == {"large", "compact"}
Size == [gone |-> 0, small |-> 1, large |-> 3]

VARIABLES
    day,
    setting,     \* which step is on, and what the guard does
    bustle,      \* how much of Bustle is spent
    profile,     \* *arr: [Item -> Profile]
    upgrades,    \* *arr: [Profile -> BOOLEAN], upgradeAllowed
    monitored,   \* *arr: [Card -> BOOLEAN]
    disk,        \* [Card -> DOMAIN Size]
    file,        \* the step's ledger as saved
    ledger,      \* the ledger as the running step edits it
    todo,        \* what the running step still has to send
    phase,       \* "idle" or "sending"
    sent,        \* history: writes of the running step
    history      \* history: writes whose ledger was saved

world == <<profile, upgrades, monitored, disk>>
qualityVars == <<day, setting, bustle, profile, upgrades, monitored, disk, file, ledger, todo, phase, sent, history>>

CardsOf(i) == {c \in Card : ItemOf[c] = i}
Present == {c \in Card : disk[c] # "gone"}
Since(at) == day - at

-----------------------------------------------------------------------------
(* Profile moves. *)

(* Mutant: only a pending move blocks. *)
MovedBeforePending(book, c) == \E a \in book : a.card = c /\ a.outcome = "pending"

(* `blocks`: moved before, or refused within a day. *)
MovedBefore(book, c) ==
    \E a \in book : a.card = c /\ (a.outcome = "failed" => Since(a.at) < 1)

(* `settle`, then `prune`.  An empty inventory settles nothing.  A file as  *)
(* small as LANDED_SHARE asks has landed.                                    *)
MoveOutcome(a) ==
    IF a.outcome # "pending" \/ Present = {} THEN a.outcome
    ELSE IF a.card \notin Present THEN "ended"
    ELSE IF disk[a.card] = "small" \/ Since(a.at) >= MoveWindow THEN "ended"
    ELSE "pending"
MovesSettled(book) == {[a EXCEPT !.outcome = MoveOutcome(a)] : a \in book}
MovesKept(book) == {a \in MovesSettled(book) : Since(a.at) < MoveKeep}

(* `acted_since`: what the daily cap counts, refused ones included. *)
InTheLastDay(book) == Cardinality({a \in book : Since(a.at) <= 1})

MoveBytes(cards) == FoldSet(LAMBDA c, sum : sum + Size[disk[c]], 0, cards)
Bigger(a, b) == a.bytes > b.bytes \/ (a.bytes = b.bytes /\ Key[a.item] < Key[b.item])

(* A show moves whole: every season on disk is advised and free to move. *)
Whole(i, cards) == i \in Movie \/ cards = CardsOf(i) \cap Present

FreeMoves(book, advised) ==
    LET free(i) == {c \in CardsOf(i) \cap Present \cap advised : ~MovedBefore(book, c)}
    IN  {[item |-> i, cards |-> free(i), bytes |-> MoveBytes(free(i))] :
            i \in {j \in Item : profile[j] = "large" /\ free(j) # {} /\ Whole(j, free(j))}}

(* The cap of a day that is left. *)
CapLeft(cap, book) == Max({0, cap - InTheLastDay(book)})

(* Biggest first while the day's cap lasts; a show that does not fit is     *)
(* passed over: the one selection of that kind.                             *)
SelectMoves(book, advised) ==
    LET free == FreeMoves(book, advised)
        before(m, moves) == UNION {n.cards : n \in {b \in moves : Bigger(b, m)}}
    IN  {moves \in SUBSET free : \A m \in free :
            m \in moves <=> Cardinality(before(m, moves) \cup m.cards) <= CapLeft(MaxMoves, book)}

-----------------------------------------------------------------------------
(* The churn guard. *)

GuardKept(book) == {g \in book : Since(g.at) < GuardKeep}
Touched(book, c) == \E g \in book : g.card = c
(* `profile_off`: upgrades were turned off on this profile for some card. *)
ProfileOff(book, p) == \E g \in book : g.did = "upgradesOff" /\ g.profile = p

-----------------------------------------------------------------------------
(* Upgrade searches. *)

SearchBlocks(book, c) ==
    \E s \in book :
        /\ s.card = c
        /\ CASE s.outcome = "pending" -> TRUE
             [] s.outcome = "failed" -> Since(s.at) < 1
             [] OTHER -> Since(s.at) < SearchRetry

(* `settle` against a complete cutoff list. *)
SearchOutcome(s, unmet) ==
    IF s.outcome # "pending" \/ Present = {} THEN s.outcome
    ELSE IF s.card \notin Present \/ s.card \notin unmet \/ Since(s.at) >= SearchWindow THEN "ended"
    ELSE "pending"
SearchesSettled(book, unmet) == {[s EXCEPT !.outcome = SearchOutcome(s, unmet)] : s \in book}
SearchesKept(book) == {s \in book : Since(s.at) < SearchKeep}

(* Likeliest watched first, within the room of the disk and the day's cap. *)
SelectSearches(book, ready, room) ==
    LET free == {c \in ready \cap Present : ~SearchBlocks(book, c)}
        before(c, picks) == {d \in picks : Likelihood[d] > Likelihood[c]}
    IN  {picks \in SUBSET free : \A c \in free :
            c \in picks <=> /\ Cardinality(before(c, picks)) < CapLeft(MaxSearches, book)
                           /\ Growth[c] + SumFunctionOnSet(Growth, before(c, picks)) <= room}

-----------------------------------------------------------------------------
QualityInit ==
    /\ day = 0
    /\ setting \in Settings
    /\ bustle = 0
    /\ profile = [i \in Item |-> "large"]
    /\ upgrades = [p \in Profile |-> TRUE]
    /\ monitored = [c \in Card |-> TRUE]
    /\ disk = [c \in Card |-> "large"]
    /\ file = {} /\ ledger = {} /\ todo = {} /\ phase = "idle"
    /\ sent = {} /\ history = {}

Begin(step) == phase = "idle" /\ setting.step = step /\ phase' = "sending" /\ sent' = {}

StartMoves ==
    /\ Begin("moves")
    /\ \E advised \in SUBSET Present :
        LET book == MovesKept(file)
        IN  ledger' = book /\ todo' \in SelectMoves(book, advised)
    /\ UNCHANGED <<day, setting, bustle, world, file, history>>

(* A flagged card is stepped on unless its record says it was. *)
StartGuard ==
    /\ Begin("guard")
    /\ \E churning \in SUBSET Present :
        LET book == GuardKept(file)
        IN  ledger' = book /\ todo' = {c \in churning : ~Touched(book, c)}
    /\ UNCHANGED <<day, setting, bustle, world, file, history>>

(* No search, and nothing settled, against half a cutoff list. *)
StartSearches ==
    /\ Begin("search")
    /\ \/ ledger' = SearchesKept(file) /\ todo' = {}
       \/ \E unmet \in SUBSET Present, room \in 0..Max({Growth[c] : c \in Card}) :
            LET book == SearchesKept(SearchesSettled(file, unmet))
            IN  ledger' = book /\ todo' \in SelectSearches(book, unmet, room)
    /\ UNCHANGED <<day, setting, bustle, world, file, history>>

(* One request goes well, is refused, or is taken and its answer lost. *)
Answers == {"ok", "refused", "lost"}
Costs(answer) == bustle' = bustle + (IF answer = "ok" THEN 0 ELSE 1) /\ bustle' <= Bustle
Note(what, on) == sent' = sent \cup {[what |-> what, on |-> on, at |-> day]}
Sends(step, one) == phase = "sending" /\ setting.step = step /\ one \in todo /\ todo' = todo \ {one}

(* The profile is moved and read back; the searches after it change nothing *)
(* the ledger tells apart.                                                  *)
SendMove(m) ==
    /\ Sends("moves", m) /\ \A n \in todo \ {m} : Bigger(m, n)
    /\ \E answer \in Answers :
        /\ Costs(answer)
        /\ profile' = IF answer = "refused" THEN profile ELSE [profile EXCEPT ![m.item] = "compact"]
        /\ ledger' = ledger \cup {[card |-> c, at |-> day, outcome |-> IF answer = "ok" THEN "pending" ELSE "failed"] :
                                    c \in m.cards}
        /\ sent' = sent \cup {[what |-> IF answer = "ok" THEN "move" ELSE "tried", on |-> c, at |-> day] :
                                c \in m.cards}
    /\ UNCHANGED <<day, setting, upgrades, monitored, disk, file, phase, history>>

GuardRecord(c) ==
    [card |-> c, at |-> day, did |-> setting.guard,
     profile |-> IF setting.guard = "upgradesOff" THEN profile[ItemOf[c]] ELSE "none"]

Unmonitor(c) ==
    /\ Sends("guard", c) /\ setting.guard = "unmonitor"
    /\ \E answer \in Answers :
        /\ Costs(answer)
        /\ monitored' = IF answer = "refused" THEN monitored ELSE [monitored EXCEPT ![c] = FALSE]
        /\ IF answer = "ok"
           THEN ledger' = ledger \cup {GuardRecord(c)} /\ Note("unmonitor", c)
           ELSE UNCHANGED <<ledger, sent>>
    /\ UNCHANGED <<day, setting, profile, upgrades, disk, file, phase, history>>

(* Another card of the profile had it turned off already: recorded, not     *)
(* sent.  Already off in the *arr: neither.                                  *)
UpgradesOff(c) ==
    /\ Sends("guard", c) /\ setting.guard = "upgradesOff"
    /\ LET p == profile[ItemOf[c]]
       IN  \/ /\ ProfileOff(ledger, p)
              /\ ledger' = ledger \cup {GuardRecord(c)}
              /\ UNCHANGED <<upgrades, sent, bustle>>
           \/ /\ ~ProfileOff(ledger, p) /\ ~upgrades[p]
              /\ UNCHANGED <<upgrades, ledger, sent, bustle>>
           \/ /\ ~ProfileOff(ledger, p) /\ upgrades[p]
              /\ \E answer \in Answers :
                    /\ Costs(answer)
                    /\ upgrades' = [upgrades EXCEPT ![p] = (answer = "refused")]
                    /\ IF answer = "ok"
                       THEN ledger' = ledger \cup {GuardRecord(c)} /\ Note("upgradesOff", p)
                       ELSE UNCHANGED <<ledger, sent>>
    /\ UNCHANGED <<day, setting, profile, monitored, disk, file, phase, history>>

AskSearch(c) ==
    /\ Sends("search", c) /\ \A d \in todo \ {c} : Likelihood[c] > Likelihood[d]
    /\ \E answer \in {"ok", "refused"} :
        /\ Costs(answer)
        /\ ledger' = ledger \cup {[card |-> c, at |-> day,
                                   outcome |-> IF answer = "ok" THEN "pending" ELSE "failed"]}
    /\ Note("search", c)
    /\ UNCHANGED <<day, setting, world, file, phase, history>>

SaveRecords ==
    /\ phase = "sending" /\ todo = {}
    /\ phase' = "idle" /\ file' = ledger /\ history' = history \cup sent
    /\ ledger' = {} /\ sent' = {}
    /\ UNCHANGED <<day, setting, bustle, world, todo>>

(* The daemon stops, or the file cannot be written: what was sent is known *)
(* to nobody.                                                               *)
Forget ==
    /\ phase = "sending" /\ bustle < Bustle /\ bustle' = bustle + 1
    /\ phase' = "idle" /\ ledger' = {} /\ todo' = {} /\ sent' = {}
    /\ UNCHANGED <<day, setting, world, file, history>>

(* A cycle is short against a day. *)
NextDay ==
    /\ phase = "idle" /\ day < LastDay /\ day' = day + 1
    /\ UNCHANGED <<setting, bustle, world, file, ledger, todo, phase, sent, history>>

(* The operator undoes, or does, the same in the *arr. *)
Operate ==
    /\ bustle < Bustle /\ bustle' = bustle + 1
    /\ \/ /\ \E i \in Item, p \in Profile : profile[i] # p /\ profile' = [profile EXCEPT ![i] = p]
          /\ UNCHANGED <<upgrades, monitored>>
       \/ /\ \E p \in Profile : upgrades' = [upgrades EXCEPT ![p] = ~@]
          /\ UNCHANGED <<profile, monitored>>
       \/ /\ \E c \in Card : monitored' = [monitored EXCEPT ![c] = ~@]
          /\ UNCHANGED <<profile, upgrades>>
    /\ UNCHANGED <<day, setting, disk, file, ledger, todo, phase, sent, history>>

(* A smaller or larger file lands, or the files go. *)
Land ==
    /\ bustle < Bustle /\ bustle' = bustle + 1
    /\ \E c \in Card, s \in DOMAIN Size : disk[c] # s /\ disk' = [disk EXCEPT ![c] = s]
    /\ UNCHANGED <<day, setting, profile, upgrades, monitored, file, ledger, todo, phase, sent, history>>

QualityNext ==
    \/ StartMoves \/ StartGuard \/ StartSearches
    \/ \E one \in todo : SendMove(one) \/ Unmonitor(one) \/ UpgradesOff(one) \/ AskSearch(one)
    \/ SaveRecords \/ Forget \/ NextDay \/ Operate \/ Land

QualitySpec == QualityInit /\ [][QualityNext]_qualityVars

-----------------------------------------------------------------------------
(* What the operator undoes stays undone: as far as the ledgers were saved, *)
(* an item moved once is not moved again while its record is kept, however  *)
(* the move ended; a card is unmonitored, and a profile's upgrades turned   *)
(* off, once in GuardKeep days whichever of its cards churns.               *)
OperatorNotOverruled ==
    \A a, b \in history :
        (a.what = b.what /\ a.on = b.on /\ a.at < b.at) =>
            /\ a.what = "move" => b.at - a.at >= MoveKeep
            /\ a.what \in {"unmonitor", "upgradesOff"} => b.at - a.at >= GuardKeep

=============================================================================
