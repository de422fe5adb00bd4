# Flinch, specified

TLA+ models of [Flinch](../src/README.md), the daemon that decides which movies and
seasons leave a media library, and takes them away without deleting anything a household
still wants. The models are translated from the Rust sources; what the documentation
promises is stated as properties of them, checked by TLC on small libraries, and the most
important ones are proved by TLAPS for libraries of every size.

| Module | What it is |
|---|---|
| `NativeLifecycle` | the pure decision of one native run (`executor/lifecycle.rs`), with the plan's order and release rule |
| `NativeExecutor` | a native cycle, step by step, and everyone who acts between its steps |
| `WarnedDeletion` | the abstract promise: nothing leaves unwarned, no date moves |
| `EvictionLedger` | `capacity/inflight.rs`: what was deleted stays credited until the disk shows the space |
| `MaintainerrSync` | a cycle that deletes through Maintainerr (`maintainerr/`), and everybody else in it |
| `EvictionPlanner` | `plan/knapsack`: the program's rows, the greedy pass, the moves, the release order |
| `GraceStreaks` | `daemon/state.rs`: the grace a title has before it leaves or moves |
| `HouseholdRequests` | signed links, the request book, the owner's decisions (`requests.rs`) |
| `WebSessions` | logins, their pause, single sign-on and the store of sessions (`flinch-web/src/auth`) |
| `Outbox` | `notify/`: who is told what, once, within a budget |
| `QualityActions` | profile moves, the guard against churn, upgrade searches (`quality/`) |
| `ProfileSync` | custom formats and a profile laid over one app (`trash/`) |
| `Duplicates` | the copies of one movie, chosen by the operator and removed (`dupes/`) |
| `InflowControl` | import lists switched off under pressure, and back on (`inflow/act.rs`) |
| `TorrentHolds` | torrents that hold a card's bytes, keep it, or leave with it (`torrents/`) |
| `RetentionRules` | the operator's rules over a show whose facts are partly unread (`rules/`) |
| `FleetWatch` | an *arr's download queue, and what is removed from it (`fleet/`) |
| `NativeExecutorProofs`, `EvictionLedgerProofs`, `WebSessionsProofs`, `MaintainerrSyncProofs` | theorems about the module each is named after |
| `HouseholdProofs` | theorems about `HouseholdRequests`, `GraceStreaks` and `Outbox` |
| `AroundProofs` | theorems about `FleetWatch`, `RetentionRules` and `TorrentHolds` |
| `PlannerProofs` | theorems about `EvictionPlanner` |
| `UpkeepProofs` | theorems about `InflowControl`, `Duplicates`, `ProfileSync` and `QualityActions` |
| `MCNative`, `MCLedger`, `MCSync` | small libraries, disks and collections for TLC |
| `MCHousehold` | composes `HouseholdRequests`, `WebSessions`, `Outbox`, `GraceStreaks` |
| `MCUpkeep` | composes `EvictionPlanner`, `QualityActions`, `ProfileSync`, `Duplicates`, `InflowControl` |
| `MCAround` | composes `TorrentHolds`, `RetentionRules`, `FleetWatch` |

Run `tlc -config MCNative_shelf.cfg MCNative.tla` (and likewise the other `.cfg` files,
named after their module) and `tlapm` on the modules of proofs.

## The system

One daemon, `flinch-arrd`, runs a cycle every few hours or when `run.now` appears
(`bin/flinch-arrd/main.rs`). A second process, `flinch-web`, serves pages from the
daemon's files and drops small request files for it. They share only files on the state
volume, replaced whole (`persist.rs`). Radarr, Sonarr, Plex or Jellyfin, Maintainerr,
Seerr and torrent clients are reached over HTTP, and people use all of them meanwhile.

| Component | State | Operations | Hard because | Must hold |
|---|---|---|---|---|
| Native lifecycle and executor (`executor/`, `bin/.../native/`) | `native.json`: what is on Leaving Soon, what was deleted; the shelf on the media server; the undo queue | plan, withdraw, announce, last look, delete, restore, save | people act between any two steps; calls fail or succeed without an answer; the daemon stops anywhere; title and server change | no unwarned deletion of something unfinished, no deletion over a play or a keep, dates stand, warnings end |
| Eviction ledger (`capacity/inflight.rs`) | `evictions.json`: entries, watches, last readings | observe, settle, record, book, forget, record a move | bytes leave the library days before the disk; bins, torrents, imports and downloads disturb the reading; the file may be lost | never evict twice for bytes still held; no credit forever |
| Maintainerr sync (`maintainerr/`, `handoff.rs`) | `protected.json`, `scheduled.json`; collections and exclusions in Maintainerr | observe, turn rules off, plan, write with look and read-back, save | two owners of one collection; lost answers; a stop between an add and its record; keys change | touches only its own memberships and exclusions; nothing unfinished in a delete collection |
| Plan and solver (`plan/`) | none | candidates, MILP, greedy fallback, moves, release order | precedence of seasons, several disks, caps, rounding | targets covered; no plan, however cut short, leaves a hole in a show |
| Grace streaks (`daemon/state.rs`) | `candidates.json`, `archive-streaks.json` | advance, ripen, send a move, save | triggered runs come faster than the cadence; the clock steps back; writes fail | nothing leaves before its runs and its time |
| Archive moves (`archive.rs`) | streaks | move and read back | credit on the disk left | as the ledger |
| Notifications (`notify/`) | `notify.json`: sent, posts, streaks | events, send, send to people, remember | hourly budget, refused posts, stops, two deliveries of one file | told once; problems only when they last; the budget of any hour |
| Household requests (`requests.rs`, `flinch-web`) | `requests.json` | check, record, decide, prune, forget, gather | handlers run at once; checks go stale before the lock; links outlive what they were signed for | keeps are kept, a link is spent once, only what was approved is forced |
| Web sessions (`flinch-web/src/auth`) | sessions, sign-ins and failures in memory | log in, pause, open, touch, start, claim, redeem, log out | stores at their limits; callbacks twice, late or from elsewhere | whoever uses FLINCH stays in; one session per sign-in; the pause holds |
| Quality actions (`quality/`) | three ledgers | select, send, settle, save | daily caps over several cycles; stops; the operator does the same | the operator is not overruled, caps hold |
| Profile sync (`trash/`) | `trash.json`: what FLINCH created; the queued selection | preview, select, write one by one, read back | adoption by name, ids gone, refusals between writes | what others made stays; a full apply settles |
| Duplicates (`dupes/`) | `dupes.json`, `dupes-acted.json` | group, choose, confirm, check, remove | Plex lags, Radarr imports between grouping and removal | only what the operator confirmed goes |
| Inflow control (`inflow/act.rs`) | `inflow-actions.json` | plan, switch on, switch off, unmonitor | the operator switches the same lists | hands back only what it took |
| Torrents (`torrents/`, `native/act.rs`) | `arr-history.json`; `native.json`'s deletes | list, tie, hold, delete, remove | packs, copies and hardlinks; history a day old; one of several clients silent | a delete frees what it counted; a torrent short of its goal keeps its card |
| Retention rules (`rules/`) | none | gather facts, judge, apply | any fact may be unread; rules of every kind meet on one season | missing facts keep |
| Fleet (`fleet/`) | `fleet-queue.json`, `fleet-requests/`, the published status | observe, take requests, clean up, publish | requests judged by an older read; memory lost | only what can never import goes |
| Taste, signals, capacity forecasts, media-server clients | mostly none of their own | read, decide, one verified call | foreign APIs, floating point, text | see *Not modelled* |

How they meet: a cycle reads the inventory, then the disks, then the evidence
(`main.rs`), advances the ledger, solves, advances the streaks, and gives what is ripe to
one executor: Maintainerr's collections or the native one. Both book the ledger. The
quality steps, the guides' sync, the duplicates and the inflow lists follow, each with a
file of its own, and the notices last. The fleet watch comes before everything else, the
torrents are listed before the plan, and the rules are applied to its candidates. The web
reaches the daemon only through
`restore/<card>`, `run.now`, `fleet-requests/`, `requests.json`, `trash-apply.json`, `dupes.json` and the
settings.

## The native executor

### Correspondence

`NativeExecutor` extends `NativeLifecycle`. A step of the model is a stretch of the code
that nobody else can observe or disturb: it ends where the code awaits a call whose
outcome depends on others.

| Action | Code |
|---|---|
| `Begin` | `cycle` up to the grace streaks: library, keeps as far as Plex gave the keys to ask for them (written to `operator-keeps.json`, or read from it when Maintainerr is out), keep tag, evidence read in full or in part, a closed selection, what is releasable |
| `Plan` | `native::run`: reads the file's records, prunes restorable deletes, calls the lifecycle's `plan` |
| `Withdraw` | `Actor::withdraw`: off the shelf, forgotten in the ledger, then in the state; a failure is forgiven only for a vanished card or a place no longer configured |
| `LastLook`, `Evict` | `Actor::delete`: the recheck of Plex or Jellyfin, whether it is still on the shelf, the call to the *arr (done, refused, or done with the answer lost), the bookkeeping |
| `Announce`, `Unmatched` | `Actor::announce`, one shelf at a time, with what `PlexCollections::ensure` reads back |
| `Acted`, `Undo` | `restore::process` |
| `SaveNative`, `SaveLedger` | the two writes that end a cycle; either can fail |
| `Stop` | a crash, a restart, or an error that ends the cycle early: memory is gone, files stay |
| `Play`, `Keep`, `TakenOffByHand`, `DiskChanges`, `Retitle`, `AskUndo`, `Tick` | the household, the operator, other programs, time |

`leaving`, `deleted` and `booked` are the records in memory; `leavingFile`,
`deletedFile`, `ledgerFile` and `keepsFile` what the state volume holds. `ours` (cards
FLINCH deleted that have not come back), `pledged` (the keep list as the cycles could know
it) and `run.looked` are history: no action reads them.

What is abstracted: a card is a number (numbers order as the ids do); the Leaving Soon
title, the server it is on and whether it can be reached are one value, a *place*; the
evidence is the last play of each card and whether it was read in full; the solver takes
any closed set of what it may take and the streaks let any of it ripen, so every choice
either can make is covered. Seasons gain no episodes; the window is a constant. Torrents,
Seerr, the tidying of empty shelves, and the reset of an unreadable `native.json` are left
out. In this module the ledger only knows which cards are booked; `EvictionLedger` is the
ledger itself.

### Properties

- `NoWarningNoDeletion`: a card somebody still has to finish is deleted only a full
  window after an *earlier, saved* run recorded it on Leaving Soon.
- `ClaimsAreHeard`: no play between the announcement and the evidence read is overlooked,
  nor one by the owner until the last look. Plays by others after the evidence read are a
  limit `docs/how-it-works.md` names, and the property says so.
- `KeptStays`: pins beat the plan. A card the operator kept when a cycle last read Plex and
  Maintainerr together is not deleted until such a cycle finds it kept no more: not by that
  cycle, whether or not the list was written, nor, once it was, while Maintainerr is out of
  reach. A cycle that reads Maintainerr without Plex ends the promise (*Known divergences*):
  without keys it reads an empty list and writes it over the last one.
- `MarkedStays`: the same of the keep tag in Plex; proved for shelves on Plex, and it fails on
  Jellyfin (see *Findings*).
- `DatesStand`: a saved warning is removed or stands.
- `SeasonsWait`: no cap, hold or pin lets a season be announced or deleted at once unless
  the one it follows goes, or is announced, ahead of it in the same run or was announced
  before. Announced is not gone: a finished season may go while the one before it still has
  its window and may be taken back (*Known divergences*).
- `ExpiredEnds`, `UndoAnswered`: a warning whose window ran out ends; an undo request is
  answered.
- `PromiseKept`: all of it implements `WarnedDeletion`, where `warned` is read off
  `native.json`.
- `DecisionsStand`: the inductive invariant, checked before it was proved.

### Runs

| Run | Instance | Shows |
|---|---|---|
| `shelf` | two seasons of a show, a Plex shelf, one delete a run, dry run on and off, window 1, clock 2, two mishaps | the type invariant, the inductive invariant, the safety of deletes, the order of seasons, the refinement |
| `live` | one card, a Plex and a Jellyfin shelf, window 1, clock 3, two mishaps, `FairSpec` | plays are heard and dates stand; the two liveness properties |
| `keeptag_jellyfin` | two cards, one tagged, a Jellyfin shelf | a violation, below |

Bounds. `MaxTime` stops the clock; a window of 1 and a clock of 2 fit announce, wait, delete
and a second announcement, a clock of 3 a play at each of them. `MaxEvents` counts everything
that is not smooth: a play, an operator action, a failed or unanswered call, a stop, a partial
reading. Two of them suffice for every interleaving in which one event hides or undoes another
(a keep during an outage, a play and a lost answer); the mutants show that one or two are
enough to break each property. Cards interact only through caps and a show's order, which two
cards exercise.

Fairness. `FairSpec` adds `WF_vars(Cycle)`: the daemon's loop runs for as long as the
process does, each step has a timeout, and a stop is a mishap of which there are finitely
many. `WF_vars(Tick)`: time passes. People owe nothing. That failures end is the bound
`MaxEvents`: with failures forever neither property is promised by the code, and in dry runs
nothing is done at all, so `live` has none.

### Proofs

`NativeExecutorProofs` proves, from the named assumptions on the constants alone (any
finite library, any shelves, window, caps, clock bound and number of mishaps):

- `TypeCorrect`, `DecisionsHold`: `Spec => []TypeOK` and `Spec => []DecisionsStand`.
- `NoWarningNoDeletionHolds`, `ClaimsAreHeardHolds`, `KeptStaysHolds`,
  `MarkedStaysOnPlex` (assuming no place is on Jellyfin), `DatesStandHolds`,
  `SeasonsWaitHolds`.
- `KeepsPromise`: `Spec` implements `WarnedDeletion`.

The argument. The invariant is `IInv == TypeOK /\ DecisionsStand`. The properties speak of
the moment of a delete, which comes many steps after the reads it rests on, so an
invariant must carry the justification across: `ViewFits` says what the cycle's view
still guarantees while the world moves on (a card's plays are what was read, or are not
older than the reading), `TodoFits` says the same of each card still to be deleted, in
terms of the *saved* warning, `ShelfFits` relates the memory to the file, `LookFits`
covers the gap between the last look and the call. `NextInv` has a lemma per action;
`PlanInv` turns the view into the to-do list through `DueFacts` and `ActingFacts`, the
only places where the lifecycle's definitions are opened. `DeletedFacts` and `DeletedWhy`
then say once why a card that goes was allowed to, and each property follows.

`SeasonsWaitHolds` rests on a second invariant, `ViewFollows`: while a cycle is planning,
each card it may act on follows one eligible before it in the plan or one already on the
shelf in the file. The code's two loops over the plan (`releasable` and the lifecycle's
pass) are stated by what they compute, not by how: `Releasable` and `Passes` are the sets
holding the one result in which every card's fate follows from those of the cards before
it. So a card the pass acts on cannot follow one that waits (`PlanFollows`), and no
induction over the plan is needed. Going through the plan in order, each card's fate is
decided by those before it, so there is exactly one such result; were there none, `Plan`
would be stuck and TLC would report a deadlock.

Left to TLC: liveness.

## The eviction ledger

### Correspondence

A cycle reads the library (`ReadLibrary`), then the disks, and advances the ledger against
both (`Observe`, `storage.rs` `govern` and `observe`/`settle`); the hand-off to
Maintainerr is synced and booked (`HandOff`) or the native executor deletes and books
(`Evict`); cards are moved to the archive (`MoveToArchive`); the file is saved (`Save`) or
not, or the daemon stops (`Stop`), or the file is lost (`LoseFile`). Meanwhile Maintainerr
deletes what its windows release (`Deleted`), bins empty, copies end and torrents let go
(`Frees`), downloads grow and are imported. A card and its move to the archive have
separate entries, as in the code: key `i` and key `-i`.

The disk's used bytes are what is on it: library, bytes that left the library and still
occupy it (`left`), and `noise`. `settled` is history: bytes still in `left` whose credit
ended because a drop was taken for theirs.

Abstracted: sizes are constants (`book` keeps the larger of two sizes while a delete is
under way); a card's earlier deletion is off a disk before it is deleted there again; the
memory of hand-overs, which only tells FLINCH's deletes from others' in reports, is left
out. When two *arrs share a disk and only one answers, `located` are the cards whose disk
is known.

### Properties and runs

- `CreditKept` (`ledger`): a saved credit outlives every cycle until its bin
  window has passed or its card is back. Under every disturbance.
- `CreditEnds` (`ledger`): no credit lasts forever, on a disk that never answers again or
  with a torrent that never lets go. From the cycle that first wrote it to `evictions.json` on
  it has bin window, grace and held credit together, however often it was judged, written
  or failed to be written since. `since` is that cycle's time, kept for the property alone: a
  code that stamped a card gone anew in each cycle would hold its credit past it.
- `CreditCovers` (`covers`): while nothing but FLINCH's deletes frees space on a disk, the
  bytes whose credit ended too early are made up for by credit of bytes already free, but for
  half of the largest card every watch: a drop of half a card's size counts as the card's, and
  what a watch gave too early the next one, which starts at its last reading, forgets. Half a
  card in all is what the comment suggests (`inflight.rs:281-283`), and two cards of sizes 2
  and 3 keep to it; three of sizes 2, 4 and 4 do not once a second watch begins. `watched`
  counts the watches for the property; nothing else reads it.

`ledger` takes one card, its disk and an archive disk, with a bin window of 1, a grace of 1
and a held credit of 2, so that every deadline of `observe` and `settle` falls within a
clock of 6, and one mishap of every kind (an import follows its download for free). A
planned move is not a planned eviction, so the sync of the same cycle has taken the card
back. `covers` takes sizes 2, 4 and 4, three cards of which a drop can pay for another's
twice, and one bin window of 1, so that a card can be held and judged late within a clock
of 2; the held credit and the staleness are past the clock there because credit given up on
purpose is not covered by design. It has no imports and no deletes by others:
`inflight.rs` says that imports can fake a drop.

### Proofs

`EvictionLedgerProofs` proves `CreditKeptHolds` and `CreditEndsHolds` from
`LedgerAssumption`: for every finite library, every set of disks, any sizes, bin windows,
grace and held credit, any disturbance and any number of mishaps.

The argument. A credit is judged by `Observe` and only reaches the file at `Save`, with a
hand-off, deletes and moves between; so the invariant `IInv` says of each of those states
that what the *file* credits still stands in the ledger in memory, or its window is over
at the cycle's time, or its card is in the library the cycle read (`SavedStands`). Three
facts make that inductive. Bytes are held only after their window (`HeldAfterWindow`), so
giving up held credit never cuts a window short. A card Maintainerr can still give back
was in the library this cycle read (`SeenFits`), so taking back its entry loses no credit
of a card that is gone. A move overwrites only an older move of its card, and a move has
no bin window. `SightKeeps`, `SettledEntry` and `BookFits` say once what `observe`,
`settle` and `book` do to an entry; `NextInv` has a lemma per action.

For `CreditEndsHolds` one more invariant, `SinceFits`: a credit that stands was stamped no later
than the cycle that first wrote it, in the file and in memory. `ObserveGone` and
`HandOffGone` show why: a reading and a hand-off leave the stamp of a credit in the file as it
is or end the credit. With that the deadlines of `observe` count from `since` at the latest.

`CreditCoversHolds` is proved for a world where nothing else frees space and no credit is
given up before the clock stops (`NothingElse`: `Disturbance = {}`, `MaxTime <= Stale`,
`MaxTime <= HeldCredit`, as in the `covers` run), for any cards, sizes, windows and disks,
with or without an archive, and any number of downloads and silent disks. The argument is
bookkeeping. Call `Excess(v)` the bytes settled that still occupy the disk less those free
and still credited. The card an entry is of is on the disk it names or left it last
(`EntryPlaced`), what left a disk and occupies it is credited there once or settled
(`LeftFits`, `CreditedOnce`), and what the cycle's library has that the disk has not is
tracked (`CycleFits`): so what a reading shows beyond library and credit is the downloads
and the excess, nothing else (`OtherIs`). `Allowed` says what a watch then promises: the
excess is within what the watch has spent of the drop since its first reading. The walk over
the evictions due spends on each its size and never more than half a card past the drop
(`JudgeSpends`, by induction on the walk), so a watch adds half of the largest card at most
(`SettleAllows`), and what it ends raises the excess and the reading kept by the same bytes
(`EndedBooks`). Freed bytes lower the excess, downloads raise only the reading
(`AllowedLess`), and every other step leaves both alone; `NextCover` has a lemma per action.
Sums are over sets of entries, by induction on those sets (`EverySubset`, `BytesAdd`,
`BytesUnion`, `BytesCards`). `CoverInv` was checked by TLC with two and three cards, and with
an archive disk, before it was proved.

## The Maintainerr sync

### Correspondence

`MaintainerrSync` is a cycle with `executor: maintainerr`. A Plex item is a *key*; the
exclusions of a key are listed by its show's key (`Above`). An exclusion is a row of an id
and a key, as Maintainerr holds it.

| Action | Code |
|---|---|
| `Observe` | the files are read and pruned against what Maintainerr holds, and `plan_sync` works out every write of the cycle |
| `TurnOffRules` | `own_rules.rs` `turn_off`: any part of it may fail |
| `LookBefore`, `Write`, `ReadBack` | `execute.rs`: rows seen before a protection is posted, the call (refused, done, or done with its answer lost), and what is recorded from the read-back |
| `Skip` | a card whose step did not complete is left alone for the rest of the cycle |
| `SaveProtected`, `SaveScheduled` | the two files, in that order |
| `Stop` | a crash or restart anywhere |
| `Exclude`, `Unexclude`, `PutIn`, `TakeOut`, `Configure`, `Handle`, `Watch`, `Rekey` | the operator, Maintainerr, the household and Plex |

`made` (the ids of rows FLINCH's calls made) and `calm` (nothing failed, nobody interfered
since the cycle began) are history. Movies and shows are planned alike and apart, so one
kind is modelled. Dry runs, warnings and the reports are left out.

### Properties and run

`sync` takes two seasons of one show with three ways of being found in Plex (one missing,
both there, both of one item), a collection that deletes and one that warns, one card a
run. Alone, a card meets three mishaps; two cards meet one. Others do not act inside a
single write (`Races = FALSE`): what happens when they do is under *Known divergences*.

- `UnfinishedWaits`: after an undisturbed cycle, however confused Maintainerr and the files
  were before it, an unfinished card is in no collection that would delete it unwarned.
- `KeptAreCovered`, `NoShieldOutlives`: a protected card has an exclusion, and FLINCH's own
  exclusions shield only what it protects, holds or cannot judge.
- `MembershipsWanted`: what FLINCH recorded as its own membership is of a card it still
  evicts, and where it is warned about while unfinished.
- `OnePlanner`: no rule of Maintainerr's fills a collection FLINCH plans for.
- `OperatorRowsStay`: FLINCH removes only exclusions its own calls made.

The invariants about what a cycle leaves say *cards that share no Plex item*; two cards of
one item are a known divergence.

## What reaches people

`MCHousehold` puts four components in one run. None reads what another keeps (each has a
file or a memory of its own), so a behaviour of one part with the others at rest covers
every combination. Handlers and browsers are alike, and titles too, which is the symmetry
the run uses.

**Requests** (`HouseholdRequests`). A web request first checks its link against the
clock, the settings and the library (`Check`), then waits for the lock and works out its
answer (`ReadBook`: `forget_gone` and `record`, or `decide`), then writes (`Write`,
`NotSaved`). The daemon takes pins and forced removals once a cycle (`Gather`). Settings
change, cards go and come back, the web restarts, the book is lost. A signed link is the
content of its token; any token the daemon may have signed so far can be pressed. A web
request takes at most `Patience`.

- `KeepIsKept`: a keep a page confirmed, at its first press or a later one, pins its card
  until the end the book has for it, whatever is pressed, decided or pruned at the same time. The
  later end a repeated press is shown is in no file (*Known divergences*).
- `SpentOnce`: no link makes a second request, not even after its first was denied, until
  the book forgets the first, `ResolvedTtl` after it was settled. A link that lives that long may
  then make one more (*Known divergences*).
- `ForcedIsApproved`: what a cycle forces out an admin approved, and no confirmed keep
  holds it.

**Sessions** (`WebSessions`). A request reads the clock and its cookies on arrival and
takes the locks later (`Arrives`, then `Judge`, `TurnAway`, `Begin`, `Claim`, `Redeem`,
`OpenSession`), so a login that came before the pause can be judged after it.

- `SessionsOutliveUse`: a session ends by its own browser, by disuse, or as the one
  longest unused when the store is full, up to the day its end may lag.
- `PausesHold`: once a failure started a pause nothing is judged before its end, and no
  pause exceeds the longest. The reference for the doubling is a recursive function.
- `OneSessionPerSignIn`: a sign-in opens one session, in the browser it began in.

**Notices** (`Outbox`). A cycle's facts become events (`Cycle`), each recipient's unsent
events become posts, sent one by one (`Post`, `Defer`), and `notify.json` is written once
after them (`Finish`), for the channels and then again for people's own addresses.

- `ToldOnce`: no recipient gets an event twice within the time the file remembers it
  (`SENT_TTL_SECS`), posts that arrived without an answer counted, but for two things: what the
  file was not given to remember, and an event whose answer was lost, which the next cycle
  tells again (*Known divergences*). Never twice by one delivery.
- `ToldAfterPersisting`: a problem is told only when enough cycles in a row saw it; cycles
  that failed early do not break or lengthen the other problems' rows.

**Grace** (`GraceStreaks`). `Release` advances the streaks of a plan and writes them
before anything is handed over; `PlanMoves`, `SendMove`, `SaveMoves` do the same for moves
to the archive, where the file is written after.

- `GraceIsEarned`: what is handed over or due to move was named by as many consecutive
  plans as the grace asks, and these took as long as they normally do.

Bounds. Each part's clock fits one expiry of everything it dates (keeps of 1 and 2 ticks,
links and resolved requests of 2, as long as each other like the code's 90 days, in 3;
sessions of 3 in 4, an hour of 2 in 3), two actors meet at every lock, and stores hold one or
two so that they overflow. One upset a behaviour is enough for every mutant.

## The upkeep of a library

`MCUpkeep` does the same for what a cycle does besides deleting by the rules.

**Plan** (`EvictionPlanner`). A case is built unit by unit, up to three, of 18 kinds:
sizes, regrets, volumes, loose or of one show, played or not, open or closed, ruled in
each way, already handed over. `Rows` are the constraints of the 0-1 program and `Optimal`
what HiGHS may return; `Greedy`, `GreedyMoves` and `ReleaseOrder` follow the code step by
step. Every case is a state, and the properties look at every plan of it.

- `PlanCovers`: the greedy pass meets the program's hard rows, and these can always be met:
  the targets in quanta, must-go units, the archive's room.
- `PlanOrphansNothing`: every prefix of the release order, and whatever part of it is ripe,
  leaves a show without a hole, with what was handed over before.

`OneDisk` assumes that the seasons of a show share a volume, as `govern.rs:27-33` builds the
map from the show's one path. The greedy pass relies on it: if a season waited for one on
another disk that is already covered, the walk would pass the second over, never reach the first,
and leave its target uncovered although `knapsack.rs:112` calls its result feasible.

**Quality** (`QualityActions`). Each of three steps reads its ledger, settles and prunes
it, selects, sends one item at a time and saves at the end. Which step a run has is a
setting; the advice is any set.

- `OperatorNotOverruled`: a move, an unmonitoring or a profile's switch is not made again
  while its record is kept, whatever the operator did and however many cards share it.

**Guides** (`ProfileSync`). A format is a name and whose conditions it holds. `Preview`
is the comparison; `WriteFormat` to `DeleteProfile` are the requests, in the code's order,
each taken, refused, or taken without an answer; `SaveSync` reads back.

- `OthersStay`: nothing FLINCH did not create is deleted unasked.
- `AppliedSettles`: a full, undisturbed apply leaves nothing to do.

**Duplicates** (`Duplicates`). `BeginCleanup` (Plex was read), `Find` (the Radarrs are
read and the copies grouped), `Act`, `RemoveCopy` or `NotRemoved`, `Publish`; the operator
chooses and confirms against the group last shown.

- `OnlyTheChosenGo`: a removal takes a copy the operator confirmed, and a file a Radarr
  tracks goes only through that Radarr, while the kept copy is another one's. Excepted are a
  Radarr that could not be read or took the file over since (*Known divergences*), and one
  file that is two copies (*Findings*, 3).

**Inflow** (`InflowControl`). A run plans from its record and the disks, switches lists
back on, then off, then unmonitors, and saves. Each of these is a look (`Look`, the GET), a
write (`Put`) and a look at what came of it (`Confirm`), and the operator may switch the same
list before, between and after them.

- `HandsBackItsOwn`: a list is switched on only if FLINCH switched it off, or the operator
  did in the moment between FLINCH's look and its write (`crossed`; *Known divergences*), and a
  season the operator monitors again is left alone while the record remembers it.

Bounds. Three units make a chain with something beside it; two cards of one show and a film
share profiles and caps; two formats and one profile are every order of writes; three
copies and two Radarrs are a kept copy, one to remove each way, and a third nobody chose.

## What stands around the library

`MCAround` puts three more components in one run, as `MCHousehold` does: a behaviour is of
one part, with the others at rest.

**Torrents** (`TorrentHolds`). A pass reads the library and the *arrs' history, afresh or
from yesterday's file (`BeginPass`), lists the clients, ties each card to the torrents its
history names or, failing that, to those saved in its folder, and works out what they hold
(`Gather`); it deletes cards nothing holds (`Delete`), removes the torrents of what it
deleted (`RemoveTorrents`) and writes `native.json` (`SavePass`). Meanwhile downloads are
imported, as hardlinks or copies, of one card or a pack, torrents reach their goals or are
dropped, clients are silent and files unreadable. `links` says which bytes a torrent shares
with a card, also after the card went: that is the space a delete did not free. Settings and
the executor are a constant of the behaviour. Clients, hashes and paths are values; a
listing, a removal and its read-back are one step each.

- `DeletesFree`: what a deleted card shared with a torrent it was tied to is no torrent's
  once the pass is over, unless a removal failed.
- `GoalsAreKept`: a torrent short of its goal keeps its card, also when its own client did
  not answer and another one lists a torrent of the card.

**Rules** (`RetentionRules`). A state is a show, what could be read of it and a list of
rules; the operator adds rules, the next cycle reads more. `Verdict` is three-valued, as in
the code, and `Keeps`, `Unchains` and `ForceOf` are what `judge` and `apply` make of it.

- `MissingFactsKeep`: reading more never turns a season the rules let go into one they keep,
  or weakens a force, and a season let out of its show's order stays kept however the missing
  answers turn out.

**Fleet** (`FleetWatch`). `AskRemoval` is the page, by the published status; `Observe` reads
the queue and judges it with the memory of the last reads; `TakeRequest`, `AutoRemove` and
`PublishFleet` are the rest of the watch. The *arr changes its mind in between.

- `OnlyHopelessGo`: a record that is removed could never import, by what the *arr says at
  that moment, unless it turned after this watch read it.
- `StalledForLong`: a download called stalled made no progress for the time the setting
  says, whatever was lost or could not be read or written; except after a reading without
  bytes left, or bytes that grew since, until fewer are left than remembered (`amiss`, *Known
  divergences*).

Bounds. Two torrents of two clients, one saved in the show's folder, and two seasons are
the smallest pack that outlives a season; two passes and one happening let a card come back
in between. Two rules of twelve kinds are every pair of effects that can meet on a season, of
four seasons with the second in every standing. Four hours are two full stalls; requests name
downloads one by one, so one download is enough.

The components of this section and the two before it have safety properties only: each is a
pass that runs when the cycle does, and nothing waits in them that the cycle does not take up
again.

## Findings

Each is a run TLC must find violated, against a sentence of the repository.

1. `keeptag_jellyfin`: README says pins beat the plan, a Plex keep tag among them. With
   the shelf on Jellyfin, a Plex that cannot be read counts as one without keep tags.
2. `people`: `notify/personal.rs` promises delivery within the hourly budget, and
   `notify.rs` that what is past it waits. `send_personal` counts every post it ever
   made; only `send_at` forgets old ones, and with no channel configured that returns
   first. An address is told nothing after its first `max_per_hour` messages.
3. `mounts`: `dupes/group.rs` says copies that share a file never form a group. Versions
   are compared by path, so one file under the paths of two mounts is two copies, and
   removing one removes the file of the other.
4. `packs`: `docs/how-it-works.md` says a torrent that also holds an item that stays is
   never removed. Cards deleted in the last 30 days count as gone, also one imported again
   since: a pack goes with its second season though the first is back.

## Known divergences

Met while modelling, where the code does other than a comment or the README says. The
modules follow the code, and the properties above are stated so that they hold.

- *Seasons leave in order* (README): the plan keeps the order, but a run whose last look
  keeps one season still deletes the next one in the same run (`native/act.rs:251`). Nor does
  a later season wait until the one before it is gone, as `lifecycle.rs:15-17` has it ("a show
  never loses a later season before the one it must follow"): only the season right before it
  counts, and to be announced is enough (`lifecycle.rs:196`). A finished season is deleted at once
  behind one whose window still runs, and which may be taken back later, or in this run.
- Pins beat the plan (README): Maintainerr's exclusions are looked up by the keys Plex gave, so
  while Plex is unreadable and Maintainerr is not, the keep list is empty, pins nothing, and is
  written over `operator-keeps.json` (`main.rs:213`, `:224-231`, `maintainerr/plan.rs:265-276`).
  A kept card on a Jellyfin shelf is then deleted; on a Plex shelf one is when Plex comes back
  and Maintainerr is out, because the file that stands in for it is empty.
- What is in a recycle bin is credited (README): a delete the *arr carried out and whose
  answer was lost is booked nowhere (`native/act.rs:288`).
- A recorded card was verified on the shelf (`executor/state.rs:15`): of a new shelf only
  the first card is read back (`plex/collections.rs:171`).
- Each drop pays for one eviction only (`capacity/inflight.rs:282`): half a card's size
  frees it and its full size is spent, so one large drop can pay for two (`:313`), and every
  watch may do so again, because the next starts at the reading the last one left (`:324-329`).
- A lost ledger costs one run without credit (`inflight.rs:118`): a card deleted before the
  loss is not in the library and is never booked again (`handoff.rs:134`).
- An add whose answer was lost is taken back (`maintainerr/plan.rs:12-13`): it was recorded
  nowhere, so nobody takes it back (`:364`), except an unfinished card's.
- Kept cards have exclusions (`maintainerr/plan.rs:79`): of two cards of one Plex item the
  kept one counts as covered by the other's exclusion, which the same plan releases
  (`:480-486`).
- Exclusions the operator made stay (`maintainerr/execute.rs:191`): a row added between
  the look before a protection and its read-back is claimed as FLINCH's and later released.
- A list FLINCH switched off is switched back on (`inflow/act.rs:10-13`): a switch whose
  read-back failed is not recorded, and the list stays off. One that was already off is never
  switched on (the same lines): a list the operator switches off between FLINCH's GET and PUT is
  read back as off, confirmed and recorded, and switched on later, though FLINCH changed
  nothing (`inflow_act.rs:136-148`).
- At most once per channel (`notify.rs:8`), each person's events once (`personal.rs:68`): a
  post whose answer is lost or comes too late is an error like any other
  (`outbox.rs:191-199`, `:246`, `personal.rs:96-110`), its events stay unsent, and the next
  cycle tells them again.
- A stalled download made no progress: a record without `sizeleft`, or with a negative one or
  NaN, reads as 0 bytes left (`fleet/queue.rs:71`, `:234-235`), and the next reading is not
  less. However much was moved between the two, it counts as no progress (`:236-237`), and the
  download can be called stalled while it moves, until a later reading is below the one
  before. So can one whose client checked its files again and has more left.
- A Plex removal never hits Radarr's file (`dupes.rs:85-87`): of a movie whose Radarr could not
  be read the files count as nobody's (`:77-81`), so a tracked one may be removed through Plex;
  and so may one a Radarr takes over between grouping and removal.
- Two wanted formats that match one live format rename it on every run
  (`trash/diff.rs:84-87`); `AppliedSettles` excludes them (`Collide`), by what the run's
  writes matched last. "No profile uses any more" (`diff.rs:5-6`) means no *synced* profile.
  An app taken out of the settings for one run loses its record of what FLINCH created
  (`trash_sync.rs:181-215`).
- A move whose answer was lost is "tried again in a day" (`quality/act.rs:250`), but its
  profile is compact by then and it is never searched. Headroom for upgrades is taken
  afresh each cycle (`quality/upgrade.rs:237`). Moves whose ledger was not written count
  against no cap.
- Only a season nothing else keeps leaves its show's order (`rules.rs:201-203`): a plain keep
  that is uncertain gives way to a certain retention rule, and the season leaves it.
- A link without a leave date lives up to 90 days rounded up to a day, one with a leave date
  no longer, and the book forgets a request 90 days after it was settled: a link whose request
  was denied or ran out at once may make a second one on its last day, though "a second click
  finds it instead of making another" (`requests/link.rs:142-143`, `:9-11`). `SpentOnce` says
  that it cannot be sooner.
- A keep lasts until the date its page shows (`requests.rs:44`): a repeated keep gets a later
  end in `record` (`requests.rs:176`), and its page shows it
  (`flinch-web/src/requests.rs:188-190`), but only a new request is written (`:120`). The card
  is kept until the end the book has.
- Approved removals settle only when somebody presses a link for a new request.
- An exclusion recorded under a former ratingKey of a card stays, in Maintainerr and in
  `protected.json`, when the card already sits in its collection: its releases look under
  the present key only (`maintainerr/plan.rs:398-404`). It covers nothing there.

## Proofs and their reach

The executor's and the ledger's proofs are described in their sections. The other modules
prove what the remaining runs check on small instances. Each rests on no more than the
named assumption of the module it is about, and on what a theorem's own ASSUME says.

`WebSessionsProofs` (`SessionAssumption`: any browsers, requests in flight, session
ids and sign-in states, any lifetimes and limits):

- `OneSessionPerSignInHolds`, `SessionsOutliveUseHolds`: the two properties above.
- `AccessHolds`: the invariant `AccessInv` they rest on.
- `PausesHoldHolds`, with `PauseFitsHolds`: the pause kept is the one due, counted as the
  comment has it.

A request is answered in several steps with the world moving between them, so the
invariant speaks of requests half done. `ClaimsFit` says of a request past its callback
that its state is no longer pending, that no session was opened for it yet, that no other
request holds it, and that the browser is the one that started it. That is inductive only
because a browser holds none but states it started, and a state once drawn is never drawn
again (`FlowsFit`). `EndsFit` ties the end of a session to its last use, at most a refresh
late, which is what makes the store's victim (the session ending first) the one longest
unused, up to that lag. `Arrives` reads the clock first, so the types say that what a
request read is never ahead of the clock.

The code shifts once by at most ten places and cuts off once; the comment, and `RefPause`,
double and cut off at each failure. That the two agree for any first and longest pause
(`PausesAgree`) is an induction over the failures, done with the well-foundedness of `<` on
`Nat` (`FromZero`), and holds because ten doublings of the first pause reach the longest
one, which `SessionAssumption` asks of the two constants (30 s and 15 minutes do).

`HouseholdProofs` (`RequestAssumption`: any cards, people, handlers, times; a web request
lasts at most `Patience`):

- `KeepIsKeptHolds`, `ForcedIsApprovedHolds`, and `BookStaysOrderly` for the invariant
  `RequestsInv` they rest on.
- `SpentOnceHolds`, for any lifetimes, the code's 90 days rounded up included.

A book is orderly when a token made one request, a card is asked out once, and every
request is sane by itself (`OneEach`, `OneOpen`, `Sane`); a handler that holds the lock
works on the book as it is (`OneHolds`), which is what makes its write safe though it
checked its link long before. `PromisesInBook` and `ApprovalsGiven` tie the book to the
history. For `SpentOnce`, `SpentInv` adds that a token that made a request still has it in the
book, settled when the history says, or that was settled `ResolvedTtl` ago: `prune` drops
nothing sooner, and what a write settles itself it keeps (`ForgottenIsOld`). `record` finds a
request by its token before it makes one, so only a forgotten token makes a second.

`AroundProofs` (`FleetAssumption`, `RulesAssumption`, `TorrentAssumption`):

- `StalledForLongHolds`, `OnlyHopelessGoHolds`, and `MemoryKeepsBehind` for `FleetInv`: a
  memory of a download is never ahead of it, unless it was read amiss or its bytes grew since (its
  flag `amiss`, which a lost memory loses too), and what a cycle read as hopeless still is, or
  turned since. Both survive any restart because only reads write the memory.
- `MissingFactsKeepHolds`, for any list of rules: an answer known from less stays the
  answer (`Settles`), which `And`, the scopes and each effect preserve.
- `DeletesFreeHolds`, `GoalsAreKeptHolds`. `GoesOrShares` says of a gathered pass that a
  torrent tied to a card that may go shares nothing with it or goes with it and holds no
  other card; packs make that more than a fact about one card.

`MaintainerrSyncProofs` (`SyncAssumption`: any finite set of cards and keys, any
collections, titles, sections and caps; and `~Races`, as in the run: others act between
FLINCH's writes, never inside one, because what happens then is a known divergence):

- `OperatorRowsStayHolds`, and `OwnRowsAreOwn` for the invariant `OwnInv` it rests on.
- `UnfinishedWaitsHolds`, `KeptAreCoveredHolds`, `NoShieldOutlivesHolds`,
  `MembershipsWantedHolds`, `OnePlannerHolds`, and `CalmCyclesKeepFaith` for the invariant
  `CalmInv` they rest on.

`OwnInv` says that a row recorded as a card's own was made by FLINCH for the key the record
names (`Claims`). That survives a lost answer because between the look before a protection
and its read-back only FLINCH's row is new (`Looked`, `AddedOnly`), and a failed read-back
records nothing.

The five promises are about the end of a cycle, many calls after the one view it was
planned from. `CalmInv` carries them across: from the moment the plan is drawn up each is met
or waits for an act that is left (`KeptFit`: the card is to be protected, or something covers
it that the plan does not release; likewise `WaitFit`, `MembershipsFit`, `ShieldsFit`). The acts
of one card cannot undo what another was promised, since the keys of a card that shares no
Plex item are nobody else's and nobody else's record names them (`ActsFit`, from
`UnsharedKeys`). A call that fails ends the promise (`DisturbedKeepsCalm`); one that does not
shows what it wrote (`WriteShows`). `PlanActsFit`, `PlanKeeps`, `PlanWaits` and `PlanShields` open
`plan_sync`, once, for any state of Maintainerr and the files. `LeastNatural` is what makes
*the next act* exist: the order of the writes is by rank.

`HouseholdProofs` on grace and notices (`GraceAssumption`, `OutboxAssumption`):

- `GraceIsEarnedHolds`, and `GraceInvHolds` for `GraceInv`: a streak on file is as many of the
  last runs as it says, each of which named the title, since the time it says. While moves are
  made the file is one run behind, and what was sent has lost its streak (`MoverFits`). An
  interval takes time, which is what turns counted runs into days.
- `ToldAfterPersistingHolds`, `ToldOnceHolds`, and `OutboxInvHolds` for `OutboxInv`: a streak
  is one of the log of cycles, written or not, and what was told and answered within
  `SentTtl`, and the file given to remember, is on it or in the copy a delivery works on
  (`Covers`). Whoever did not answer is posted nothing more by that delivery (`LeftOut`). An
  event's post is taken out of the work before the next is chosen, so the second delivery of a
  cycle, to people, is planned from what the first remembered.

`PlannerProofs` (`PlannerAssumption`, `OneDisk`: any units, in any number and order, any
sizes, regrets, targets and room; the seasons of one show share a volume):

- `PlanOrphansNothingHolds`. A set is `Whole` when whatever a member waits for is in it;
  `Closing` gives such sets, and `EdgeAhead` says that every season that waits has an edge to
  the next of its chain. Along a release the taken ones and the ready ones stay in line
  (`InLine`): what is taken is whole after every step, and a unit is ready as soon as all it
  waits for is taken. So every prefix is whole (`CutShort`), none is left out
  (`AllReleased`), and what the grace lets go follows the same order (`ReleasableFits`).
- `PlanCoversHolds`. When the walk ends, each volume is covered, or all that is open there was
  taken or passed over once it was covered (`Passed`, `Ends`). A must-go unit lifts what it
  waits for to its tier (`TiersSteps`, `MustAhead`), so no stop comes before it. Rounding up
  makes quanta of a union no more than the sum, and room rounded down never promises a byte the
  archive has not (`QuantizeFits`, `RoomFits`). `RowsMeet` proves the comment of
  `knapsack.rs:306`: taking everything open meets every row.

The planner is full of recursive functions over the units. Their values are found by induction
on the step: a set of step numbers that holds 0 and with each its next is all of them
(`UpTo`, from `Smallest`), and a function defined by its last step exists (`WalkExists`).

`UpkeepProofs` (`QualityAssumption`; of the guides only that the synced profile's key is no
format's, since trash.json keeps them in two maps; nothing of the other two):

- `HandsBackItsOwnHolds`, and `InflowHonest` for `HonestInv`. A list is switched on from what a
  run planned, the plan is made from what the run read, and the run read the file the run
  before it wrote: `HonestInv` says of each of the three that a list in it is one FLINCH's own
  write switched off, or the operator did between the look and the write. None of them alone is
  inductive, nor are all three without the write under way (`WriteHonest`): a list looked at and
  found on still is when it is written, unless it is crossed, and once written off it is
  FLINCH's, which is what the read-back records.
- `OnlyTheChosenGoHolds`, of any files and paths, and `CopiesInvHolds` for `CopiesInv`: what a
  cycle removes was worked out from the group it found, and that from what the Radarrs it read
  tracked then.
- `OthersStayHolds`, and `SyncInvHolds` for `SyncInv`: an id on FLINCH's record, on file or in a
  run, is behind the app's counter and no format of the operator's (`Flinchs`), so it never
  becomes one; every deletion a run took on may be made (`MayGo`). No step turns an id over to
  somebody else (`Tracked`), whatever is edited, refused or lost in between.
- `AppliedSettlesHolds`, and `SettleInvHolds` for `SettleInv`. The property compares two previews
  with all the writes of an apply between them. `Settles` says what holds after each of them: a
  wanted format is laid out or on the list, the profile scores what the formats' ids are now or is
  on the list, and so on for sizes and deletions; and every job left is about the object the
  settings lead to *now*, although the earlier writes may have created or renamed one
  (`MatchStays`). Two parts of it carry the argument. A format that is created changes what the
  profile has to score, so the profile must still be on the list: it is, because a profile never
  scores the id of nothing (`NamesFit`). And no two formats lead to one object at the end, so
  none did on the way (`FormatSettles`): without that a write takes the name another was matched
  by. The order of the stages is needed once, when the profile is written (`ProfileFirst`).
  `NamesFit` and `JobsFit` hold of disturbed runs too: names and ids are unique in the app, one
  record per key.
- `OperatorNotOverruledHolds`, and `QualityInvHolds` for `QualityInv`: a write whose record would
  still be kept has one on file that shows it (`Remembered`), through settling and pruning;
  what a run has left to send repeats no such write (`TodoOutdated`), nor does what it sent
  (`SentOutdated`). A show's cards go with one move, so nothing sent goes stale for what is left.

What stays with TLC. Liveness under fairness (`ExpiredEnds`, `UndoAnswered`), which the
prover cannot do: every other property a passing run checks is a theorem.

## Not modelled

- Of modelled components: Seerr and empty-shelf tidying in the native executor,
  and the quarantine of an unreadable `native.json`; dry runs, warnings and reports of the
  sync; message texts, the test button and channel addresses that do not resolve; the
  recommendation of a copy, folders nobody owns, copies only an *arr lists; the guide's
  files and the bodies built from them; how regret is scored and a root folder picked; the
  last good settings and the published snapshots; the preview of rules; Prowlarr's indexers.
- *Capacity forecasts and governance* (`capacity.rs`, `govern.rs`): floating-point trends;
  the ledger takes what a disk reads, and the executor any plan they could ask for.
- *Media-server clients and the joins* (`plex.rs`, `plex/resolve.rs`, `jellyfin/`, `watch.rs`):
  HTTP and the matching of GUIDs and titles. The executor and the sync take their answers,
  partial and missing ones included, and the sync models an item found under another key.
- *Taste and signals* (`taste.rs`, `fit.rs`, `embedding.rs`, `signals.rs`): floating-point
  learning. It orders what the solver would choose, and every choice is covered.
- *Web UI*: pages and static routes.

`PROJECT.json` lists every component with the reason.
