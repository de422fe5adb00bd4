----------------------------- MODULE TorrentHolds -----------------------------
(* Torrents that still hold the library's bytes (torrents.rs,               *)
(* torrents/map.rs, the daemon's torrents.rs and history.rs, and what       *)
(* native/act.rs does with the torrents of what it deleted).  A pass ties   *)
(* cards to torrents by what an *arr's history named when it was last read, *)
(* keeps the cards torrents hold, deletes others and removes their torrents.*)
(* With Maintainerr as the executor it only gives cards up for deletion.    *)
EXTENDS Integers, FiniteSets

CONSTANTS
    Title,         \* cards: movies and seasons the *arrs list, on disk or not
    Torrent,       \* by hash
    NoPass,        \* no pass under way
    ClientOf,      \* [Torrent -> client]
    FolderOf,      \* [Title -> folder]: a season's is its show's
    SavedIn,       \* [Torrent -> folder]: where a torrent's content lies
    TorrentRules,  \* settings: records [native, respect, removes]
    MaxHappenings, MaxPasses   \* bounds: what others do and what fails, passes

ASSUME TorrentAssumption ==
    /\ IsFiniteSet(Title)
    /\ TorrentRules \subseteq [native : BOOLEAN, respect : BOOLEAN, removes : BOOLEAN]
    /\ MaxHappenings \in Nat /\ MaxPasses \in Nat

VARIABLES
    inLibrary,     \* titles with files
    source,        \* [Title -> SUBSET Torrent]: the newest import of each file
    links,         \* <<t, c>>: bytes of c's files are t's; kept after c went
    seeding, met,  \* torrents the clients have; those past their seed goal
    known,         \* arr-history.json: `source` of what was there when read
    undoable,      \* native.json: deletes of the last 30 days
    rule,          \* the executor and settings.json `torrents`
    pass,          \* what a pass holds, or NoPass
    happenings, passes

torrentWorld == <<inLibrary, source, links, seeding, met>>
torrentVars == <<inLibrary, source, links, seeding, met, known, undoable, rule, pass, happenings, passes>>

-----------------------------------------------------------------------------
(* `match_cards`: a card's torrents are those its history names ... *)
ByHistory(listed, c) == known[c] \cap listed
(* ... or, when none of them is listed, those saved in its folder: of a      *)
(* season also while it has no file.                                         *)
TiedTo(listed, c) ==
    IF ByHistory(listed, c) # {} THEN ByHistory(listed, c)
    ELSE {t \in listed : SavedIn[t] = FolderOf[c]}

(* Mutant: a client's outage counts only where nothing else is known.       *)
UnreadableAlone(listed, failed, c) == failed # {} /\ ByHistory(listed, c) = {} /\ known[c] # {}

(* A torrent the history names that no client lists, while one was not read.*)
UnreadableAt(listed, failed, c) == failed # {} /\ known[c] \ listed # {}

(* `removes`. *)
MayGo(t) == rule.removes /\ (t \in met \/ ~rule.respect)

(* `hardlinks`: a file of the torrent is a file under the card's folder.    *)
InFolder(t, c) == \E d \in inLibrary : FolderOf[d] = FolderOf[c] /\ <<t, d>> \in links

(* Mutant: so does a torrent that holds other cards. *)
GoesWithAny(tied, t) == rule.native /\ MayGo(t)

(* `goes`: it is removed with the only card it holds, and frees its bytes.  *)
GoesAlong(tied, t) ==
    rule.native /\ MayGo(t) /\ Cardinality({c \in Title : t \in tied[c]}) = 1

(* `holds`. *)
HeldBy(tied, unverified, c) ==
    LET staying == {t \in tied[c] : ~GoesAlong(tied, t)}
    IN  IF rule.respect /\ ~(tied[c] \subseteq met) THEN TRUE
        ELSE \E t \in staying : InFolder(t, c) \/ t \in unverified

-----------------------------------------------------------------------------
TorrentInit ==
    /\ inLibrary = Title
    /\ source \in [Title -> SUBSET Torrent]
    /\ links \in SUBSET {l \in Torrent \X Title : l[1] \in source[l[2]]}
    /\ seeding = Torrent
    /\ met \in SUBSET Torrent
    /\ known = [c \in Title |-> {}]
    /\ undoable = {}
    /\ rule \in TorrentRules
    /\ pass = NoPass
    /\ happenings = 0 /\ passes = 0

Happening == happenings < MaxHappenings /\ happenings' = happenings + 1

At(step) == pass # NoPass /\ pass.step = step

(* The library is read, and the history of it: again, or the last reading   *)
(* serves, being of today or the history unreadable.                        *)
BeginPass ==
    /\ pass = NoPass /\ passes < MaxPasses /\ passes' = passes + 1
    /\ known' \in {known, [c \in Title |-> IF c \in inLibrary THEN source[c] ELSE {}]}
    /\ pass' = [step |-> "read", cards |-> inLibrary]
    /\ UNCHANGED <<torrentWorld, undoable, rule, happenings>>

(* `gather`: the clients are listed, the cards tied and the links looked at;*)
(* any client may not answer, and any torrent's files may not be readable.  *)
Gather ==
    /\ At("read")
    /\ \E failed \in {{}} \cup {{ClientOf[t]} : t \in Torrent}, unverified \in {{}, Torrent} :
        /\ IF failed \cup unverified = {} THEN UNCHANGED happenings ELSE Happening
        /\ LET listed == {t \in seeding : ClientOf[t] \notin failed}
               tied == [c \in Title |-> TiedTo(listed, c)]
           IN  pass' = [step |-> "act", cards |-> pass.cards, tied |-> tied, deleted |-> {}, gaveUp |-> {},
                        held |-> {c \in Title : UnreadableAt(listed, failed, c) \/ HeldBy(tied, unverified, c)},
                        sawLinks |-> links, sawMet |-> met, sawSeeding |-> seeding]
    /\ UNCHANGED <<torrentWorld, known, undoable, rule, passes>>

(* A card nothing holds is deleted and verified gone. *)
Delete(c) ==
    /\ At("act") /\ c \in (pass.cards \cap inLibrary) \ pass.held
    /\ inLibrary' = inLibrary \ {c}
    /\ pass' = [pass EXCEPT !.deleted = @ \cup {c}]
    /\ UNCHANGED <<source, links, seeding, met, known, undoable, rule, happenings, passes>>

(* `remove_torrents`: those of what was deleted, once every card each holds *)
(* is gone, with their data; a removal may fail.                            *)
Unneeded ==
    {t \in UNION {pass.tied[c] : c \in pass.deleted} :
        /\ rule.removes /\ (t \in pass.sawMet \/ ~rule.respect)
        /\ \A c \in Title : t \in pass.tied[c] => c \in pass.deleted \cup undoable}

RemoveTorrents ==
    /\ At("act")
    /\ \E failed \in (IF rule.native THEN {{}} \cup {{t} : t \in Unneeded} ELSE {{}}) :
        /\ IF failed = {} THEN UNCHANGED happenings ELSE Happening
        /\ seeding' = IF rule.native THEN seeding \ (Unneeded \ failed) ELSE seeding
        /\ pass' = [pass EXCEPT !.step = "done", !.gaveUp = failed]
    /\ UNCHANGED <<inLibrary, source, links, met, known, undoable, rule, passes>>

(* native.json is written. *)
SavePass ==
    /\ At("done")
    /\ undoable' = IF rule.native THEN undoable \cup pass.deleted ELSE undoable
    /\ pass' = NoPass
    /\ UNCHANGED <<torrentWorld, known, rule, happenings, passes>>

(* The daemon stops, or native.json is not written. *)
StopPass ==
    /\ pass # NoPass /\ Happening
    /\ pass' = NoPass
    /\ UNCHANGED <<torrentWorld, known, undoable, rule, passes>>

-----------------------------------------------------------------------------
(* A download is imported: an upgrade replaces a card's files, an episode   *)
(* or an undo adds one; the file is a hardlink or a copy, of one card or of *)
(* all a pack holds.                                                        *)
Import ==
    /\ Happening
    /\ \E t \in Torrent, into \in (SUBSET Title) \ {{}}, replaces, linked \in BOOLEAN :
        LET old == IF replaces THEN {l \in links : l[2] \in into} ELSE {}
        IN  /\ inLibrary' = inLibrary \cup into
            /\ source' = [c \in Title |-> IF c \notin into THEN source[c]
                                          ELSE IF replaces THEN {t} ELSE source[c] \cup {t}]
            /\ links' = (links \ old) \cup (IF linked THEN {t} \X into ELSE {})
            /\ seeding' = seeding \cup {t}
            /\ met' = IF t \in seeding THEN met ELSE met \ {t}
    /\ UNCHANGED <<known, undoable, rule, pass, passes>>

ReachesGoal ==
    /\ Happening
    /\ \E t \in seeding \ met : met' = met \cup {t}
    /\ UNCHANGED <<inLibrary, source, links, seeding, known, undoable, rule, pass, passes>>

(* The operator, or the client's own limit, removes a torrent. *)
ClientDrops ==
    /\ Happening
    /\ \E t \in seeding : seeding' = seeding \ {t}
    /\ UNCHANGED <<inLibrary, source, links, met, known, undoable, rule, pass, passes>>

TorrentNext ==
    \/ BeginPass \/ Gather \/ \E c \in Title : Delete(c)
    \/ RemoveTorrents \/ SavePass \/ StopPass
    \/ Import \/ ReachesGoal \/ ClientDrops

TorrentSpec == TorrentInit /\ [][TorrentNext]_torrentVars

-----------------------------------------------------------------------------
(* A delete frees what it counted: whatever the card shared with a torrent  *)
(* when the pass looked is no torrent's any more once the pass is over,     *)
(* unless a removal failed -- packs, upgrades, torrents saved in a show's   *)
(* folder and links nobody could read notwithstanding.  (Of the torrents    *)
(* the history had named when it was read, and that nobody started again.)  *)
DeletesFree ==
    [][ RemoveTorrents =>
        \A c \in pass.deleted : \A t \in pass.tied[c] :
            <<t, c>> \in pass.sawLinks /\ t \in seeding' => t \in pass'.gaveUp ]_torrentVars

(* A torrent still short of its goal keeps its card, where goals are        *)
(* respected: also when its client did not answer and another one lists a   *)
(* torrent of the same card.                                                *)
GoalsAreKept ==
    [][ \A c \in Title : Delete(c) /\ rule.respect =>
            \A t \in known[c] : t \in pass.sawSeeding => t \in pass.sawMet ]_torrentVars

(* Violated: a torrent that also holds an item that stays is not removed    *)
(* (docs/how-it-works.md:809-811).                                          *)
PacksOutlast ==
    [][ RemoveTorrents =>
        \A c \in inLibrary \ pass.deleted : \A t \in source[c] \cap seeding :
            t \in pass.tied[c] => t \in seeding' ]_torrentVars
=============================================================================
