------------------------------ MODULE Duplicates ------------------------------
(* The duplicate copies of one movie (dupes/group.rs, dupes/decisions.rs,   *)
(* dupes/remove.rs, the daemon's dupes.rs and the web page's dupes.rs): the *)
(* daemon groups what Plex lists, the operator chooses the copy to keep and *)
(* confirms it, and a later cycle removes the others one by one.  Plex, the *)
(* Radarrs and the operator change the copies between any two steps.        *)
EXTENDS Integers, FiniteSets

CONSTANTS
    Media,        \* Plex `Media` ids of the movie
    File,         \* files of the movie on disk
    Radarr,       \* instances
    NoFile,       \* no file, no instance
    NoDecision,   \* no choice stored
    NoCleanup,    \* no cycle under way
    FileOf,       \* [Media -> File]: the file a version is
    PathOf,       \* [Media -> STRING]: the path Plex gives for it
    Renamed,      \* media whose path, and name or size, Radarr gives otherwise
    Listing,      \* [Media -> Nat]: the order Plex lists them in
    MaxPerRun, MaxTurns, MaxCleanups   \* bounds: removals a cycle, changes by others, cycles

ASSUME DuplicatesAssumption ==
    /\ FileOf \in [Media -> File] /\ Listing \in [Media -> Nat] /\ Renamed \subseteq Media
    /\ NoFile \notin File \cup Radarr
    /\ MaxPerRun \in Nat

VARIABLES
    onDisk,       \* files on disk
    plexLists,  \* media Plex lists: it may lag behind the disk
    tracked,    \* [Radarr -> File or NoFile]
    pinned,     \* pinned, or somebody is partway through
    shown,      \* the copies the page shows: the group last published
    decision,   \* dupes.json
    actedLog,   \* dupes-acted.json: {[copy, outcome, at]}
    cleanup,    \* what a cycle holds, or NoCleanup
    hours,      \* the clock
    turns, cleanups

copyVars == <<onDisk, plexLists, tracked, pinned>>
dupeVars == <<onDisk, plexLists, tracked, pinned, shown, decision, actedLog, cleanup, hours, turns, cleanups>>

-----------------------------------------------------------------------------
(* Grouping. *)

(* `same_file`: the Radarr whose file a version is, of those that were read. *)
OwnerOf(read, at, m) ==
    LET mine == {r \in read : at[r] = FileOf[m]}
    IN  IF m \in Renamed \/ mine = {} THEN NoFile ELSE CHOOSE r \in mine : TRUE

Earlier(listed, m) == {n \in listed : Listing[n] < Listing[m]}

(* `copies`: a version under a path already seen, or of a file an *arr's    *)
(* earlier version already is, is no copy of its own.                       *)
CopiesOf(listed, read, at) ==
    {m \in listed : \A n \in Earlier(listed, m) :
        PathOf[n] # PathOf[m] /\ (OwnerOf(read, at, m) = NoFile \/ OwnerOf(read, at, n) # OwnerOf(read, at, m))}

(* Mutant: an *arr's file under another name does not hold the group. *)
UnmatchedNever(copies, read, at) == FALSE

(* A file Radarr tracks that is none of the copies holds the group. *)
Unmatched(copies, read, at) ==
    \E r \in read : at[r] # NoFile /\ r \notin {OwnerOf(read, at, m) : m \in copies}

(* `Decision::matches`. *)
Matches(choice, copies) == choice # NoDecision /\ choice.keep \in copies /\ choice.copies = copies

Confirmed(choice, copies) == Matches(choice, copies) /\ choice.confirmed

(* `remove::plan`: the copies to remove, unless the choice cannot be acted  *)
(* on.  A copy an *arr tracks goes only when another *arr's copy is kept.   *)
Refused(group, protected) ==
    \/ group.held \/ protected
    \/ \E m \in group.copies \ {group.choice.keep} :
            group.owner[m] # NoFile /\ group.owner[group.choice.keep] \in {NoFile, group.owner[m]}

Removals(group, protected) ==
    IF ~Confirmed(group.choice, group.copies) \/ Refused(group, protected) THEN {}
    ELSE group.copies \ {group.choice.keep}

(* `settled_since`: removed, or failed, since the choice was made. *)
SettledSince(copy, since) == \E e \in cleanup.log : e.copy = copy /\ e.at >= since

-----------------------------------------------------------------------------
DuplicatesInit ==
    /\ onDisk = {FileOf[m] : m \in Media}
    /\ plexLists \in {Media} \cup {Media \ {m} : m \in Media}
    /\ tracked \in [Radarr -> onDisk \cup {NoFile}]
    /\ \A r, s \in Radarr : r # s /\ tracked[r] # NoFile => tracked[r] # tracked[s]
    /\ pinned = FALSE
    /\ shown = {}
    /\ decision = NoDecision
    /\ actedLog = {}
    /\ cleanup = NoCleanup
    /\ hours = 0 /\ turns = 0 /\ cleanups = 0

(* The page: choose, confirm what is chosen, or clear; against the group    *)
(* last published.                                                          *)
Choose ==
    /\ Cardinality(shown) > 1
    /\ \E keep \in shown :
        decision' \in {[keep |-> keep, copies |-> shown, confirmed |-> c, at |-> hours] :
            c \in {FALSE} \cup {TRUE : d \in {d \in {decision} : Matches(d, shown) /\ d.keep = keep}}}
    /\ decision' # decision
    /\ UNCHANGED <<copyVars, shown, actedLog, cleanup, hours, turns, cleanups>>

Clear ==
    /\ decision # NoDecision /\ shown # {} /\ decision' = NoDecision
    /\ UNCHANGED <<copyVars, shown, actedLog, cleanup, hours, turns, cleanups>>

(* A cycle begins: its time is taken here, Plex was read for the evidence. *)
BeginCleanup ==
    /\ cleanup = NoCleanup /\ cleanups < MaxCleanups /\ cleanups' = cleanups + 1
    /\ hours' = hours + 1
    /\ cleanup' = [step |-> "read", at |-> hours', listed |-> plexLists]
    /\ UNCHANGED <<copyVars, shown, decision, actedLog, turns>>

(* `find`: Radarr's files (one that cannot be read counts as none), the     *)
(* grouping and the operator's choice.                                      *)
Find ==
    /\ cleanup # NoCleanup /\ cleanup.step = "read"
    /\ \E read \in {Radarr} \cup (IF turns < MaxTurns THEN SUBSET Radarr ELSE {}) :
        /\ turns' = turns + (IF read = Radarr THEN 0 ELSE 1)
        /\ LET many == Cardinality(cleanup.listed) > 1
               copies == IF many THEN CopiesOf(cleanup.listed, read, tracked) ELSE {}
           IN  cleanup' = [step |-> "found", at |-> cleanup.at,
                           copies |-> IF Cardinality(copies) > 1 THEN copies ELSE {},
                           owner |-> [m \in copies |-> OwnerOf(read, tracked, m)],
                           held |-> Unmatched(copies, read, tracked),
                           choice |-> decision, read |-> read, saw |-> tracked,
                           log |-> {}, budget |-> MaxPerRun, todo |-> {}]
    /\ UNCHANGED <<copyVars, shown, decision, actedLog, hours, cleanups>>

(* `act`: after the plan, when pins and partway viewers are known. *)
Act ==
    /\ cleanup # NoCleanup /\ cleanup.step = "found"
    /\ cleanup' = [cleanup EXCEPT !.step = "act", !.log = actedLog, !.todo = Removals(cleanup, pinned)]
    /\ UNCHANGED <<copyVars, shown, decision, actedLog, hours, turns, cleanups>>

Acting == cleanup # NoCleanup /\ cleanup.step = "act"
Keep == cleanup.choice.keep
Noted(copy, outcome) ==
    [cleanup EXCEPT !.budget = @ - 1, !.log = @ \cup {[copy |-> copy, outcome |-> outcome, at |-> cleanup.at]},
                    !.todo = IF outcome = "failed" THEN {} ELSE @ \ {copy}]

(* `present`: Plex still lists the kept copy. *)
StillListed(copy) == copy \in plexLists

Reaches(m) ==
    /\ Acting /\ m \in cleanup.todo /\ \A n \in Earlier(cleanup.todo, m) : SettledSince(n, cleanup.choice.at)
    /\ ~SettledSince(m, cleanup.choice.at) /\ cleanup.budget > 0

(* Gone from Plex's answer, refused, or not there any more: nothing sent. *)
Checked(m) ==
    /\ StillListed(Keep)
    /\ IF cleanup.owner[m] = NoFile THEN StillListed(m)
       ELSE tracked[cleanup.owner[m]] = cleanup.saw[cleanup.owner[m]]

NotRemoved(m) ==
    /\ Reaches(m)
    /\ \/ ~Checked(m) /\ UNCHANGED turns
       \/ Checked(m) /\ turns < MaxTurns /\ turns' = turns + 1
    /\ cleanup' = Noted(m, "failed")
    /\ UNCHANGED <<copyVars, shown, decision, actedLog, hours, cleanups>>

(* The delete, through Plex or through the second Radarr; the answer or the *)
(* read-back may be lost.  Plex stops listing the version it deleted at     *)
(* once, any other only at its next scan.                                   *)
RemoveCopy(m) ==
    /\ Reaches(m) /\ Checked(m)
    /\ LET r == cleanup.owner[m]
       IN  IF r = NoFile
           THEN /\ onDisk' = onDisk \ {FileOf[m]}
                /\ plexLists' = plexLists \ {m}
                /\ UNCHANGED tracked
           ELSE /\ onDisk' = onDisk \ {tracked[r]}
                /\ tracked' = [tracked EXCEPT ![r] = NoFile]
                /\ UNCHANGED plexLists
    /\ \/ cleanup' = Noted(m, "removed") /\ UNCHANGED turns
       \/ cleanup' = Noted(m, "failed") /\ turns < MaxTurns /\ turns' = turns + 1
    /\ UNCHANGED <<pinned, shown, decision, actedLog, hours, cleanups>>

(* The log is written, or not, and the groups are published. *)
Publish ==
    /\ Acting /\ \A m \in cleanup.todo : SettledSince(m, cleanup.choice.at) \/ cleanup.budget = 0
    /\ \/ actedLog' = cleanup.log /\ UNCHANGED turns
       \/ actedLog' = actedLog /\ cleanup.log # actedLog /\ turns < MaxTurns /\ turns' = turns + 1
    /\ shown' = cleanup.copies
    /\ cleanup' = NoCleanup
    /\ UNCHANGED <<copyVars, decision, hours, cleanups>>

(* The cycle ends early, or the daemon stops: nothing is written. *)
CutShort ==
    /\ cleanup # NoCleanup /\ turns < MaxTurns /\ turns' = turns + 1
    /\ cleanup' = NoCleanup
    /\ UNCHANGED <<copyVars, shown, decision, actedLog, hours, cleanups>>

-----------------------------------------------------------------------------
(* Everybody else. *)
Turn == turns < MaxTurns /\ turns' = turns + 1

(* Plex scans: it lists what is on disk. *)
Scan ==
    /\ plexLists' = {m \in Media : FileOf[m] \in onDisk} /\ plexLists' # plexLists
    /\ UNCHANGED <<onDisk, tracked, pinned, shown, decision, actedLog, cleanup, hours, turns, cleanups>>

(* Radarr imports, takes over or loses a file; one file is tracked once. *)
Retrack ==
    /\ Turn
    /\ \E r \in Radarr, f \in onDisk \cup {NoFile} :
        /\ f = NoFile \/ \A s \in Radarr \ {r} : tracked[s] # f
        /\ tracked[r] # f
        /\ tracked' = [tracked EXCEPT ![r] = f]
    /\ UNCHANGED <<onDisk, plexLists, pinned, shown, decision, actedLog, cleanup, hours, cleanups>>

PinOrUnpin ==
    /\ Turn /\ pinned' = ~pinned
    /\ UNCHANGED <<onDisk, plexLists, tracked, shown, decision, actedLog, cleanup, hours, cleanups>>

DuplicatesNext ==
    \/ Choose \/ Clear \/ BeginCleanup \/ Find \/ Act
    \/ \E m \in Media : NotRemoved(m) \/ RemoveCopy(m)
    \/ Publish \/ CutShort \/ Scan \/ Retrack \/ PinOrUnpin

DuplicatesSpec == DuplicatesInit /\ [][DuplicatesNext]_dupeVars

-----------------------------------------------------------------------------
Deleted(m) == onDisk' # onDisk /\ RemoveCopy(m)

(* What the operator never meant to lose stays: a removal touches one of    *)
(* the copies the operator was shown when confirming, and a file a Radarr   *)
(* tracks -- renamed, unlisted or imported before the cycle looked -- goes  *)
(* only through that Radarr, while the kept copy is another one's.  Except  *)
(* a Radarr that could not be read (dupes.rs:79), one that took over the    *)
(* file after it was, and a file that is two copies (KeptFileStays).        *)
Unknown(r) == r \notin cleanup.read \/ cleanup.saw[r] # tracked[r]
OnlyTheChosenGo ==
    [][ \A m \in Media : Deleted(m) =>
            /\ cleanup.choice.confirmed /\ m \in cleanup.choice.copies
            /\ \A r \in Radarr : tracked[r] \in onDisk \ onDisk' =>
                    \/ cleanup.owner[m] = r /\ cleanup.owner[Keep] \notin {NoFile, r}
                    \/ Unknown(r)
                    \/ \E n \in cleanup.copies \ {m} : FileOf[n] = FileOf[m] ]_dupeVars

(* Violated: the file of the copy the operator keeps stays on disk          *)
(* (group.rs:5-7 says copies that share a file never form a group).         *)
KeptFileStays ==
    [][ \A m \in Media : Deleted(m) /\ FileOf[Keep] \in onDisk => FileOf[Keep] \in onDisk' ]_dupeVars
=============================================================================
