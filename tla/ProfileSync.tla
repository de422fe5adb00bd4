----------------------------- MODULE ProfileSync -----------------------------
(* The quality sync of one Radarr or Sonarr (trash.rs, trash/diff.rs,       *)
(* trash/apply.rs, trash/prune.rs, the daemon's trash_sync.rs and the web   *)
(* page's trash.rs): custom formats and a quality profile laid over what    *)
(* the *arr holds.  A run reads the app, compares it with the settings and  *)
(* with the record of what FLINCH created, writes the selected changes one  *)
(* request at a time, reads back and saves trash.json.  The operator works  *)
(* in the same app, changes the settings and picks changes from the page;   *)
(* answers get lost and the daemon stops anywhere.  A format is its name    *)
(* and whose conditions it holds, a profile the formats it scores.          *)
EXTENDS Integers, FiniteSets

CONSTANTS
    Guide,    \* trash ids of the guide's custom formats
    Order,    \* [Guide -> Nat]: the order of their ids
    Synced,   \* the name of the synced profile, and of its trash id
    Own,      \* conditions, ladders and sizes the operator made up
    NoRun,    \* no run under way
    Upsets,   \* bound: what the operator, the network and restarts do
    LastId    \* bound: objects the app ever creates

(* What FLINCH created is one record here, two maps in the file: one of *)
(* formats, one of profiles: no key is in both.                              *)
ASSUME SyncedApart == Synced \notin Guide

Nobody == 0            \* no *arr id
NoRequest == {<<"none", Nobody>>}

VARIABLES
    formats,   \* the app's custom formats: [id, name, body, by]
    profiles,  \* its quality profiles: [id, name, body, scores, by, used]
    sizes,     \* its quality sizes: Synced or Own
    nextId,
    config,    \* settings: [wanted, profile, others, unused, apply]
    syncFile,      \* trash.json: what FLINCH created, and the last preview
    request,   \* trash-apply.json
    run,       \* what a run holds in memory, or NoRun
    upheavals

app == <<formats, profiles, sizes, nextId>>
trashVars == <<formats, profiles, sizes, nextId, config, syncFile, request, run, upheavals>>

Ids(objects) == {o.id : o \in objects}
With(objects, id) == CHOOSE o \in objects : o.id = id
Named(objects, name) == {o \in objects : o.name = name}

-----------------------------------------------------------------------------
(* The preview (diff.rs, prune.rs). *)

(* `match_cf`, `match_profile`: what FLINCH created for it, else the name.  *)
Match(objects, made, key) ==
    LET mine == {m.id : m \in {x \in made : x.key = key}} \cap Ids(objects)
    IN  CASE mine # {} -> CHOOSE id \in mine : TRUE
          [] mine = {} /\ Named(objects, key) # {} -> (CHOOSE o \in Named(objects, key) : TRUE).id
          [] OTHER -> Nobody

(* A change's id on the page is its kind and key; `at` is the object it     *)
(* updates or deletes.                                                       *)
Change(kind, key, at) == [kind |-> kind, key |-> key, at |-> at]
IdOf(change) == <<change.kind, change.key>>

Matched(live, owned, wanted) == {Match(live.formats, owned, t) : t \in wanted} \ {Nobody}

FormatChanges(live, owned, wanted) ==
    {c \in {Change("format", t, Match(live.formats, owned, t)) : t \in wanted} :
        c.at = Nobody \/ With(live.formats, c.at).name # c.key \/ With(live.formats, c.at).body # c.key}

(* `profile_fields`: name, ladder, the scores asked for and, with a reset,  *)
(* no other; a format that is still missing keeps the profile pending.      *)
ProfileChanges(live, owned, wanted) ==
    LET at == Match(live.profiles, owned, Synced)
        asked == {Match(live.formats, owned, t) : t \in wanted}
        p == With(live.profiles, at)
    IN  IF at # Nobody /\ p.name = Synced /\ p.body = Synced /\ p.scores = asked
        THEN {} ELSE {Change("profile", Synced, at)}

SizeChanges(live) == IF live.sizes = Synced THEN {} ELSE {Change("sizes", Synced, Nobody)}

(* FLINCH's own formats no synced profile scores; the operator's on demand. *)
FormatDeletions(live, owned, wanted, others) ==
    {Change("delete format", f.id, f.id) : f \in
        {g \in live.formats : g.id \notin Matched(live, owned, wanted) /\ (others \/ g.id \in Ids(owned))}}

(* `unused_profiles`: offered when nothing is on it, from a library read in *)
(* full, and the sync does not manage it.                                   *)
Unused(live, owned, conf) ==
    {Change("delete profile", p.id, p.id) : p \in
        {q \in live.profiles : ~q.used /\ ~(conf.profile /\ q.id = Match(live.profiles, owned, Synced))}}

Preview(live, owned, conf) ==
    LET wanted == IF conf.profile THEN conf.wanted ELSE {}
    IN  FormatChanges(live, owned, wanted)
        \cup (IF conf.profile THEN ProfileChanges(live, owned, wanted) \cup SizeChanges(live) ELSE {})
        \cup FormatDeletions(live, owned, wanted, conf.others)
        \cup (IF conf.unused /\ live.counted THEN Unused(live, owned, conf) ELSE {})

(* Mutant: profiles are written before the formats they score. *)
ProfilesFirst(kind) ==
    CASE kind = "profile" -> 0 [] kind = "format" -> 1 [] kind = "sizes" -> 2 [] kind = "delete format" -> 3 [] OTHER -> 4

(* `apply`'s order: formats, the profile that scores them, sizes, deletions. *)
Stage(kind) ==
    CASE kind = "format" -> 0 [] kind = "profile" -> 1 [] kind = "sizes" -> 2 [] kind = "delete format" -> 3 [] OTHER -> 4
Within(change) == IF change.kind = "format" THEN Order[change.key] ELSE change.at
Foremost(job, changes) ==
    /\ job \in changes
    /\ \A c \in changes \ {job} :
        Stage(job.kind) < Stage(c.kind) \/ (Stage(job.kind) = Stage(c.kind) /\ Within(job) < Within(c))

-----------------------------------------------------------------------------
TrashInit ==
    /\ formats \in {{}, {[id |-> 1, name |-> t, body |-> Own, by |-> "operator"] : t \in {CHOOSE t \in Guide : TRUE}}}
    /\ profiles \in {{}, {[id |-> 2, name |-> "other", body |-> Own, scores |-> {}, by |-> "operator", used |-> FALSE]}}
    /\ sizes = Own
    /\ nextId = 3
    /\ config \in [wanted : {Guide}, profile : {TRUE}, others : {FALSE}, unused : {TRUE}, apply : BOOLEAN]
    /\ syncFile = [owned |-> {}, preview |-> {}]
    /\ request = NoRequest
    /\ run = NoRun
    /\ upheavals = 0

Fuss == upheavals < Upsets /\ upheavals' = upheavals + 1
Idle == run = NoRun
Disturbed == run' = IF Idle THEN NoRun ELSE [run EXCEPT !.calm = FALSE]

(* The page queues a selection of the preview it shows. *)
Pick ==
    /\ request = NoRequest /\ syncFile.preview # {}
    /\ \E ids \in {syncFile.preview} \cup {{id} : id \in syncFile.preview} : request' = ids
    /\ UNCHANGED <<app, config, syncFile, run, upheavals>>

(* The app, or the guide, cannot be read: nothing is written, the request   *)
(* is answered and what FLINCH created stays on record.                     *)
Unread ==
    /\ Idle /\ Fuss
    /\ request' = NoRequest
    /\ syncFile' \in {syncFile, [syncFile EXCEPT !.preview = {}]}
    /\ UNCHANGED <<app, config, run>>

Forgotten(live, owned) == {m \in owned : m.id \in Ids(live.formats) \cup Ids(live.profiles)}

Live(counted) == [formats |-> formats, profiles |-> profiles, sizes |-> sizes, counted |-> counted]
All(changes) == {c \in changes : c.kind # "delete profile"}

(* What is selected: the page's request, else all but profile deletions     *)
(* when `apply` is on, else nothing.                                        *)
Picked(changes) ==
    CASE request # NoRequest -> {c \in changes : IdOf(c) \in request}
      [] request = NoRequest /\ config.apply -> All(changes)
      [] OTHER -> {}

(* Read, preview, and take what is selected.                                *)
Start ==
    /\ Idle
    /\ \E counted \in {TRUE} \cup (IF upheavals < Upsets THEN {FALSE} ELSE {}) :
        LET owned == Forgotten(Live(counted), syncFile.owned)
            first == Preview(Live(counted), owned, config)
        IN /\ run' = [counted |-> counted, owned |-> owned, config |-> config, todo |-> Picked(first),
                    preview |-> {IdOf(c) : c \in first}, asked |-> request, all |-> Picked(first) = All(first),
                    wrote |-> FALSE, calm |-> TRUE, known |-> Ids(formats),
                    ids |-> {[key |-> t, id |-> Match(formats, owned, t)] : t \in config.wanted}]
           /\ upheavals' = IF counted THEN upheavals ELSE upheavals + 1
    /\ request' = NoRequest
    /\ UNCHANGED <<app, config, syncFile>>

-----------------------------------------------------------------------------
(* One request: taken, taken with the answer lost, or refused -- by the app *)
(* when a name is taken, the object is gone, a profile does not list every  *)
(* format or still holds items.                                             *)
Takes(job, kind) == ~Idle /\ job.kind = kind /\ Foremost(job, run.todo)
Outcome(ok) == {IF ok THEN "done" ELSE "refused"} \cup (IF upheavals < Upsets THEN {"refused"} \cup (IF ok THEN {"lost"} ELSE {}) ELSE {})
Paid(outcome, ok) == upheavals' = upheavals + (IF outcome = "lost" \/ (outcome = "refused" /\ ok) THEN 1 ELSE 0)
Wrote(job, outcome, upd) ==
    run' = IF outcome = "done" THEN [upd EXCEPT !.todo = @ \ {job}, !.wrote = TRUE]
           ELSE [run EXCEPT !.todo = @ \ {job}, !.calm = FALSE]

Free(objects, name, id) == \A o \in objects : o.name = name => o.id = id
Without(pairs, key) == {m \in pairs : m.key # key}

(* Mutant: a format taken over by its name is recorded as created. *)
CreatedOrTaken(made, key, id, at) == Without(made, key) \cup {[key |-> key, id |-> id]}

(* Only what a POST created is FLINCH's. *)
Created(made, key, id, at) ==
    IF at = Nobody THEN Without(made, key) \cup {[key |-> key, id |-> id]} ELSE made

WriteFormat(job) ==
    /\ Takes(job, "format") /\ nextId <= LastId
    /\ LET new == job.at = Nobody
           id == IF new THEN nextId ELSE job.at
           ok == Free(formats, job.key, id) /\ (new \/ id \in Ids(formats))
           by == IF new THEN "flinch" ELSE With(formats, id).by
       IN  \E outcome \in Outcome(ok) :
            /\ Paid(outcome, ok)
            /\ formats' = IF outcome = "refused" THEN formats
                          ELSE {f \in formats : f.id # id} \cup {[id |-> id, name |-> job.key, body |-> job.key, by |-> by]}
            /\ nextId' = IF new /\ outcome # "refused" THEN nextId + 1 ELSE nextId
            /\ Wrote(job, outcome, [run EXCEPT !.owned = Created(@, job.key, id, job.at),
                                          !.known = @ \cup {id},
                                          !.ids = Without(@, job.key) \cup {[key |-> job.key, id |-> id]}])
    /\ UNCHANGED <<profiles, sizes, config, syncFile, request>>

(* `profile_body`: every known format listed, those asked for scored. *)
WriteProfile(job) ==
    /\ Takes(job, "profile") /\ nextId <= LastId
    /\ LET new == job.at = Nobody
           id == IF new THEN nextId ELSE job.at
           ok == /\ Free(profiles, Synced, id) /\ (new \/ id \in Ids(profiles))
                 /\ run.known = Ids(formats)
           was == IF new THEN [by |-> "flinch", used |-> FALSE] ELSE With(profiles, id)
           body == [id |-> id, name |-> Synced, body |-> Synced,
                    scores |-> {m.id : m \in run.ids} \ {Nobody}, by |-> was.by, used |-> was.used]
       IN  \E outcome \in Outcome(ok) :
            /\ Paid(outcome, ok)
            /\ profiles' = IF outcome = "refused" THEN profiles ELSE {p \in profiles : p.id # id} \cup {body}
            /\ nextId' = IF new /\ outcome # "refused" THEN nextId + 1 ELSE nextId
            /\ Wrote(job, outcome, [run EXCEPT !.owned = Created(@, Synced, id, job.at)])
    /\ UNCHANGED <<formats, sizes, config, syncFile, request>>

WriteSizes(job) ==
    /\ Takes(job, "sizes")
    /\ \E outcome \in Outcome(TRUE) :
        /\ Paid(outcome, TRUE)
        /\ sizes' = IF outcome = "refused" THEN sizes ELSE Synced
        /\ Wrote(job, outcome, run)
    /\ UNCHANGED <<formats, profiles, nextId, config, syncFile, request>>

Dropped(id) == [run EXCEPT !.owned = {m \in @ : m.id # id}]

DeleteFormat(job) ==
    /\ Takes(job, "delete format")
    /\ LET ok == job.at \in Ids(formats)
       IN  \E outcome \in Outcome(ok) :
            /\ Paid(outcome, ok)
            /\ IF outcome = "refused" THEN UNCHANGED <<formats, profiles>>
               ELSE /\ formats' = {f \in formats : f.id # job.at}
                    /\ profiles' = {[p EXCEPT !.scores = @ \ {job.at}] : p \in profiles}
            /\ Wrote(job, outcome, Dropped(job.at))
    /\ UNCHANGED <<sizes, nextId, config, syncFile, request>>

DeleteProfile(job) ==
    /\ Takes(job, "delete profile")
    /\ LET ok == job.at \in Ids({p \in profiles : ~p.used})
       IN  \E outcome \in Outcome(ok) :
            /\ Paid(outcome, ok)
            /\ profiles' = IF outcome = "refused" THEN profiles ELSE {p \in profiles : p.id # job.at}
            /\ Wrote(job, outcome, Dropped(job.at))
    /\ UNCHANGED <<formats, sizes, nextId, config, syncFile, request>>

(* What the app answers when it is read back: the preview that is saved.    *)
(* A read back that fails, or nothing written, saves the first preview.     *)
Fresh == Live(run.counted)
ReadBack == IF run.wrote THEN {IdOf(c) : c \in Preview(Fresh, run.owned, run.config)} ELSE run.preview

SaveSync ==
    /\ ~Idle /\ run.todo = {}
    /\ syncFile' = [owned |-> run.owned, preview |-> ReadBack]
    /\ run' = NoRun
    /\ UNCHANGED <<app, config, request, upheavals>>

(* The daemon stops, or trash.json cannot be written. *)
Stop ==
    /\ ~Idle /\ Fuss /\ run' = NoRun
    /\ UNCHANGED <<app, config, syncFile, request>>

-----------------------------------------------------------------------------
(* The operator's own work in the app, and on the settings. *)
MakeFormat ==
    /\ Fuss /\ nextId <= LastId
    /\ \E t \in Guide :
        /\ Named(formats, t) = {}
        /\ formats' = formats \cup {[id |-> nextId, name |-> t, body |-> Own, by |-> "operator"]}
    /\ nextId' = nextId + 1
    /\ Disturbed
    /\ UNCHANGED <<profiles, sizes, config, syncFile, request>>

(* Under a name no other format has. *)
Renamings(f) == {{[f EXCEPT !.name = name]} : name \in {n \in Guide \cup {Own} : Named(formats, n) = {}}}

EditFormat ==
    /\ Fuss
    /\ \E f \in formats : \E changed \in {{}, {[f EXCEPT !.body = Own]}} \cup Renamings(f) :
        formats' = (formats \ {f}) \cup changed
    /\ profiles' = {[p EXCEPT !.scores = @ \cap Ids(formats')] : p \in profiles}
    /\ Disturbed
    /\ UNCHANGED <<sizes, nextId, config, syncFile, request>>

EditProfile ==
    /\ Fuss
    /\ \E p \in profiles : \E q \in {[p EXCEPT !.used = ~@], [p EXCEPT !.body = Own], [p EXCEPT !.scores = Ids(formats)]} :
        profiles' = (profiles \ {p}) \cup {q}
    /\ Disturbed
    /\ UNCHANGED <<formats, sizes, nextId, config, syncFile, request>>

Configure ==
    /\ Idle /\ Fuss
    /\ \/ \E some \in SUBSET Guide : config' = [config EXCEPT !.wanted = some]
       \/ config' = [config EXCEPT !.profile = ~@]
       \/ config' = [config EXCEPT !.others = ~@]
       \/ config' = [config EXCEPT !.unused = ~@]
    /\ UNCHANGED <<app, syncFile, request, run>>

TrashNext ==
    \/ Pick \/ Unread \/ Start
    \/ ~Idle /\ \E job \in run.todo :
            WriteFormat(job) \/ WriteProfile(job) \/ WriteSizes(job) \/ DeleteFormat(job) \/ DeleteProfile(job)
    \/ SaveSync \/ Stop
    \/ MakeFormat \/ EditFormat \/ EditProfile \/ Configure

TrashSpec == TrashInit /\ [][TrashNext]_trashVars

-----------------------------------------------------------------------------
(* Nothing FLINCH did not create is deleted unasked, whatever was adopted,  *)
(* lost or recreated under the same name since: an operator's format only   *)
(* under `delete_unmanaged_custom_formats`, a profile only when the         *)
(* operator selected its deletion and nothing is on it.                     *)
OthersStay ==
    [][ (~Idle /\ \E job \in run.todo : DeleteFormat(job) \/ DeleteProfile(job)) =>
            /\ \A f \in formats : f.by = "operator" /\ f.id \notin Ids(formats') => run.config.others
            /\ \A p \in profiles : p.id \notin Ids(profiles') => ~p.used /\ <<"delete profile", p.id>> \in run.asked ]_trashVars

(* A full apply nobody disturbed and the app accepted leaves nothing to do  *)
(* but profile deletions: the next run has no change to make, whatever was  *)
(* renamed, adopted or lost before.  (Not when two wanted formats led to    *)
(* one of the app's: each gives it its own name.)                           *)
Collide == \E m, n \in run.ids : m.key # n.key /\ m.id = n.id /\ m.id # Nobody
AppliedSettles ==
    (~Idle /\ run.todo = {} /\ run.calm /\ run.all /\ ~Collide) =>
        \A c \in Preview(Fresh, run.owned, run.config) : c.kind = "delete profile"
=============================================================================
