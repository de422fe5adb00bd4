----------------------------- MODULE MCHousehold -----------------------------
(* What reaches people: their requests, their logins, what they are told,   *)
(* and the grace a title has before it leaves.  None of the four reads what *)
(* another keeps, so a behaviour is one of a single part.                   *)
EXTENDS HouseholdRequests, WebSessions, Outbox, GraceStreaks, TLC

CONSTANT Parts

VARIABLE part
households == <<part, requestVars, accessVars, outboxVars, graceVars>>

HouseholdInit ==
  /\ part \in Parts
  /\ RequestsInit /\ AccessInit /\ OutboxInit /\ GraceInit
  /\ part # "grace" => graceRuns = CHOOSE g \in GraceRuns : TRUE

HouseholdNext ==
  \/ part = "requests" /\ RequestsNext /\ UNCHANGED <<part, accessVars, outboxVars, graceVars>>
  \/ part = "sessions" /\ AccessNext /\ UNCHANGED <<part, requestVars, outboxVars, graceVars>>
  \/ part = "outbox" /\ OutboxNext /\ UNCHANGED <<part, requestVars, accessVars, graceVars>>
  \/ part = "grace" /\ GraceNext /\ UNCHANGED <<part, requestVars, accessVars, outboxVars>>

HouseholdSpec == HouseholdInit /\ [][HouseholdNext]_households

(* A channel told of everything but the newsletter.  Web handlers are alike, *)
(* and so are browsers, and so are titles: the tasks of the logins share the *)
(* values of the handlers, and the titles those of the browsers.             *)
MCSubscribed == [c \in Channel |-> {"problem", "leaving", "deleted", "digest"}]
MCAlike == Permutations(Handler) \cup Permutations(Browser)
=============================================================================
