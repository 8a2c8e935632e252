------------------------------- MODULE Events -------------------------------
(***************************************************************************)
(* One event document: event.service.ts and event.model.ts.                *)
(*                                                                         *)
(* A call loads the document, checks it and changes its copy (Load), and   *)
(* later saves the copy (Save): the save sends only the fields that were   *)
(* changed, and nothing compares the rest with what is stored by then,     *)
(* except the version of the document when challenges is replaced as a     *)
(* whole.  Registration increments counters instead of saving.             *)
(***************************************************************************)
EXTENDS Naturals, FiniteSets

CONSTANTS
    Challenges,
    Calls,      \* slots of concurrent calls
    Kinds,      \* kinds of calls that are made
    Capacities, \* values of maxParticipants, 0 for no maximum
    MaxTime,    \* bound: the last tick of the clock
    MaxCalls,   \* bound: calls made in all
    None

ASSUME EventsAssumption ==
    /\ IsFiniteSet(Calls)
    /\ Calls # {}
    /\ Capacities \subseteq Nat
    /\ MaxTime \in Nat
    /\ MaxCalls \in Nat
    /\ None \notin Nat

VARIABLES
    event,      \* the document, None once it is deleted
    clock,
    call,       \* the request each slot works on
    at,         \* how far it has come
    old,        \* the document it loaded
    new,        \* the copy it will save
    made,       \* how many calls were made
    capacities, \* history: every maxParticipants the event had
    mixed       \* history: a save changed one date under a changed other date

vars == <<event, clock, call, at, old, new, made, capacities, mixed>>

Times == 0..MaxTime + 1
Statuses == {"draft", "scheduled", "active", "paused", "ended", "archived"}

Transitions ==
    [draft |-> {"scheduled", "archived"},
     scheduled |-> {"active", "draft", "archived"},
     active |-> {"paused", "ended"},
     paused |-> {"active", "ended"},
     ended |-> {"archived"},
     archived |-> {}]

\* early stands for endedEarlyAt, version for the document's version key, max,
\* registered and teams for maxParticipants, registeredCount and teamCount.
EventDocs ==
    [status : Statuses, opensAt : Times, closedAt : Times, early : BOOLEAN,
     challenges : SUBSET Challenges, version : Nat,
     frozen : BOOLEAN, frozenAt : Times \cup {None},
     max : Capacities, registered : Nat, teams : Nat]

ASSUME NoneIsNoEvent == None \notin EventDocs

Request(kinds, to, sets, opens, closes, maxes) ==
    [kind : kinds, to : to, set : sets, opensAt : opens, closedAt : closes, max : maxes]

\* An update assigns the fields that are not None.
Requests == UNION {
    Request({"transition"}, Statuses, {None}, {None}, {None}, {None}),
    Request({"auto", "delete", "freeze", "thaw"}, {None}, {None}, {None}, {None}, {None}),
    Request({"register", "registerTeam"}, {None}, {None}, {None}, {None}, {None}),
    Request({"add", "remove"}, {None}, SUBSET Challenges, {None}, {None}, {None}),
    Request({"update"}, {None}, (SUBSET Challenges) \cup {None},
            Times \cup {None}, Times \cup {None}, Capacities \cup {None})}

TypeOK ==
    /\ event \in EventDocs \cup {None}
    /\ clock \in 0..MaxTime
    /\ call \in [Calls -> Requests \cup {None}]
    /\ at \in [Calls -> {"idle", "loaded", "saved"}]
    /\ old \in [Calls -> EventDocs \cup {None}]
    /\ new \in [Calls -> EventDocs \cup {None}]
    /\ made \in 0..MaxCalls
    /\ capacities \subseteq Capacities
    /\ mixed \in BOOLEAN

\* createEvent: the window lies in the future.  The event may have been moved on
\* since, and its challenges may have been changed, by calls that are over.
Created(status, opens, closes, set, max) ==
    [status |-> status, opensAt |-> opens, closedAt |-> closes, early |-> FALSE,
     challenges |-> set, version |-> 0, frozen |-> FALSE, frozenAt |-> None,
     max |-> max, registered |-> 0, teams |-> 0]

Idle ==
    /\ clock = 0
    /\ call = [c \in Calls |-> None]
    /\ at = [c \in Calls |-> "idle"]
    /\ old = [c \in Calls |-> None]
    /\ new = [c \in Calls |-> None]
    /\ made = 0
    /\ capacities = {event.max}
    /\ mixed = FALSE

-----------------------------------------------------------------------------
(* What a call does to its copy of the document *)

WindowMayBeEmpty(d) == d.opensAt <= d.closedAt    \* Mutant of Window.
Window(d) == d.opensAt < d.closedAt

\* transitionTo, on behalf of an administrator or of the scheduler.
Moved(d, to) ==
    [d EXCEPT !.status = to,
              !.early = @ \/ (to = "ended" /\ d.status = "active" /\ clock < d.closedAt)]

\* setScoreboardFrozen, and the save hook that keeps the stamp.
FrozenStamped(d, b) ==                 \* Mutant of Frozen.
    [d EXCEPT !.frozen = b, !.frozenAt = IF b THEN clock ELSE @]
Frozen(d, b) ==
    IF d.frozen = b
    THEN d
    ELSE [d EXCEPT !.frozen = b,
                   !.frozenAt = IF ~b THEN None ELSE IF @ = None THEN clock ELSE @]

Assigned(v, x) == IF x = None THEN v ELSE x

Updated(d, r) ==
    [d EXCEPT !.opensAt = Assigned(@, r.opensAt), !.closedAt = Assigned(@, r.closedAt),
              !.challenges = Assigned(@, r.set), !.max = Assigned(@, r.max)]

Full(d) == d.max > 0 /\ d.registered >= d.max

\* The scheduler ends an active event and opens a scheduled one.
Due(d) ==
    IF d.status = "scheduled" /\ d.opensAt <= clock THEN "active"
    ELSE IF d.status = "active" /\ d.closedAt <= clock THEN "ended"
    ELSE d.status

\* Which calls get past their checks of the loaded document.
AdmitsAnyStatus(r, d) ==               \* Mutant of Admits.
    /\ r.kind = "transition" => r.to # d.status
    /\ r.kind = "delete" => d.status # "active"
    /\ r.kind = "auto" => Due(d) # d.status
    /\ r.kind = "update" => Window(Updated(d, r))
    /\ r.kind = "add" => ~(r.set \subseteq d.challenges)
    /\ r.kind = "remove" => r.set \cap d.challenges # {}
Admits(r, d) ==
    CASE r.kind = "transition" ->
            /\ r.to = "active" => d.challenges # {}
            /\ r.to = "scheduled" => d.opensAt > clock
            /\ r.to \in Transitions[d.status]
      [] r.kind = "auto" -> Due(d) # d.status
      [] r.kind \in {"freeze", "thaw"} -> d.status = "active"
      [] r.kind = "delete" -> d.status # "active"
      [] r.kind \in {"register", "registerTeam"} ->
            d.status \in {"scheduled", "active"} /\ ~Full(d)
      [] r.kind = "add" ->
            d.status \notin {"ended", "archived"} /\ ~(r.set \subseteq d.challenges)
      [] r.kind = "remove" ->
            d.status \notin {"ended", "archived"} /\ r.set \cap d.challenges # {}
      [] r.kind = "update" ->
            d.status \notin {"ended", "archived"} /\ Window(Updated(d, r))

Changed(r, d) ==
    CASE r.kind = "transition" -> Moved(d, r.to)
      [] r.kind = "auto" -> Moved(d, Due(d))
      [] r.kind = "freeze" -> Frozen(d, TRUE)
      [] r.kind = "thaw" -> Frozen(d, FALSE)
      [] r.kind = "add" -> [d EXCEPT !.challenges = @ \cup r.set]
      [] r.kind = "remove" -> [d EXCEPT !.challenges = @ \ r.set]
      [] r.kind = "update" -> Updated(d, r)
      [] OTHER -> d

Saves(r) == r.kind \notin {"delete", "register", "registerTeam"}

\* Saves that validate run the hook on the dates of the copy.
Validates(r) == r.kind \in {"transition", "auto", "update"}

-----------------------------------------------------------------------------
(* Calls *)

\* Calls that are refused change nothing and are left out; so are the checks
\* of a registration that concern the caller only: deadline, invite code, lists
\* of those allowed, size of the team.
Load(c, r) ==
    /\ at[c] = "idle"
    /\ made < MaxCalls
    /\ event # None
    /\ Admits(r, event)
    /\ Validates(r) => Window(Changed(r, event))
    /\ call' = [call EXCEPT ![c] = r]
    /\ at' = [at EXCEPT ![c] = "loaded"]
    /\ old' = [old EXCEPT ![c] = IF Saves(r) THEN event ELSE None]
    /\ new' = [new EXCEPT ![c] = IF Saves(r) THEN Changed(r, event) ELSE None]
    /\ made' = made + 1
    /\ UNCHANGED <<event, clock, capacities, mixed>>

Leave(c) ==
    /\ call' = [call EXCEPT ![c] = None]
    /\ at' = [at EXCEPT ![c] = "idle"]
    /\ old' = [old EXCEPT ![c] = None]
    /\ new' = [new EXCEPT ![c] = None]

\* The request fails, or the process stops.
Fail(c) ==
    /\ at[c] # "idle"
    /\ Leave(c)
    /\ UNCHANGED <<event, clock, made, capacities, mixed>>

Sent(loaded, changed, stored) == IF changed # loaded THEN changed ELSE stored

\* add pushes; any other change of challenges replaces the array, on condition
\* that the document still has the version that was loaded.
Replaces(c) == call[c].kind \in {"remove", "update"} /\ new[c].challenges # old[c].challenges
Unversioned(c) == TRUE                 \* Mutant of Current.
Current(c) == Replaces(c) => event.version = old[c].version

\* The document once the copy of c is saved.
MergedWithStats(c) ==                  \* Mutant of Merged.
    [event EXCEPT !.status = Sent(old[c].status, new[c].status, event.status),
                  !.frozen = Sent(old[c].frozen, new[c].frozen, event.frozen),
                  !.frozenAt = Sent(old[c].frozenAt, new[c].frozenAt, event.frozenAt),
                  !.registered = new[c].registered,
                  !.teams = new[c].teams]
Merged(c) ==
    [status |-> Sent(old[c].status, new[c].status, event.status),
     opensAt |-> Sent(old[c].opensAt, new[c].opensAt, event.opensAt),
     closedAt |-> Sent(old[c].closedAt, new[c].closedAt, event.closedAt),
     early |-> Sent(old[c].early, new[c].early, event.early),
     challenges |-> IF call[c].kind = "add"
                    THEN event.challenges \cup call[c].set
                    ELSE Sent(old[c].challenges, new[c].challenges, event.challenges),
     version |-> event.version + (IF new[c].challenges # old[c].challenges THEN 1 ELSE 0),
     frozen |-> Sent(old[c].frozen, new[c].frozen, event.frozen),
     frozenAt |-> Sent(old[c].frozenAt, new[c].frozenAt, event.frozenAt),
     max |-> Sent(old[c].max, new[c].max, event.max),
     registered |-> event.registered,
     teams |-> event.teams]

\* c changes one date, and the other is not the one it was compared with.
DatesMix(c) ==
    /\ old[c].opensAt # new[c].opensAt \/ old[c].closedAt # new[c].closedAt
    /\ \/ Merged(c).opensAt # new[c].opensAt
       \/ Merged(c).closedAt # new[c].closedAt

Saving(c) ==
    /\ at[c] = "loaded"
    /\ Saves(call[c])
    /\ event # None
    /\ Current(c)
    /\ event' = Merged(c)
    /\ capacities' = capacities \cup {event'.max}
    /\ mixed' = (mixed \/ DatesMix(c))
    /\ UNCHANGED <<clock, made>>

\* freezeScoreboard goes on to the boards.
Save(c) ==
    /\ Saving(c)
    /\ IF call[c].kind \in {"freeze", "thaw"}
       THEN /\ at' = [at EXCEPT ![c] = "saved"]
            /\ old' = [old EXCEPT ![c] = None]
            /\ new' = [new EXCEPT ![c] = None]
            /\ UNCHANGED call
       ELSE Leave(c)

SetFrozen(c) ==
    /\ at[c] = "saved"
    /\ call[c].kind \in {"freeze", "thaw"}
    /\ Leave(c)
    /\ UNCHANGED <<event, clock, made, capacities, mixed>>

\* incrementStat: an update of a document that is gone does nothing.
Decremented(d) ==                      \* Mutant of Incremented.
    IF d = None THEN None ELSE [d EXCEPT !.registered = @ - 1]
Incremented(d) == IF d = None THEN None ELSE [d EXCEPT !.registered = @ + 1]

CountRegistration(c) ==
    /\ at[c] = "loaded"
    /\ call[c].kind \in {"register", "registerTeam"}
    /\ event' = Incremented(event)
    /\ IF call[c].kind = "registerTeam"
       THEN at' = [at EXCEPT ![c] = "saved"] /\ UNCHANGED <<call, old, new>>
       ELSE Leave(c)
    /\ UNCHANGED <<clock, made, capacities, mixed>>

CountTeam(c) ==
    /\ at[c] = "saved"
    /\ call[c].kind = "registerTeam"
    /\ event' = IF event = None THEN None ELSE [event EXCEPT !.teams = @ + 1]
    /\ Leave(c)
    /\ UNCHANGED <<clock, made, capacities, mixed>>

DeleteEvent(c) ==
    /\ at[c] = "loaded"
    /\ call[c].kind = "delete"
    /\ event' = None
    /\ Leave(c)
    /\ UNCHANGED <<clock, made, capacities, mixed>>

Tick ==
    /\ clock < MaxTime
    /\ clock' = clock + 1
    /\ UNCHANGED <<event, call, at, old, new, made, capacities, mixed>>

Operation(c) ==
    \/ \E r \in {q \in Requests : q.kind \in Kinds} : Load(c, r)
    \/ Save(c) \/ SetFrozen(c)
    \/ CountRegistration(c) \/ CountTeam(c)
    \/ DeleteEvent(c)
    \/ Fail(c)

Init ==
    /\ \E status \in {"draft", "scheduled", "active"}, set \in SUBSET Challenges,
          opens, closes \in Times, max \in Capacities :
        /\ 0 < opens /\ opens < closes
        /\ event = Created(status, opens, closes, set, max)
    /\ Idle
Next == Tick \/ \E c \in Calls : Operation(c)
Spec == Init /\ [][Next]_vars

-----------------------------------------------------------------------------
(* Properties *)

\* freezeScoreboard and its hook: whatever saves overlap, the flag and the time
\* of the freeze that is used to filter solves are stored together.
FreezeIsStamped == event # None => (event.frozen <=> event.frozenAt # None)

\* transitionTo: the stored status takes a step that the graph does not have
\* only when the status changed between the load and the save of one call.
StatusFollowsGraphUnlessOvertaken ==
    [][event # None /\ event' # None /\ event'.status # event.status =>
        \/ event'.status \in Transitions[event.status]
        \/ \E c \in Calls : at[c] = "loaded" /\ at'[c] = "idle"
                          /\ old[c] # None /\ old[c].status # event.status]_vars

\* addChallenges, removeChallenges, updateEvent: a save takes away no challenge
\* that its call had not seen in the event.
NoUnseenChallengeDropped ==
    [][event # None /\ event' # None =>
        \A x \in event.challenges \ event'.challenges :
            \E c \in Calls : at[c] = "loaded" /\ at'[c] = "idle"
                          /\ old[c] # None /\ x \in old[c].challenges]_vars

\* registerForEvent: the capacity may be passed, as the count is compared before
\* it is incremented, but by fewer registrations than there are calls at once.
OverbookedByOverlapOnly ==
    event # None /\ 0 \notin capacities =>
        \E m \in capacities : event.registered < m + Cardinality(Calls)

\* registerForEvent counts participants before teams, and no save of the event
\* undoes a count: the teams never outnumber the participants.
TeamsWithinRegistered == event # None => event.teams <= event.registered

\* updateEvent: the window of the event is crossed only when two updates each
\* changed one date and neither saw the other.
WindowUnlessMixed == event # None => event.opensAt < event.closedAt \/ mixed

\* The event document as the calls leave it, however their saves overlap.
EventConsistent ==
    /\ TypeOK
    /\ FreezeIsStamped
    /\ OverbookedByOverlapOnly
    /\ TeamsWithinRegistered
    /\ WindowUnlessMixed

\* freezeScoreboard admits active events only: a scoreboard that is frozen when
\* its event ends stays frozen, but for a call that had loaded it before.
FrozenEndStaysFrozen ==
    [][event # None /\ event.status \in {"ended", "archived"} /\ event.frozen =>
        \/ event' = None \/ event'.frozen
        \/ \E c \in Calls : at[c] = "loaded" /\ call[c].kind = "thaw"
                          /\ old[c].status = "active"]_vars

\* What overlapping saves never do to an event: its status takes only steps of the
\* graph, a freeze outlives its end and no challenge disappears, but for a call that
\* had loaded the document before.
EventEditsHold ==
    /\ StatusFollowsGraphUnlessOvertaken
    /\ FrozenEndStaysFrozen
    /\ NoUnseenChallengeDropped
=============================================================================
