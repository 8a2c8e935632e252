------------------------------- MODULE Teams --------------------------------
(***************************************************************************)
(* The team service (team.service.ts), the save hooks of team.model.ts and *)
(* the deletion of a user (admin.service.ts).                              *)
(*                                                                         *)
(* A call is admitted (Begin), loads its documents (Load...), and writes.  *)
(* Creating, joining, leaving, kicking and disbanding run in transactions: *)
(* their reads are one snapshot, and the commit is one step, refused when  *)
(* a document it writes was written since; withTransaction then starts the *)
(* callback again.  Updating, inviting, declining and making a join code   *)
(* are a read and a plain save, which sends only the fields that were      *)
(* assigned.  Every save runs the hooks on the document as loaded.         *)
(***************************************************************************)
EXTENDS Naturals, FiniteSets

CONSTANTS
    Players,
    Teams,      \* identifiers of team documents
    Calls,      \* slots of concurrent calls
    Limits,     \* values of maxMembers
    Limit0,     \* its default
    MaxInvites, \* bound: invites of one player to one team
    MaxCalls,   \* bound: calls made in all
    None

ASSUME TeamsAssumption ==
    /\ None \notin Players \cup Teams
    /\ Limits \subseteq Nat \ {0}
    /\ Limit0 \in Limits
    /\ MaxInvites \in Nat
    /\ MaxCalls \in Nat

VARIABLES
    team,       \* the team documents, None before their creation
    teamId,     \* the teamId of each user document
    deleted,    \* users with isDeleted
    codes,      \* teams with a join code that has not expired
    call,       \* the request each slot works on
    seen,       \* what it has loaded
    overtaken,  \* declines whose document got a new version since the load
    made        \* how many calls were made

docs == <<team, teamId, deleted>>
vars == <<team, teamId, deleted, codes, call, seen, overtaken, made>>

\* joinCode and joinCodeExpire are kept in codes: expiry writes no document.  The
\* order of members is abstracted from; the code uses it to choose a new owner.
TeamDocs ==
    [active : BOOLEAN, owner : Players, members : SUBSET Players,
     invites : [Players -> 0..MaxInvites], limit : Limits]

ASSUME NoneIsNoDocument == None \notin TeamDocs

Transactions == {"create", "join", "accept", "leave", "kick", "disband"}
Saves == {"update", "code", "invite", "decline"}

Request(kinds, users, teams, targets, limits) ==
    [kind : kinds, user : users, team : teams, target : targets, limit : limits]

\* user is who calls; a disband and a deletion are an administrator's.  limit is
\* the maxMembers of an update.
Requests == UNION {
    Request({"create", "leave"}, Players, {None}, {None}, {Limit0}),
    Request({"join", "accept", "code", "decline"}, Players, Teams, {None}, {Limit0}),
    Request({"invite", "kick"}, Players, Teams, Players, {Limit0}),
    Request({"update"}, Players, Teams, {None}, Limits),
    Request({"disband"}, {None}, Teams, {None}, {Limit0}),
    Request({"delete"}, {None}, {None}, Players, {Limit0})}

\* team is the loaded document, id its identifier, at the loaded teamId of the
\* users the call will write.
Snapshots ==
    [id : Teams \cup {None}, team : TeamDocs \cup {None},
     at : UNION {[P -> Teams \cup {None}] : P \in SUBSET Players}]

TypeOK ==
    /\ team \in [Teams -> TeamDocs \cup {None}]
    /\ teamId \in [Players -> Teams \cup {None}]
    /\ deleted \subseteq Players
    /\ codes \subseteq Teams
    /\ call \in [Calls -> Requests \cup {None}]
    /\ seen \in [Calls -> Snapshots \cup {None}]
    /\ overtaken \subseteq Calls
    /\ made \in 0..MaxCalls

Init ==
    /\ team = [t \in Teams |-> None]
    /\ teamId = [p \in Players |-> None]
    /\ deleted = {}
    /\ codes = {}
    /\ call = [c \in Calls |-> None]
    /\ seen = [c \in Calls |-> None]
    /\ overtaken = {}
    /\ made = 0

-----------------------------------------------------------------------------
(* Documents and hooks *)

Open(t) == t \in Teams /\ team[t] # None /\ team[t].active
Owns(r) == Open(r.team) /\ team[r.team].owner = r.user

NewTeam(p) ==
    [active |-> TRUE, owner |-> p, members |-> {p},
     invites |-> [q \in Players |-> 0], limit |-> Limit0]

\* The second hook puts the owner back among the members ...
WithOwner(d) == [d EXCEPT !.members = @ \cup {d.owner}]

\* ... and then refuses a document over its limit.
LimitBeforeOwner(d) ==                 \* Mutant of WithinLimit.
    Cardinality(d.members) <= d.limit
WithinLimit(d) == Cardinality(WithOwner(d).members) <= d.limit

\* The first hook, which runs when members were assigned.  It reads the users
\* outside the transaction.
MembersFree(t, d) == \A p \in d.members : teamId[p] \in {t, None}

\* The unique index on members holds one entry per member, and one entry for
\* an empty array.
NoMemberIndex(t, d) == TRUE            \* Mutant of IndexAdmits.
IndexAdmits(t, d) ==
    \A u \in Teams \ {t} : team[u] # None =>
        /\ team[u].members \cap d.members = {}
        /\ d.members = {} => team[u].members # {}

-----------------------------------------------------------------------------
(* Calls *)

Begin(c, r) ==
    /\ call[c] = None
    /\ r.user \notin deleted
    /\ made < MaxCalls
    /\ made' = made + 1
    /\ call' = [call EXCEPT ![c] = r]
    /\ UNCHANGED <<docs, codes, seen, overtaken>>

\* The call is refused, fails, or is done.
Idle(c) ==
    /\ call' = [call EXCEPT ![c] = None]
    /\ seen' = [seen EXCEPT ![c] = None]

End(c) ==
    /\ call[c] # None
    /\ Idle(c)
    /\ overtaken' = overtaken \ {c}
    /\ UNCHANGED <<docs, codes>>

\* What must hold of the documents when call r loads them.
Admitted(r) ==
    CASE r.kind = "create" -> teamId[r.user] = None
      [] r.kind = "join" ->
            /\ teamId[r.user] = None
            /\ Open(r.team) /\ r.team \in codes
            /\ Cardinality(team[r.team].members) < team[r.team].limit
            /\ r.user \notin team[r.team].members
      [] r.kind = "accept" ->
            /\ teamId[r.user] = None
            /\ Open(r.team) /\ team[r.team].invites[r.user] > 0
            /\ Cardinality(team[r.team].members) < team[r.team].limit
      [] r.kind = "leave" -> Open(teamId[r.user])
      [] r.kind = "kick" -> r.user # r.target /\ Owns(r) /\ r.target \in team[r.team].members
      [] r.kind = "disband" -> team[r.team] # None
      [] r.kind = "update" -> Owns(r) /\ Cardinality(team[r.team].members) <= r.limit
      [] r.kind = "code" -> Owns(r)
      [] r.kind = "invite" ->
            /\ Owns(r)
            /\ Cardinality(team[r.team].members) < team[r.team].limit
            /\ teamId[r.target] = None
            /\ r.target \notin team[r.team].members
            /\ team[r.team].invites[r.target] = 0
      [] r.kind = "decline" -> team[r.team] # None /\ team[r.team].invites[r.user] > 0
      [] r.kind = "delete" -> r.target \notin deleted

\* The users whose documents call r will write.
Touched(r) ==
    CASE r.kind \in {"create", "join", "accept", "leave"} -> {r.user}
      [] r.kind \in {"kick", "delete"} -> {r.target}
      [] r.kind = "disband" -> team[r.team].members
      [] OTHER -> {}

Load(c) ==
    LET r  == call[c]
        id == IF r.kind = "leave" THEN teamId[r.user] ELSE r.team
    IN  /\ r # None /\ seen[c] = None
        /\ Admitted(r)
        /\ seen' = [seen EXCEPT ![c] =
              [id |-> id, team |-> IF id = None THEN None ELSE team[id],
               at |-> [p \in Touched(r) |-> teamId[p]]]]
        /\ UNCHANGED <<docs, codes, call, overtaken>>

Ready(c, kinds) == call[c] # None /\ seen[c] # None /\ call[c].kind \in kinds

\* A document the transaction writes was written after its snapshot.  A deletion
\* of the user does not count: the callback does not look at isDeleted, so the
\* transaction would commit the same after a retry.
ConflictOnUsers(c) ==                  \* Mutant of Conflict.
    \E p \in DOMAIN seen[c].at : teamId[p] # seen[c].at[p]
Conflict(c) ==
    \/ seen[c].id # None /\ team[seen[c].id] # seen[c].team
    \/ \E p \in DOMAIN seen[c].at : teamId[p] # seen[c].at[p]

\* withTransaction runs the callback again, from its first read.
Retry(c) ==
    /\ Ready(c, Transactions)
    /\ Conflict(c)
    /\ seen' = [seen EXCEPT ![c] = None]
    /\ UNCHANGED <<docs, codes, call, overtaken>>

\* Declines that replace the invites of a version of t that is no longer there.
Superseded(t) == {c \in Calls : Ready(c, {"decline"}) /\ seen[c].id = t}

\* Commit of a transaction that stores d as team t.
Commit(c, t, d) ==
    /\ ~Conflict(c)
    /\ MembersFree(t, d)
    /\ WithinLimit(d)
    /\ IndexAdmits(t, WithOwner(d))
    /\ team' = [team EXCEPT ![t] = WithOwner(d)]
    /\ overtaken' = overtaken \cup Superseded(t)
    /\ Idle(c)
    /\ UNCHANGED <<deleted, codes>>

-----------------------------------------------------------------------------
(* Transactions *)

CreateTeam(c) ==
    /\ Ready(c, {"create"})
    /\ \E t \in Teams :
          /\ team[t] = None
          /\ Commit(c, t, NewTeam(call[c].user))
          /\ teamId' = [teamId EXCEPT ![call[c].user] = t]

\* joinTeamByCode, and acceptInviteService, which takes the invite out as well.
JoinTeam(c) ==
    LET p == call[c].user
        t == seen[c].id
        d == [seen[c].team EXCEPT !.members = @ \cup {p}]
    IN  /\ Ready(c, {"join", "accept"})
        /\ Commit(c, t, IF call[c].kind = "join" THEN d
                        ELSE [d EXCEPT !.invites[p] = @ - 1])
        /\ teamId' = [teamId EXCEPT ![p] = t]

\* The owner hands over to the first remaining member; without one the team is
\* closed.  (The hook then puts the owner back into members.)
DepartedKeepingOwner(d, p) ==          \* Mutant of Departed.
    {[d EXCEPT !.members = @ \ {p}, !.active = @ /\ d.members # {p}]}
Departed(d, p) ==
    LET rest == d.members \ {p}
    IN  IF d.owner # p THEN {[d EXCEPT !.members = rest]}
        ELSE IF rest = {} THEN {[d EXCEPT !.members = rest, !.active = FALSE]}
        ELSE {[d EXCEPT !.members = rest, !.owner = q] : q \in rest}

LeaveTeam(c) ==
    /\ Ready(c, {"leave"})
    /\ \E d \in Departed(seen[c].team, call[c].user) : Commit(c, seen[c].id, d)
    /\ teamId' = [teamId EXCEPT ![call[c].user] = None]

KickMember(c) ==
    /\ Ready(c, {"kick"})
    /\ Commit(c, seen[c].id, [seen[c].team EXCEPT !.members = @ \ {call[c].target}])
    /\ teamId' = [teamId EXCEPT ![call[c].target] = None]

Cleared(d) == [d EXCEPT !.active = FALSE, !.members = {}, !.invites = [p \in Players |-> 0]]

\* Frees the members it read before it cleared them.
DisbandInUse(c) ==                     \* Mutant of DisbandTeam.
    /\ Ready(c, {"disband"})
    /\ Commit(c, seen[c].id, Cleared(seen[c].team))
    /\ teamId' = [teamId EXCEPT ![seen[c].team.owner] = None]
DisbandTeam(c) ==
    /\ Ready(c, {"disband"})
    /\ Commit(c, seen[c].id, Cleared(seen[c].team))
    /\ teamId' = [p \in Players |-> IF p \in DOMAIN seen[c].at THEN None ELSE teamId[p]]

-----------------------------------------------------------------------------
(* Plain saves: of the loaded document only the assigned fields are sent, and
   the owner when the hook put it back. *)

\* The stored document with the owner pushed if the loaded one lacked it.
PushOwner(s) ==
    IF s.team.owner \in s.team.members THEN team[s.id]
    ELSE [team[s.id] EXCEPT !.members = @ \cup {s.team.owner}]

\* A save that changes an array makes a new version.
NewVersion(t, d) == d.members # team[t].members \/ d.invites # team[t].invites

Save(c, loaded, stored) ==
    LET t == seen[c].id
    IN  /\ WithinLimit(loaded)
        /\ IndexAdmits(t, stored)
        /\ team' = [team EXCEPT ![t] = stored]
        /\ overtaken' = (IF NewVersion(t, stored) THEN overtaken \cup Superseded(t)
                         ELSE overtaken) \ {c}
        /\ Idle(c)
        /\ UNCHANGED <<teamId, deleted>>

UpdateTeam(c) ==
    /\ Ready(c, {"update"})
    /\ Save(c, [seen[c].team EXCEPT !.limit = call[c].limit],
            [PushOwner(seen[c]) EXCEPT !.limit = call[c].limit])
    /\ UNCHANGED codes

GenerateJoinCode(c) ==
    /\ Ready(c, {"code"})
    /\ Save(c, seen[c].team, PushOwner(seen[c]))
    /\ codes' = codes \cup {seen[c].id}

InviteUser(c) ==
    LET q == call[c].target
        d == PushOwner(seen[c])
    IN  /\ Ready(c, {"invite"})
        /\ d.invites[q] < MaxInvites
        /\ Save(c, seen[c].team, [d EXCEPT !.invites[q] = @ + 1])
        /\ UNCHANGED codes

\* Taking an invite out replaces the array, so the save names the version read.
DeclineInvite(c) ==
    LET p == call[c].user
    IN  /\ Ready(c, {"decline"})
        /\ c \notin overtaken
        /\ Save(c, seen[c].team,
                [PushOwner(seen[c]) EXCEPT !.invites = [seen[c].team.invites EXCEPT ![p] = @ - 1]])
        /\ UNCHANGED codes

\* The user was loaded before the transaction; $pull runs no hook and makes no
\* version.  A conflict is not retried.
DeleteUser(c) ==
    LET p == call[c].target
        t == seen[c].at[p]
        d == [team[t] EXCEPT !.members = @ \ {p}]
    IN  /\ Ready(c, {"delete"})
        /\ IF t = None THEN UNCHANGED team
           ELSE /\ p \in team[t].members => IndexAdmits(t, d)
                /\ team' = [team EXCEPT ![t] = d]
        /\ teamId' = [teamId EXCEPT ![p] = None]
        /\ deleted' = deleted \cup {p}
        /\ Idle(c)
        /\ UNCHANGED <<codes, overtaken>>

ExpireCode(t) ==
    /\ t \in codes
    /\ codes' = codes \ {t}
    /\ UNCHANGED <<docs, call, seen, overtaken>>

Work(c) ==
    /\ \/ End(c) \/ Load(c) \/ Retry(c)
       \/ CreateTeam(c) \/ JoinTeam(c) \/ LeaveTeam(c) \/ KickMember(c) \/ DisbandTeam(c)
       \/ UpdateTeam(c) \/ GenerateJoinCode(c) \/ InviteUser(c) \/ DeclineInvite(c)
       \/ DeleteUser(c)
    /\ UNCHANGED made

Next ==
    \/ \E c \in Calls, r \in Requests : Begin(c, r)
    \/ \E c \in Calls : Work(c)
    \/ \E t \in Teams : ExpireCode(t) /\ UNCHANGED made

Spec == Init /\ [][Next]_vars

-----------------------------------------------------------------------------
(* Properties *)

Live == Players \ deleted
Lists(t, p) == team[t] # None /\ p \in team[t].members

\* users.teamId is right: whoever has a team is a member of it, and it is active.
\* Transactions write both documents, plain saves only one.
TeamListsItsPlayers == \A p \in Live :
    teamId[p] # None => Open(teamId[p]) /\ Lists(teamId[p], p)

\* teams.members is right, but for two kinds of entries that stay behind: the
\* owner of a closed team, whom the save hook puts back, and deleted users.
StraysAreAccounted == \A t \in Teams, p \in Live :
    Lists(t, p) /\ teamId[p] # t => ~team[t].active /\ team[t].owner = p

\* Nobody is a member of two teams, stray entries included.
OneTeamPerPlayer == \A t, u \in Teams, p \in Players :
    Lists(t, p) /\ Lists(u, p) => t = u

\* The two sides of membership, users.teamId and teams.members, agree as far as
\* the code makes them.
UsersAndTeamsAgree ==
    /\ TeamListsItsPlayers
    /\ StraysAreAccounted
    /\ OneTeamPerPlayer

\* The owner of an active team is in it, unless the owner's account was deleted
\* under it: who leaves or is kicked keeps no power over the team.
OwnerIsInTeam == \A t \in Teams :
    Open(t) => teamId[team[t].owner] = t \/ team[t].owner \in deleted

\* Nobody is let into a team beyond the limit it has at that moment, however
\* many join at once and whatever updateTeam does to the limit meanwhile.
NobodyJoinsBeyondLimit == [][
    \A t \in Teams, p \in Players :
        teamId[p] # t /\ teamId'[p] = t =>
            Cardinality(team'[t].members) <= team'[t].limit]_vars

\* What the documents mean.
Roster == INSTANCE Roster WITH
    at <- [p \in Players |-> IF p \in deleted THEN None ELSE teamId[p]],
    phase <- [t \in Teams |-> IF team[t] = None THEN "unused"
                              ELSE IF team[t].active THEN "open" ELSE "closed"]

\* The service implements the roster: nobody changes teams without leaving, a
\* closed team has nobody in it and never opens again.
ImplementsRoster == Roster!Spec
=============================================================================
