---------------------------- MODULE TeamsProofs -----------------------------
(***************************************************************************)
(* The safety properties of Teams and its refinement of Roster, for any    *)
(* number of players, teams and calls.                                     *)
(*                                                                         *)
(* What a call knows of the documents it loaded is CallKnows.  A           *)
(* transaction without conflict finds them unchanged, so its step is that  *)
(* of an atomic change of team and teamId; a plain save touches members    *)
(* only to put a deleted owner back.                                       *)
(***************************************************************************)
EXTENDS Teams, TLAPS

\* What the documents that call c has loaded say.
CallKnows(c) ==
    LET r == call[c]
        s == seen[c]
    IN  /\ r # None
        /\ r.kind \in {"create", "delete"} => s.id = None
        /\ r.kind \notin {"create", "delete"} =>
               s.id \in Teams /\ s.team \in TeamDocs /\ team[s.id] # None
        /\ r.kind \in {"create", "join", "accept", "leave"} => DOMAIN s.at = {r.user}
        /\ r.kind \in {"create", "join", "accept"} => s.at[r.user] = None
        /\ r.kind \in {"kick", "delete"} => DOMAIN s.at = {r.target}
        /\ r.kind = "disband" => DOMAIN s.at = s.team.members
        /\ r.kind \in {"join", "accept", "leave", "kick"} => s.team.active
        /\ r.kind \in {"accept", "decline"} => s.team.invites[r.user] > 0
        /\ r.kind = "leave" => s.at[r.user] = s.id
        /\ r.kind = "kick" => s.team.owner # r.target /\ r.target \in s.team.members
        /\ r.kind \in Saves => s.team.owner \in s.team.members \cup deleted
        /\ r.kind = "delete" /\ s.at[r.target] # None =>
               s.at[r.target] \in Teams /\ team[s.at[r.target]] # None

SeenInv == \A c \in Calls : seen[c] # None => CallKnows(c)

\* Only a deleted user is missing in the members of a team that names it owner.
OwnerListed == \A t \in Teams :
    team[t] # None => team[t].owner \in team[t].members \cup deleted

DocsInv ==
    /\ OwnerListed
    /\ TeamListsItsPlayers
    /\ StraysAreAccounted
    /\ OneTeamPerPlayer
    /\ OwnerIsInTeam

ServiceInv == TypeOK /\ SeenInv /\ DocsInv

-----------------------------------------------------------------------------
(* Requests and snapshots *)

\* Which fields of a request are set.
LEMMA RequestFields ==
    ASSUME NEW r \in Requests
    PROVE  /\ r.kind \in Transactions \cup Saves \cup {"delete"}
           /\ r.kind \notin {"disband", "delete"} => r.user \in Players
           /\ r.kind \in {"create", "leave", "delete"} => r.team = None
           /\ r.kind \notin {"create", "leave", "delete"} => r.team \in Teams
           /\ r.kind \in {"invite", "kick", "delete"} => r.target \in Players
           /\ r.limit \in Limits
    BY TeamsAssumption DEF Requests, Request, Transactions, Saves

\* The users a call writes are players.
LEMMA TouchedArePlayers ==
    ASSUME TypeOK, NEW r \in Requests, Admitted(r)
    PROVE  Touched(r) \subseteq Players
<1>1. r.kind = "disband" => team[r.team] \in TeamDocs
    BY RequestFields DEF Admitted, TypeOK
<1>2. QED
    BY <1>1, RequestFields DEF Touched, TeamDocs, Transactions, Saves

\* What a call knows stays true while other calls write: deletions only grow,
\* and documents are never removed.
LEMMA KnowledgeKept ==
    ASSUME TypeOK, SeenInv, NEW c \in Calls,
           call' = call \/ call' = [call EXCEPT ![c] = None],
           seen' = [seen EXCEPT ![c] = None],
           deleted \subseteq deleted',
           \A t \in Teams : team[t] # None => team'[t] # None
    PROVE  SeenInv'
<1> SUFFICES ASSUME NEW b \in Calls, seen'[b] # None PROVE CallKnows(b)'
    BY DEF SeenInv
<1>1. b # c /\ seen'[b] = seen[b] /\ call'[b] = call[b]
    BY DEF TypeOK
<1>2. CallKnows(b)
    BY <1>1 DEF SeenInv
<1>3. QED
    BY <1>1, <1>2 DEF CallKnows

\* A loaded snapshot says what the documents say.
LEMMA LoadKnows ==
    ASSUME ServiceInv, NEW c \in Calls, Load(c), UNCHANGED made
    PROVE  TypeOK' /\ SeenInv'
<1> DEFINE r == call[c]
           id == IF r.kind = "leave" THEN teamId[r.user] ELSE r.team
           s == [id |-> id, team |-> IF id = None THEN None ELSE team[id],
                 at |-> [p \in Touched(r) |-> teamId[p]]]
<1>1. r \in Requests /\ Admitted(r) /\ seen' = [seen EXCEPT ![c] = s]
      /\ UNCHANGED <<docs, codes, call, overtaken>>
    BY DEF Load, ServiceInv, TypeOK
<1>2. Touched(r) \subseteq Players
    BY <1>1, TouchedArePlayers DEF ServiceInv
<1>3. id \in Teams \cup {None}
    BY <1>1, RequestFields DEF Admitted, ServiceInv, TypeOK, Open
<1>4. s.at \in UNION {[P -> Teams \cup {None}] : P \in SUBSET Players}
  <2>1. s.at \in [Touched(r) -> Teams \cup {None}]
    BY <1>2 DEF ServiceInv, TypeOK
  <2>2. QED
    BY <2>1, <1>2
<1>5. s \in Snapshots
    BY <1>3, <1>4 DEF Snapshots, ServiceInv, TypeOK
<1>6. TypeOK'
    BY <1>1, <1>5 DEF TypeOK, ServiceInv, docs
<1>7. CallKnows(c)'
  <2>1. seen'[c] = s /\ call'[c] = r /\ r # None
    BY <1>1 DEF ServiceInv, TypeOK, Load
  <2>2. r.kind \notin {"create", "delete"} => id \in Teams /\ team[id] # None /\ team[id] \in TeamDocs
    BY <1>1, RequestFields DEF Admitted, Owns, Open, ServiceInv, TypeOK, Transactions, Saves
  <2>3. s.id = id /\ (id # None => s.team = team[id]) /\ DOMAIN s.at = Touched(r)
        /\ \A p \in Touched(r) : s.at[p] = teamId[p]
    OBVIOUS
  <2>4. r.kind \in {"create", "delete"} => id = None
    BY <1>1, RequestFields
  <2>5. r.kind \in {"create", "join", "accept", "leave"} => Touched(r) = {r.user}
    BY DEF Touched
  <2>6. r.kind \in {"kick", "delete"} => Touched(r) = {r.target}
    BY DEF Touched
  <2>7. r.kind = "disband" => Touched(r) = team[id].members
    BY DEF Touched
  <2>8. r.kind \in {"create", "join", "accept"} => teamId[r.user] = None
    BY <1>1 DEF Admitted
  <2>9. r.kind \in {"join", "accept", "leave", "kick"} => team[id].active
    BY <1>1 DEF Admitted, Open, Owns
  <2>10. r.kind \in {"accept", "decline"} => team[id].invites[r.user] > 0
    BY <1>1 DEF Admitted
  <2>11. r.kind = "kick" => team[id].owner # r.target /\ r.target \in team[id].members
    BY <1>1 DEF Admitted, Owns
  <2>12. r.kind \in Saves => team[id].owner \in team[id].members \cup deleted
    BY <2>2 DEF ServiceInv, DocsInv, OwnerListed, Saves
  <2>13. r.kind = "delete" /\ teamId[r.target] # None =>
            teamId[r.target] \in Teams /\ team[teamId[r.target]] # None
    BY <1>1, RequestFields
       DEF Admitted, ServiceInv, DocsInv, TeamListsItsPlayers, Open, Live
  <2>14. None \notin Teams
    BY TeamsAssumption
  <2>15. team' = team /\ deleted' = deleted
    BY <1>1 DEF docs
  <2>16. r.kind \notin {"create", "delete"} =>
            s.id \in Teams /\ s.team = team[id] /\ s.team \in TeamDocs
    BY <2>2, <2>3, <2>14
  <2> HIDE DEF s, id, r
  <2>17. r.kind = "leave" => s.at[r.user] = s.id
    BY <2>3, <2>5 DEF id
  <2>18. QED
    BY <2>1, <2>2, <2>3, <2>4, <2>5, <2>6, <2>7, <2>8, <2>9, <2>10, <2>11, <2>12,
       <2>13, <2>15, <2>16, <2>17 DEF CallKnows, Saves
<1>8. \A b \in Calls \ {c} : seen'[b] # None => CallKnows(b)'
  <2> SUFFICES ASSUME NEW b \in Calls \ {c}, seen'[b] # None PROVE CallKnows(b)'
    OBVIOUS
  <2>1. seen'[b] = seen[b] /\ CallKnows(b)
    BY <1>1 DEF ServiceInv, TypeOK, SeenInv
  <2>2. QED
    BY <1>1, <2>1 DEF CallKnows, docs
<1>9. QED
    BY <1>6, <1>7, <1>8 DEF SeenInv
-----------------------------------------------------------------------------
(* Changes of the documents *)

\* The team documents after team t was stored as d, hooks and index passed.
Stored(t, d) ==
    /\ d \in TeamDocs
    /\ IndexAdmits(t, d)
    /\ team' = [team EXCEPT ![t] = d]

\* Team t is founded by p.
Founded(t, p) ==
    /\ team[t] = None
    /\ Stored(t, NewTeam(p))
    /\ teamId[p] = None
    /\ teamId' = [teamId EXCEPT ![p] = t]
    /\ deleted' = deleted

\* Player p, of no team, enters the open team t.
Entered(t, p, d) ==
    /\ Open(t)
    /\ Stored(t, d)
    /\ d.active /\ d.owner = team[t].owner /\ d.members = team[t].members \cup {p, d.owner}
    /\ teamId[p] = None
    /\ teamId' = [teamId EXCEPT ![p] = t]
    /\ deleted' = deleted

\* Player p goes out of the open team t, which may get a new owner; without a
\* member to hand over to it closes, still listing its owner.
Exited(t, p, d) ==
    /\ Open(t)
    /\ Stored(t, d)
    /\ \/ /\ d.active /\ d.owner # p
          /\ d.owner = team[t].owner \/ d.owner \in team[t].members
          /\ d.members = (team[t].members \ {p}) \cup {d.owner}
       \/ /\ ~d.active /\ d.owner = p /\ d.members = {p} /\ team[t].members \subseteq {p}
    /\ teamId' = [teamId EXCEPT ![p] = None]
    /\ deleted' = deleted
    /\ p \in team[t].members \/ teamId[p] = t

\* Team t is closed and its members are freed.
Dissolved(t, d) ==
    /\ team[t] # None
    /\ Stored(t, d)
    /\ ~d.active /\ d.owner = team[t].owner /\ d.members = {d.owner}
    /\ teamId' = [p \in Players |-> IF p \in team[t].members THEN None ELSE teamId[p]]
    /\ deleted' = deleted

\* A plain save: members are as before, but for a deleted owner put back.
Saved(t, d) ==
    /\ team[t] # None
    /\ Stored(t, d)
    /\ d.active = team[t].active /\ d.owner = team[t].owner
    /\ team[t].members \subseteq d.members /\ d.members \subseteq team[t].members \cup deleted
    /\ UNCHANGED <<teamId, deleted>>

\* Player p is deleted, and pulled from the team it had when it was loaded.
Deleted(p) ==
    /\ \/ UNCHANGED team
       \/ \E t \in Teams : \E d \in TeamDocs :
             /\ team[t] # None
             /\ team' = [team EXCEPT ![t] = d]
             /\ d.active = team[t].active /\ d.owner = team[t].owner
             /\ d.members = team[t].members \ {p}
    /\ teamId' = [teamId EXCEPT ![p] = None]
    /\ deleted' = deleted \cup {p}

DocsStep ==
    \/ \E t \in Teams, p \in Players : Founded(t, p)
    \/ \E t \in Teams, p \in Players, d \in TeamDocs : Entered(t, p, d) \/ Exited(t, p, d)
    \/ \E t \in Teams, d \in TeamDocs : Dissolved(t, d) \/ Saved(t, d)
    \/ \E p \in Players : Deleted(p)

\* Storing a document that the index admits lists nobody twice.
LEMMA StoredListsOnce ==
    ASSUME TypeOK, OneTeamPerPlayer, NEW t \in Teams, NEW d \in TeamDocs, Stored(t, d)
    PROVE  OneTeamPerPlayer'
    BY NoneIsNoDocument DEF TypeOK, OneTeamPerPlayer, Stored, IndexAdmits, Lists

LEMMA FoundedInv ==
    ASSUME TypeOK, DocsInv, NEW t \in Teams, NEW p \in Players, Founded(t, p)
    PROVE  DocsInv'
<1> DEFINE d == NewTeam(p)
<1>1. /\ d \in TeamDocs /\ d # None /\ d.active /\ d.owner = p /\ d.members = {p}
      /\ team' = [team EXCEPT ![t] = d] /\ team[t] = None /\ IndexAdmits(t, d)
      /\ teamId[p] = None /\ teamId' = [teamId EXCEPT ![p] = t] /\ deleted' = deleted
    BY NoneIsNoDocument DEF Founded, Stored, NewTeam
<1> HIDE DEF d
<1>2. OneTeamPerPlayer'
    BY StoredListsOnce, <1>1 DEF Founded, Stored, DocsInv, d
<1>3. OwnerListed'
    BY <1>1 DEF TypeOK, DocsInv, OwnerListed
<1>4. TeamListsItsPlayers'
    BY <1>1, TeamsAssumption DEF TypeOK, DocsInv, TeamListsItsPlayers, Open, Lists, Live
<1>5. StraysAreAccounted'
    BY <1>1 DEF TypeOK, DocsInv, StraysAreAccounted, Lists, Live, IndexAdmits
<1>6. OwnerIsInTeam'
    BY <1>1, TeamsAssumption DEF TypeOK, DocsInv, OwnerIsInTeam, Open, TeamDocs
<1>7. QED
    BY <1>2, <1>3, <1>4, <1>5, <1>6 DEF DocsInv

LEMMA EnteredInv ==
    ASSUME TypeOK, DocsInv, NEW t \in Teams, NEW p \in Players, NEW d \in TeamDocs,
           Entered(t, p, d)
    PROVE  DocsInv'
<1>1. /\ d # None /\ d.active /\ d.owner = team[t].owner
      /\ d.members = team[t].members \cup {p, d.owner}
      /\ team' = [team EXCEPT ![t] = d] /\ Open(t) /\ IndexAdmits(t, d)
      /\ teamId[p] = None /\ teamId' = [teamId EXCEPT ![p] = t] /\ deleted' = deleted
    BY NoneIsNoDocument DEF Entered, Stored
<1>2. OneTeamPerPlayer'
    BY StoredListsOnce DEF Entered, DocsInv
<1>3. OwnerListed'
    BY <1>1 DEF TypeOK, DocsInv, OwnerListed
<1>4. TeamListsItsPlayers'
    BY <1>1, TeamsAssumption DEF TypeOK, DocsInv, TeamListsItsPlayers, Open, Lists, Live
<1>5. d.owner \in team[t].members \cup deleted
    BY <1>1 DEF DocsInv, OwnerListed, Open
<1>6. StraysAreAccounted'
    BY <1>1, <1>5 DEF TypeOK, DocsInv, StraysAreAccounted, Lists, Live, IndexAdmits, Open
<1>7. OwnerIsInTeam'
    BY <1>1, TeamsAssumption DEF TypeOK, DocsInv, OwnerIsInTeam, Open, TeamDocs
<1>8. QED
    BY <1>2, <1>3, <1>4, <1>6, <1>7 DEF DocsInv

LEMMA ExitedInv ==
    ASSUME TypeOK, DocsInv, NEW t \in Teams, NEW p \in Players, NEW d \in TeamDocs,
           Exited(t, p, d)
    PROVE  DocsInv'
<1>1. /\ d # None /\ team' = [team EXCEPT ![t] = d] /\ Open(t) /\ IndexAdmits(t, d)
      /\ teamId' = [teamId EXCEPT ![p] = None] /\ deleted' = deleted
      /\ p \in team[t].members \/ teamId[p] = t
    BY NoneIsNoDocument DEF Exited, Stored
<1>2. \/ /\ d.active /\ d.owner # p
         /\ d.owner = team[t].owner \/ d.owner \in team[t].members
         /\ d.members = (team[t].members \ {p}) \cup {d.owner}
      \/ /\ ~d.active /\ d.owner = p /\ d.members = {p} /\ team[t].members \subseteq {p}
    BY DEF Exited
\* Who is listed by the open team t and not deleted has it for a team.
<1>3. \A q \in Live : q \in team[t].members => teamId[q] = t
    BY <1>1 DEF DocsInv, StraysAreAccounted, Lists, Open
<1>4. \A q \in Live : teamId[q] = t => q \in team[t].members
    BY <1>1, TeamsAssumption DEF DocsInv, TeamListsItsPlayers, Lists, Open
<1>5. OneTeamPerPlayer'
    BY StoredListsOnce DEF Exited, DocsInv
<1>6. OwnerListed'
    BY <1>1, <1>2 DEF TypeOK, DocsInv, OwnerListed
<1>7. TeamListsItsPlayers'
    BY <1>1, <1>2, <1>4 DEF TypeOK, DocsInv, TeamListsItsPlayers, Open, Lists, Live
<1>8. d.owner \in team[t].members \cup deleted \/ d.owner = p
    BY <1>1, <1>2 DEF DocsInv, OwnerListed, Open
<1>9. StraysAreAccounted'
  <2> SUFFICES ASSUME NEW u \in Teams, NEW q \in Live, Lists(u, q)', teamId'[q] # u
               PROVE  ~team'[u].active /\ team'[u].owner = q
    BY <1>1 DEF StraysAreAccounted, Live
  <2>1. CASE u = t
    BY <2>1, <1>1, <1>2, <1>3, <1>8 DEF TypeOK, Lists, Live
  <2>2. CASE u # t
    <3>1. Lists(u, q) /\ team'[u] = team[u]
        BY <2>2, <1>1 DEF TypeOK, Lists
    <3>2. teamId[q] # u
      <4>1. q = p => teamId[q] # u
        BY <2>2, <3>1, <1>1, <1>3, <1>4 DEF Live, DocsInv, OneTeamPerPlayer, Lists, Open
      <4>2. QED
        BY <4>1, <1>1 DEF TypeOK, Live
    <3>3. QED
        BY <3>1, <3>2 DEF DocsInv, StraysAreAccounted
  <2>3. QED
    BY <2>1, <2>2
<1>10. OwnerIsInTeam'
  <2> SUFFICES ASSUME NEW u \in Teams, Open(u)', team'[u].owner \notin deleted
               PROVE  teamId'[team'[u].owner] = u
    BY <1>1 DEF OwnerIsInTeam
  <2>1. CASE u = t
    <3>1. d.active /\ d.owner # p /\ d.owner \in Players
        BY <2>1, <1>1, <1>2 DEF TypeOK, Open, TeamDocs
    <3>2. teamId[d.owner] = t
        BY <2>1, <3>1, <1>1, <1>3, <1>8 DEF TypeOK, Live
    <3>3. QED
        BY <2>1, <3>1, <3>2, <1>1 DEF TypeOK
  <2>2. CASE u # t
    <3>1. Open(u) /\ team'[u] = team[u]
        BY <2>2, <1>1 DEF TypeOK, Open
    <3>2. teamId[team[u].owner] = u /\ team[u].owner \in Live
        BY <3>1 DEF DocsInv, OwnerIsInTeam, Open, Live, TypeOK, TeamDocs
    <3>3. team[u].owner # p
        BY <3>2, <2>2, <1>1, <1>3
    <3>4. QED
        BY <3>1, <3>2, <3>3, <1>1 DEF TypeOK, Live
  <2>3. QED
    BY <2>1, <2>2
<1>11. QED
    BY <1>5, <1>6, <1>7, <1>9, <1>10 DEF DocsInv

LEMMA DissolvedInv ==
    ASSUME TypeOK, DocsInv, NEW t \in Teams, NEW d \in TeamDocs, Dissolved(t, d)
    PROVE  DocsInv'
<1>1. /\ d # None /\ ~d.active /\ d.owner = team[t].owner /\ d.members = {d.owner}
      /\ team' = [team EXCEPT ![t] = d] /\ team[t] # None /\ IndexAdmits(t, d)
      /\ teamId' = [p \in Players |-> IF p \in team[t].members THEN None ELSE teamId[p]]
      /\ deleted' = deleted
    BY NoneIsNoDocument DEF Dissolved, Stored
<1>2. OneTeamPerPlayer'
    BY StoredListsOnce DEF Dissolved, DocsInv
<1>3. OwnerListed'
    BY <1>1 DEF TypeOK, DocsInv, OwnerListed
<1>4. TeamListsItsPlayers'
    BY <1>1 DEF TypeOK, DocsInv, TeamListsItsPlayers, Open, Lists, Live
<1>5. StraysAreAccounted'
    BY <1>1 DEF TypeOK, DocsInv, StraysAreAccounted, OneTeamPerPlayer, Lists, Live, OwnerListed
<1>6. OwnerIsInTeam'
  <2> SUFFICES ASSUME NEW u \in Teams, Open(u)', team'[u].owner \notin deleted
               PROVE  teamId'[team'[u].owner] = u
    BY <1>1 DEF OwnerIsInTeam
  <2>1. u # t /\ team'[u] = team[u] /\ Open(u) /\ team[u].owner \in Live
    BY <1>1 DEF TypeOK, Open, Live, TeamDocs
  <2>2. teamId[team[u].owner] = u /\ Lists(u, team[u].owner)
    BY <2>1 DEF DocsInv, OwnerIsInTeam, OwnerListed, Open, Lists, Live
  <2>3. team[u].owner \notin team[t].members
    BY <2>1, <2>2, <1>1 DEF DocsInv, OneTeamPerPlayer, Lists, Live
  <2>4. QED
    BY <2>1, <2>2, <2>3, <1>1 DEF Live
<1>7. QED
    BY <1>2, <1>3, <1>4, <1>5, <1>6 DEF DocsInv

LEMMA SavedInv ==
    ASSUME TypeOK, DocsInv, NEW t \in Teams, NEW d \in TeamDocs, Saved(t, d)
    PROVE  DocsInv'
<1>1. /\ d # None /\ d.active = team[t].active /\ d.owner = team[t].owner
      /\ team[t].members \subseteq d.members /\ d.members \subseteq team[t].members \cup deleted
      /\ team' = [team EXCEPT ![t] = d] /\ team[t] # None
      /\ teamId' = teamId /\ deleted' = deleted
    BY NoneIsNoDocument DEF Saved, Stored
<1>2. OneTeamPerPlayer'
    BY StoredListsOnce DEF Saved, DocsInv
<1>3. OwnerListed' /\ TeamListsItsPlayers'
    BY <1>1 DEF TypeOK, DocsInv, OwnerListed, TeamListsItsPlayers, Open, Lists, Live
<1>4. StraysAreAccounted' /\ OwnerIsInTeam'
    BY <1>1 DEF TypeOK, DocsInv, StraysAreAccounted, OwnerIsInTeam, Open, Lists, Live
<1>5. QED
    BY <1>2, <1>3, <1>4 DEF DocsInv

LEMMA DeletedInv ==
    ASSUME TypeOK, DocsInv, NEW p \in Players, Deleted(p)
    PROVE  DocsInv'
<1>1. teamId' = [teamId EXCEPT ![p] = None] /\ deleted' = deleted \cup {p}
    BY DEF Deleted
\* Documents lose p from their members at most.
<1>2. \A t \in Teams :
         /\ team'[t] # None <=> team[t] # None
         /\ team[t] # None => /\ team'[t].active = team[t].active
                              /\ team'[t].owner = team[t].owner
                              /\ team'[t].members \subseteq team[t].members
                              /\ team[t].members \subseteq team'[t].members \cup {p}
    BY NoneIsNoDocument DEF Deleted, TypeOK
<1>3. OneTeamPerPlayer' /\ OwnerListed'
    BY <1>1, <1>2 DEF DocsInv, OneTeamPerPlayer, OwnerListed, Lists
<1>4. TeamListsItsPlayers'
    BY <1>1, <1>2 DEF TypeOK, DocsInv, TeamListsItsPlayers, Open, Lists, Live
<1>5. StraysAreAccounted'
    BY <1>1, <1>2 DEF TypeOK, DocsInv, StraysAreAccounted, Lists, Live
<1>6. OwnerIsInTeam'
    BY <1>1, <1>2 DEF TypeOK, DocsInv, OwnerIsInTeam, Open, TeamDocs
<1>7. QED
    BY <1>3, <1>4, <1>5, <1>6 DEF DocsInv
-----------------------------------------------------------------------------
(* The actions as changes of the documents *)

\* A transaction that finds no conflict finds what it has loaded.
LEMMA NoConflict ==
    ASSUME ServiceInv, NEW c \in Calls, seen[c] # None, ~Conflict(c)
    PROVE  /\ call[c] \in Requests /\ CallKnows(c)
           /\ call[c].kind \notin {"create", "delete"} => team[seen[c].id] = seen[c].team
           /\ \A p \in DOMAIN seen[c].at : teamId[p] = seen[c].at[p]
    BY TeamsAssumption DEF ServiceInv, TypeOK, SeenInv, CallKnows, Conflict

LEMMA CreateStep ==
    ASSUME ServiceInv, NEW c \in Calls, CreateTeam(c)
    PROVE  DocsStep
<1> DEFINE p == call[c].user
<1>1. PICK t \in Teams : /\ team[t] = None
                         /\ Commit(c, t, NewTeam(p))
                         /\ teamId' = [teamId EXCEPT ![p] = t]
    BY DEF CreateTeam
<1>2. call[c].kind = "create" /\ seen[c] # None /\ ~Conflict(c)
    BY <1>1 DEF CreateTeam, Ready, Commit
<1>3. p \in Players /\ teamId[p] = None
    BY <1>2, NoConflict, RequestFields DEF CallKnows
<1> HIDE DEF p
<1>4. NewTeam(p) \in TeamDocs /\ WithOwner(NewTeam(p)) = NewTeam(p)
  <2>1. NewTeam(p) \in TeamDocs
    BY <1>3, TeamsAssumption DEF NewTeam, TeamDocs
  <2>2. NewTeam(p).members \cup {NewTeam(p).owner} = NewTeam(p).members
    BY DEF NewTeam
  <2>3. QED
    BY <2>1, <2>2 DEF WithOwner, TeamDocs
<1>5. Founded(t, p)
    BY <1>1, <1>3, <1>4 DEF Founded, Stored, Commit
<1>6. QED
    BY <1>3, <1>5 DEF DocsStep

LEMMA JoinStep ==
    ASSUME ServiceInv, NEW c \in Calls, JoinTeam(c)
    PROVE  DocsStep
<1> DEFINE p == call[c].user
           t == seen[c].id
           e == [seen[c].team EXCEPT !.members = @ \cup {p}]
           f == IF call[c].kind = "join" THEN e ELSE [e EXCEPT !.invites[p] = @ - 1]
           d == WithOwner(f)
<1>1. /\ call[c].kind \in {"join", "accept"} /\ seen[c] # None /\ Commit(c, t, f)
      /\ teamId' = [teamId EXCEPT ![p] = t]
    BY DEF JoinTeam, Ready
<1>2. /\ p \in Players /\ t \in Teams /\ seen[c].team \in TeamDocs /\ team[t] = seen[c].team
      /\ seen[c].team.active /\ teamId[p] = None /\ team[t] # None
      /\ call[c].kind = "accept" => seen[c].team.invites[p] > 0
  <2>1. ~Conflict(c) /\ seen[c] # None
    BY <1>1 DEF Commit
  <2>2. call[c] \in Requests /\ CallKnows(c)
    BY <2>1, NoConflict
  <2>3. team[t] = seen[c].team /\ \A q \in DOMAIN seen[c].at : teamId[q] = seen[c].at[q]
    BY <1>1, <2>1, NoConflict
  <2>4. p \in Players
    BY <1>1, <2>2, RequestFields
  <2>5. /\ t \in Teams /\ seen[c].team \in TeamDocs /\ team[t] # None
        /\ seen[c].team.active /\ DOMAIN seen[c].at = {p} /\ seen[c].at[p] = None
        /\ call[c].kind = "accept" => seen[c].team.invites[p] > 0
    BY <1>1, <2>2 DEF CallKnows
  <2>6. QED
    BY <2>3, <2>4, <2>5
<1>3. /\ f \in TeamDocs /\ f.active = seen[c].team.active /\ f.owner = seen[c].team.owner
      /\ f.members = seen[c].team.members \cup {p}
  <2>1. e \in TeamDocs
    BY <1>2 DEF TeamDocs
  <2>2. call[c].kind = "accept" => e.invites[p] - 1 \in 0..MaxInvites
    BY <1>2, TeamsAssumption DEF TeamDocs
  <2>3. QED
    BY <1>1, <1>2, <2>1, <2>2 DEF TeamDocs
<1> HIDE DEF f
<1>4. /\ d \in TeamDocs /\ d.active /\ d.owner = team[t].owner
      /\ d.members = team[t].members \cup {p, d.owner}
    BY <1>2, <1>3 DEF WithOwner, TeamDocs
<1>5. Entered(t, p, d)
    BY <1>1, <1>2, <1>4 DEF Entered, Stored, Commit, Open
<1>6. QED
    BY <1>2, <1>4, <1>5 DEF DocsStep

LEMMA LeaveStep ==
    ASSUME ServiceInv, NEW c \in Calls, LeaveTeam(c)
    PROVE  DocsStep
<1> DEFINE p == call[c].user
           t == seen[c].id
<1>1. PICK e \in Departed(seen[c].team, p) : Commit(c, t, e)
    BY DEF LeaveTeam
<1>2. call[c].kind = "leave" /\ seen[c] # None /\ teamId' = [teamId EXCEPT ![p] = None]
    BY DEF LeaveTeam, Ready
<1>3. /\ p \in Players /\ t \in Teams /\ seen[c].team \in TeamDocs /\ team[t] = seen[c].team
      /\ seen[c].team.active /\ teamId[p] = t /\ team[t] # None
    BY <1>1, <1>2, NoConflict, RequestFields DEF Commit, CallKnows
<1> DEFINE rest == team[t].members \ {p}
           d == WithOwner(e)
<1>4. /\ e \in TeamDocs /\ e.members = rest
      /\ \/ team[t].owner # p /\ e.owner = team[t].owner /\ e.active
         \/ team[t].owner = p /\ rest = {} /\ ~e.active /\ e.owner = p
         \/ team[t].owner = p /\ e.owner \in rest /\ e.active
  <2>1. CASE team[t].owner # p
    BY <2>1, <1>1, <1>3 DEF Departed, TeamDocs
  <2>2. CASE team[t].owner = p /\ rest = {}
    BY <2>2, <1>1, <1>3 DEF Departed, TeamDocs
  <2>3. CASE team[t].owner = p /\ rest # {}
    <3>1. PICK q \in rest : e = [team[t] EXCEPT !.members = rest, !.owner = q]
        BY <2>3, <1>1, <1>3 DEF Departed
    <3>2. q \in Players /\ rest \in SUBSET Players
        BY <1>3 DEF TeamDocs
    <3>3. QED
        BY <2>3, <3>1, <3>2, <1>3 DEF TeamDocs
  <2>4. QED
    BY <2>1, <2>2, <2>3
<1>5. /\ d \in TeamDocs /\ d.active = e.active /\ d.owner = e.owner
      /\ d.members = rest \cup {e.owner}
    BY <1>4 DEF WithOwner, TeamDocs
<1>6. Stored(t, d)
    BY <1>1, <1>5 DEF Stored, Commit
<1> HIDE DEF d
<1>7. Exited(t, p, d)
    BY <1>1, <1>2, <1>3, <1>4, <1>5, <1>6 DEF Exited, Commit, Open
<1>8. QED
    BY <1>3, <1>5, <1>7 DEF DocsStep

LEMMA KickStep ==
    ASSUME ServiceInv, NEW c \in Calls, KickMember(c)
    PROVE  DocsStep
<1> DEFINE p == call[c].target
           t == seen[c].id
           e == [seen[c].team EXCEPT !.members = @ \ {p}]
           d == WithOwner(e)
<1>1. /\ call[c].kind = "kick" /\ seen[c] # None /\ Commit(c, t, e)
      /\ teamId' = [teamId EXCEPT ![p] = None]
    BY DEF KickMember, Ready
<1>2. /\ p \in Players /\ t \in Teams /\ seen[c].team \in TeamDocs /\ team[t] = seen[c].team
      /\ seen[c].team.active /\ seen[c].team.owner # p /\ team[t] # None
      /\ p \in team[t].members
    BY <1>1, NoConflict, RequestFields DEF Commit, CallKnows
<1>3. /\ e \in TeamDocs /\ e.active /\ e.owner = team[t].owner
      /\ e.members = team[t].members \ {p}
    BY <1>2 DEF TeamDocs
<1> HIDE DEF e
<1>4. /\ d \in TeamDocs /\ d.active /\ d.owner = team[t].owner
      /\ d.members = (team[t].members \ {p}) \cup {d.owner}
    BY <1>3 DEF WithOwner, TeamDocs
<1>5. Stored(t, d)
    BY <1>1, <1>4 DEF Stored, Commit
<1> HIDE DEF d
<1>6. Exited(t, p, d)
    BY <1>1, <1>2, <1>4, <1>5 DEF Exited, Commit, Open
<1>7. QED
    BY <1>2, <1>4, <1>6 DEF DocsStep

LEMMA DisbandStep ==
    ASSUME ServiceInv, NEW c \in Calls, DisbandTeam(c)
    PROVE  DocsStep
<1> DEFINE t == seen[c].id
           e == Cleared(seen[c].team)
           d == WithOwner(e)
<1>1. /\ call[c].kind = "disband" /\ seen[c] # None /\ Commit(c, t, e)
      /\ teamId' = [p \in Players |-> IF p \in DOMAIN seen[c].at THEN None ELSE teamId[p]]
    BY DEF DisbandTeam, Ready
<1>2. /\ t \in Teams /\ seen[c].team \in TeamDocs /\ team[t] = seen[c].team
      /\ DOMAIN seen[c].at = team[t].members /\ team[t] # None
    BY <1>1, NoConflict DEF Commit, CallKnows
<1>3. e \in TeamDocs /\ ~e.active /\ e.owner = team[t].owner /\ e.members = {}
  <2>1. [p \in Players |-> 0] \in [Players -> 0..MaxInvites]
    BY TeamsAssumption
  <2>2. QED
    BY <1>2, <2>1 DEF Cleared, TeamDocs
<1> HIDE DEF e
<1>4. d \in TeamDocs /\ ~d.active /\ d.owner = team[t].owner /\ d.members = {d.owner}
    BY <1>3 DEF WithOwner, TeamDocs
<1>5. Dissolved(t, d)
    BY <1>1, <1>2, <1>4 DEF Dissolved, Stored, Commit
<1>6. QED
    BY <1>2, <1>4, <1>5 DEF DocsStep

\* What a plain save has: the stored document, and the owner if it was missing.
LEMMA Pushed ==
    ASSUME ServiceInv, NEW c \in Calls, Ready(c, Saves)
    PROVE  LET t == seen[c].id
               d == PushOwner(seen[c])
           IN  /\ t \in Teams /\ team[t] # None /\ team[t] \in TeamDocs
               /\ d \in TeamDocs /\ d.active = team[t].active /\ d.owner = team[t].owner
               /\ team[t].members \subseteq d.members
               /\ d.members \subseteq team[t].members \cup deleted
               /\ seen[c].team \in TeamDocs
               /\ call[c] \in Requests
               /\ call[c].kind = "decline" => seen[c].team.invites[call[c].user] > 0
<1>1. CallKnows(c) /\ call[c] \in Requests /\ call[c].kind \in Saves
    BY DEF Ready, ServiceInv, SeenInv, TypeOK
<1>2. /\ seen[c].id \in Teams /\ team[seen[c].id] # None /\ seen[c].team \in TeamDocs
      /\ seen[c].team.owner \in seen[c].team.members \cup deleted
      /\ call[c].kind = "decline" => seen[c].team.invites[call[c].user] > 0
    BY <1>1 DEF CallKnows, Saves
<1>3. team[seen[c].id] \in TeamDocs
    BY <1>2 DEF ServiceInv, TypeOK
<1>4. QED
    BY <1>1, <1>2, <1>3 DEF PushOwner, TeamDocs

LEMMA SaveStep ==
    ASSUME ServiceInv, NEW c \in Calls,
           UpdateTeam(c) \/ GenerateJoinCode(c) \/ InviteUser(c) \/ DeclineInvite(c)
    PROVE  DocsStep
<1> DEFINE t == seen[c].id
           d == PushOwner(seen[c])
<1>1. Ready(c, Saves)
    BY DEF UpdateTeam, GenerateJoinCode, InviteUser, DeclineInvite, Ready, Saves
<1> SUFFICES \E e \in TeamDocs :
                /\ e.active = d.active /\ e.owner = d.owner /\ e.members = d.members
                /\ IndexAdmits(t, e) /\ team' = [team EXCEPT ![t] = e]
                /\ UNCHANGED <<teamId, deleted>>
    BY <1>1, Pushed DEF DocsStep, Saved, Stored
<1>2. d \in TeamDocs /\ seen[c].team \in TeamDocs /\ call[c] \in Requests
    BY <1>1, Pushed
<1>3. CASE UpdateTeam(c)
  <2>1. [d EXCEPT !.limit = call[c].limit] \in TeamDocs
    BY <1>2, RequestFields DEF TeamDocs
  <2>2. QED
    BY <2>1, <1>3, <1>2 DEF UpdateTeam, Save, TeamDocs
<1>4. CASE GenerateJoinCode(c)
    BY <1>4, <1>2 DEF GenerateJoinCode, Save
<1>5. CASE InviteUser(c)
  <2>1. d.invites[call[c].target] < MaxInvites /\ call[c].target \in Players
    BY <1>5, <1>2, RequestFields DEF InviteUser, Ready
  <2>2. [d EXCEPT !.invites[call[c].target] = @ + 1] \in TeamDocs
    BY <2>1, <1>2, TeamsAssumption DEF TeamDocs
  <2>3. QED
    BY <2>2, <1>5, <1>2 DEF InviteUser, Save, TeamDocs
<1>6. CASE DeclineInvite(c)
  <2> DEFINE inv == [seen[c].team.invites EXCEPT ![call[c].user] = @ - 1]
  <2>1. seen[c].team.invites[call[c].user] > 0 /\ call[c].user \in Players
    BY <1>6, <1>1, <1>2, Pushed, RequestFields DEF DeclineInvite, Ready
  <2>2. inv \in [Players -> 0..MaxInvites]
    BY <2>1, <1>2, TeamsAssumption DEF TeamDocs
  <2>3. [d EXCEPT !.invites = inv] \in TeamDocs
    BY <2>2, <1>2 DEF TeamDocs
  <2>4. QED
    BY <2>3, <1>6, <1>2 DEF DeclineInvite, Save, TeamDocs
<1>7. QED
    BY <1>3, <1>4, <1>5, <1>6

LEMMA DeleteStep ==
    ASSUME ServiceInv, NEW c \in Calls, DeleteUser(c)
    PROVE  DocsStep
<1> DEFINE p == call[c].target
           t == seen[c].at[p]
<1>1. /\ call[c].kind = "delete" /\ seen[c] # None
      /\ teamId' = [teamId EXCEPT ![p] = None] /\ deleted' = deleted \cup {p}
      /\ t = None => team' = team
      /\ t # None => team' = [team EXCEPT ![t] = [team[t] EXCEPT !.members = @ \ {p}]]
    BY DEF DeleteUser, Ready
<1>2. p \in Players /\ (t # None => t \in Teams /\ team[t] # None)
    BY <1>1, RequestFields DEF ServiceInv, SeenInv, CallKnows, TypeOK
<1>3. CASE t = None
    BY <1>1, <1>2, <1>3 DEF DocsStep, Deleted
<1>4. CASE t # None
  <2> DEFINE d == [team[t] EXCEPT !.members = @ \ {p}]
  <2>1. team[t] \in TeamDocs /\ t \in Teams /\ team[t] # None
    BY <1>2, <1>4 DEF ServiceInv, TypeOK
  <2>2. /\ d \in TeamDocs /\ d.active = team[t].active /\ d.owner = team[t].owner
        /\ d.members = team[t].members \ {p}
    BY <2>1 DEF TeamDocs
  <2>3. team' = [team EXCEPT ![t] = d]
    BY <1>1, <1>4
  <2> HIDE DEF d
  <2>4. QED
    BY <1>1, <1>2, <2>1, <2>2, <2>3 DEF DocsStep, Deleted
<1>5. QED
    BY <1>3, <1>4
-----------------------------------------------------------------------------
(* The invariant *)

\* The actions that write documents, and what they leave of the calls.
Writes(c) ==
    \/ CreateTeam(c) \/ JoinTeam(c) \/ LeaveTeam(c) \/ KickMember(c) \/ DisbandTeam(c)
    \/ UpdateTeam(c) \/ GenerateJoinCode(c) \/ InviteUser(c) \/ DeclineInvite(c)
    \/ DeleteUser(c)

LEMMA WritesAreDocsSteps ==
    ASSUME ServiceInv, NEW c \in Calls, Writes(c)
    PROVE  DocsStep
    BY CreateStep, JoinStep, LeaveStep, KickStep, DisbandStep, SaveStep, DeleteStep DEF Writes

LEMMA WritesEndTheCall ==
    ASSUME ServiceInv, NEW c \in Calls, Writes(c)
    PROVE  /\ call' = [call EXCEPT ![c] = None] /\ seen' = [seen EXCEPT ![c] = None]
           /\ codes' \subseteq Teams /\ overtaken' \subseteq Calls
<1>1. CASE CreateTeam(c) \/ JoinTeam(c) \/ LeaveTeam(c) \/ KickMember(c) \/ DisbandTeam(c)
  <2>1. PICK t, d : Commit(c, t, d)
    BY <1>1 DEF CreateTeam, JoinTeam, LeaveTeam, KickMember, DisbandTeam
  <2>2. QED
    BY <2>1 DEF Commit, Idle, Superseded, ServiceInv, TypeOK
<1>2. CASE UpdateTeam(c) \/ GenerateJoinCode(c) \/ InviteUser(c) \/ DeclineInvite(c)
  <2>1. PICK d, e : Save(c, d, e)
    BY <1>2 DEF UpdateTeam, GenerateJoinCode, InviteUser, DeclineInvite
  <2>2. codes' \subseteq Teams
    <3>1. Ready(c, Saves)
        BY <1>2 DEF UpdateTeam, GenerateJoinCode, InviteUser, DeclineInvite, Ready, Saves
    <3>2. seen[c].id \in Teams
        BY <3>1, Pushed
    <3>3. QED
        BY <1>2, <3>2 DEF UpdateTeam, GenerateJoinCode, InviteUser, DeclineInvite, ServiceInv, TypeOK
  <2>3. call' = [call EXCEPT ![c] = None] /\ seen' = [seen EXCEPT ![c] = None]
    BY <2>1 DEF Save, Idle
  <2>4. overtaken' \subseteq Calls
    BY <2>1 DEF Save, Superseded, ServiceInv, TypeOK
  <2>5. QED
    BY <2>2, <2>3, <2>4
<1>3. CASE DeleteUser(c)
    BY <1>3 DEF DeleteUser, Idle, ServiceInv, TypeOK
<1>4. QED
    BY <1>1, <1>2, <1>3 DEF Writes

\* A change of the documents keeps their types, and removes no document.
LEMMA DocsStepTypes ==
    ASSUME TypeOK, DocsStep
    PROVE  /\ team' \in [Teams -> TeamDocs \cup {None}]
           /\ teamId' \in [Players -> Teams \cup {None}]
           /\ deleted' \subseteq Players /\ deleted \subseteq deleted'
           /\ \A t \in Teams : team[t] # None => team'[t] # None
<1>1. ASSUME NEW t \in Teams, NEW d \in TeamDocs, Stored(t, d)
      PROVE  /\ team' \in [Teams -> TeamDocs \cup {None}]
             /\ \A u \in Teams : team[u] # None => team'[u] # None
    BY <1>1, NoneIsNoDocument DEF Stored, TypeOK
<1>2. ASSUME NEW t \in Teams, NEW p \in Players, Founded(t, p)
      PROVE  Stored(t, NewTeam(p)) /\ NewTeam(p) \in TeamDocs
    BY <1>2 DEF Founded, Stored
<1>3. CASE \E t \in Teams, p \in Players : Founded(t, p)
    BY <1>1, <1>2, <1>3 DEF Founded, TypeOK
<1>4. CASE \E t \in Teams, p \in Players, d \in TeamDocs : Entered(t, p, d) \/ Exited(t, p, d)
    BY <1>1, <1>4 DEF Entered, Exited, TypeOK
<1>5. CASE \E t \in Teams, d \in TeamDocs : Dissolved(t, d) \/ Saved(t, d)
    BY <1>1, <1>5 DEF Dissolved, Saved, TypeOK
<1>6. CASE \E p \in Players : Deleted(p)
  <2>1. PICK p \in Players : Deleted(p)
    BY <1>6
  <2>2. /\ team' \in [Teams -> TeamDocs \cup {None}]
        /\ \A t \in Teams : team[t] # None => team'[t] # None
    BY <2>1, NoneIsNoDocument DEF Deleted, TypeOK
  <2>3. QED
    BY <2>1, <2>2 DEF Deleted, TypeOK
<1>7. QED
    BY <1>3, <1>4, <1>5, <1>6 DEF DocsStep

LEMMA DocsStepInv ==
    ASSUME TypeOK, DocsInv, DocsStep
    PROVE  DocsInv'
    BY FoundedInv, EnteredInv, ExitedInv, DissolvedInv, SavedInv, DeletedInv DEF DocsStep

\* Steps that write no document.
LEMMA QuietDocs ==
    ASSUME DocsInv, UNCHANGED docs
    PROVE  DocsInv'
    BY DEF DocsInv, docs, OwnerListed, TeamListsItsPlayers, StraysAreAccounted,
           OneTeamPerPlayer, OwnerIsInTeam, Open, Lists, Live

LEMMA InvInit == Init => ServiceInv
<1> SUFFICES ASSUME Init PROVE ServiceInv
    OBVIOUS
<1>1. TypeOK
    BY TeamsAssumption DEF Init, TypeOK
<1>2. SeenInv
    BY DEF Init, SeenInv
<1>3. DocsInv
    BY DEF Init, DocsInv, OwnerListed, TeamListsItsPlayers, StraysAreAccounted,
           OneTeamPerPlayer, OwnerIsInTeam, Open, Lists, Live
<1>4. QED
    BY <1>1, <1>2, <1>3 DEF ServiceInv

\* A step starts a call, loads, writes, or only changes what no property reads.
LEMMA StepKinds ==
    ASSUME [Next]_vars
    PROVE  \/ \E c \in Calls, r \in Requests : Begin(c, r)
           \/ \E c \in Calls : /\ End(c) \/ Load(c) \/ Retry(c) \/ Writes(c)
                               /\ UNCHANGED made
           \/ \E t \in Teams : ExpireCode(t) /\ UNCHANGED made
           \/ UNCHANGED vars
    BY DEF Next, Work, Writes

LEMMA InvNext == ServiceInv /\ [Next]_vars => ServiceInv'
<1> SUFFICES ASSUME ServiceInv, [Next]_vars PROVE ServiceInv'
    OBVIOUS
<1> USE DEF ServiceInv
<1>1. CASE \E c \in Calls, r \in Requests : Begin(c, r)
  <2>1. PICK c \in Calls, r \in Requests : Begin(c, r)
    BY <1>1
  <2>2. TypeOK'
    BY <2>1, TeamsAssumption DEF Begin, TypeOK, docs
  <2>3. SeenInv'
    <3> SUFFICES ASSUME NEW b \in Calls, seen'[b] # None PROVE CallKnows(b)'
        BY DEF SeenInv
    <3>1. seen'[b] = seen[b] /\ CallKnows(b)
        BY <2>1 DEF Begin, SeenInv
    <3>2. b # c
        BY <2>1, <3>1 DEF Begin, CallKnows
    <3>3. call'[b] = call[b]
        BY <2>1, <3>2 DEF Begin, TypeOK
    <3>4. QED
        BY <2>1, <3>1, <3>3 DEF Begin, docs, CallKnows
  <2>4. QED
    BY <2>1, <2>2, <2>3, QuietDocs DEF Begin
<1>2. ASSUME NEW c \in Calls, End(c) \/ Retry(c), UNCHANGED made PROVE ServiceInv'
  <2>1. UNCHANGED docs /\ seen' = [seen EXCEPT ![c] = None]
        /\ (call' = call \/ call' = [call EXCEPT ![c] = None])
    BY <1>2 DEF End, Retry, Idle
  <2>2. TypeOK'
    BY <2>1, <1>2 DEF TypeOK, docs, End, Retry
  <2>3. SeenInv'
    BY <2>1, KnowledgeKept DEF docs
  <2>4. QED
    BY <2>1, <2>2, <2>3, QuietDocs
<1>3. ASSUME NEW c \in Calls, Load(c), UNCHANGED made PROVE ServiceInv'
    BY <1>3, LoadKnows, QuietDocs DEF Load
<1>4. ASSUME NEW c \in Calls, Writes(c), UNCHANGED made PROVE ServiceInv'
  <2>1. DocsStep
    BY <1>4, WritesAreDocsSteps
  <2>2. TypeOK'
    BY <1>4, <2>1, DocsStepTypes, WritesEndTheCall DEF TypeOK
  <2>3. SeenInv'
    BY <1>4, <2>1, DocsStepTypes, WritesEndTheCall, KnowledgeKept
  <2>4. QED
    BY <2>1, <2>2, <2>3, DocsStepInv
<1>5. CASE \/ \E t \in Teams : ExpireCode(t) /\ UNCHANGED made
           \/ UNCHANGED vars
  <2>1. UNCHANGED <<docs, call, seen, overtaken, made>> /\ codes' \subseteq Teams
    BY <1>5 DEF ExpireCode, vars, docs, TypeOK
  <2>2. TypeOK'
    BY <2>1 DEF TypeOK, docs
  <2>3. SeenInv'
    BY <2>1 DEF SeenInv, CallKnows, docs
  <2>4. QED
    BY <2>1, <2>2, <2>3, QuietDocs
<1>6. QED
    BY <1>1, <1>2, <1>3, <1>4, <1>5, StepKinds

LEMMA InvHolds == Spec => []ServiceInv
<1>1. QED
    BY InvInit, InvNext, PTL DEF Spec

\* Type correctness of Teams, for any number of players, teams and calls.
THEOREM TeamsTypeCorrect == Spec => []TypeOK
<1>1. ServiceInv => TypeOK
    BY DEF ServiceInv
<1>2. QED
    BY <1>1, InvHolds, PTL

\* Users and teams agree: whoever has a team is listed by it, whoever is listed
\* elsewhere owns a closed team, and nobody is listed twice.
THEOREM UsersAndTeamsAgreeHolds == Spec => []UsersAndTeamsAgree
<1>1. ServiceInv => UsersAndTeamsAgree
    BY DEF ServiceInv, DocsInv, UsersAndTeamsAgree
<1>2. QED
    BY <1>1, InvHolds, PTL

\* The owner of an active team plays in it, or was deleted.
THEOREM OwnerIsInTeamHolds == Spec => []OwnerIsInTeam
<1>1. ServiceInv => OwnerIsInTeam
    BY DEF ServiceInv, DocsInv
<1>2. QED
    BY <1>1, InvHolds, PTL
-----------------------------------------------------------------------------
(* Joining within the limit *)

\* A player who has team t after a step and not before came in by a commit that
\* passed the second hook.
LEMMA JoinsPassTheHook ==
    ASSUME ServiceInv, NEW c \in Calls, Writes(c), NEW t \in Teams, NEW p \in Players,
           teamId[p] # t, teamId'[p] = t
    PROVE  Cardinality(team'[t].members) <= team'[t].limit
<1>1. None # t
    BY TeamsAssumption
<1>2. CASE CreateTeam(c)
  <2>1. PICK u \in Teams : /\ Commit(c, u, NewTeam(call[c].user))
                           /\ teamId' = [teamId EXCEPT ![call[c].user] = u]
    BY <1>2 DEF CreateTeam
  <2>2. u = t
    BY <2>1 DEF ServiceInv, TypeOK
  <2> DEFINE d == NewTeam(call[c].user)
  <2>3. WithOwner(d).limit = d.limit
    BY DEF WithOwner, NewTeam
  <2>4. team'[t] = WithOwner(d)
    BY <2>1, <2>2 DEF Commit, ServiceInv, TypeOK
  <2>5. QED
    BY <2>1, <2>3, <2>4 DEF Commit, WithinLimit
<1>3. CASE JoinTeam(c)
  <2> DEFINE e == [seen[c].team EXCEPT !.members = @ \cup {call[c].user}]
             f == IF call[c].kind = "join" THEN e
                  ELSE [e EXCEPT !.invites[call[c].user] = @ - 1]
  <2>1. /\ Ready(c, {"join", "accept"}) /\ Commit(c, seen[c].id, f)
        /\ teamId' = [teamId EXCEPT ![call[c].user] = seen[c].id]
    BY <1>3 DEF JoinTeam
  <2>2. seen[c].id = t
    BY <2>1 DEF ServiceInv, TypeOK
  <2>3. seen[c].team \in TeamDocs
    BY <2>1, NoConflict DEF Ready, Commit, CallKnows
  <2>4. WithOwner(f).limit = f.limit
    BY <2>3 DEF WithOwner, TeamDocs
  <2>5. team'[t] = WithOwner(f)
    BY <2>1, <2>2 DEF Commit, ServiceInv, TypeOK
  <2>6. QED
    BY <2>1, <2>4, <2>5 DEF Commit, WithinLimit
<1>4. CASE LeaveTeam(c) \/ KickMember(c) \/ DisbandTeam(c) \/ DeleteUser(c)
  <2>1. teamId'[p] \in {None, teamId[p]}
    BY <1>4 DEF LeaveTeam, KickMember, DisbandTeam, DeleteUser, ServiceInv, TypeOK
  <2>2. QED
    BY <1>1, <2>1
<1>5. CASE UpdateTeam(c) \/ GenerateJoinCode(c) \/ InviteUser(c) \/ DeclineInvite(c)
    BY <1>5 DEF UpdateTeam, GenerateJoinCode, InviteUser, DeclineInvite, Save
<1>6. QED
    BY <1>2, <1>3, <1>4, <1>5 DEF Writes

\* Nobody is let into a team beyond the limit it has at that moment.
THEOREM NobodyJoinsBeyondLimitHolds == Spec => NobodyJoinsBeyondLimit
<1> DEFINE A == \A t \in Teams, p \in Players :
                   teamId[p] # t /\ teamId'[p] = t =>
                       Cardinality(team'[t].members) <= team'[t].limit
<1>1. ServiceInv /\ [Next]_vars => [A]_vars
  <2> SUFFICES ASSUME ServiceInv, [Next]_vars, NEW t \in Teams, NEW p \in Players,
                      teamId[p] # t, teamId'[p] = t
               PROVE  Cardinality(team'[t].members) <= team'[t].limit
    OBVIOUS
  <2>1. PICK c \in Calls : Writes(c)
    BY StepKinds DEF Begin, End, Load, Retry, ExpireCode, vars, docs
  <2>2. QED
    BY <2>1, JoinsPassTheHook
<1>2. QED
    BY <1>1, InvHolds, PTL DEF Spec, NobodyJoinsBeyondLimit

-----------------------------------------------------------------------------
(* The refinement *)

\* The abstract state that the documents stand for.
PlaysIn(p) == IF p \in deleted THEN None ELSE teamId[p]
PhaseOf(t) == IF team[t] = None THEN "unused" ELSE IF team[t].active THEN "open" ELSE "closed"
at == [p \in Players |-> PlaysIn(p)]
phase == [t \in Teams |-> PhaseOf(t)]

\* One change of the documents is one step of the roster, or none.
LEMMA DocsStepRefines ==
    ASSUME ServiceInv, DocsStep
    PROVE  [Roster!Next]_<<at, phase>>
<1> USE DEF ServiceInv
<1>1. at \in [Players -> Teams \cup {None}] /\ \A p \in Players : at[p] = PlaysIn(p)
    BY DEF TypeOK, at, PlaysIn
<1>2. at' = [p \in Players |-> PlaysIn(p)'] /\ phase' = [t \in Teams |-> PhaseOf(t)']
    BY DEF at, phase
<1>3. None \notin Teams
    BY TeamsAssumption
\* Whoever plays in t is listed by it, and t is open.
<1>4. \A p \in Players, t \in Teams : at[p] = t =>
         p \in Live /\ teamId[p] = t /\ Open(t) /\ p \in team[t].members
    BY <1>1, <1>3 DEF PlaysIn, DocsInv, TeamListsItsPlayers, Lists, Live
<1>5. ASSUME NEW t \in Teams, NEW d \in TeamDocs, Stored(t, d)
      PROVE  phase' = [phase EXCEPT ![t] = IF d.active THEN "open" ELSE "closed"]
    BY <1>2, <1>5, NoneIsNoDocument DEF Stored, phase, PhaseOf, TypeOK
<1>6. ASSUME NEW t \in Teams, NEW p \in Players, Founded(t, p)
      PROVE  [Roster!Next]_<<at, phase>>
  <2>1. NewTeam(p) \in TeamDocs /\ NewTeam(p).active /\ Stored(t, NewTeam(p))
    BY <1>6 DEF Founded, Stored, NewTeam
  <2>2. phase[t] = "unused" /\ phase' = [phase EXCEPT ![t] = "open"]
    BY <1>5, <1>6, <2>1 DEF Founded, phase, PhaseOf
  <2>3. CASE p \in deleted
    <3>1. at' = at
        BY <2>3, <1>2, <1>6 DEF Founded, at, PlaysIn, TypeOK
    <3>2. Roster!FoundDeserted(t)
        BY <2>2, <3>1 DEF Roster!FoundDeserted, at, phase, PlaysIn, PhaseOf
    <3>3. QED
        BY <3>2 DEF Roster!Next
  <2>4. CASE p \notin deleted
    <3>1. at[p] = None /\ at' = [at EXCEPT ![p] = t]
        BY <2>4, <1>2, <1>6 DEF Founded, at, PlaysIn, TypeOK
    <3>2. Roster!Found(p, t)
        BY <2>2, <3>1 DEF Roster!Found, at, phase, PlaysIn, PhaseOf
    <3>3. QED
        BY <3>2 DEF Roster!Next
  <2>5. QED
    BY <2>3, <2>4
<1>7. ASSUME NEW t \in Teams, NEW p \in Players, NEW d \in TeamDocs, Entered(t, p, d)
      PROVE  [Roster!Next]_<<at, phase>>
  <2>1. phase[t] = "open" /\ phase' = phase
    <3>1. phase[t] = "open"
        BY <1>7 DEF Entered, Open, phase, PhaseOf
    <3>2. phase' = [phase EXCEPT ![t] = "open"]
        BY <1>5, <1>7 DEF Entered
    <3>3. QED
        BY <3>1, <3>2 DEF phase
  <2>2. CASE p \in deleted
    <3>1. at' = at
        BY <2>2, <1>2, <1>7 DEF Entered, at, PlaysIn, TypeOK
    <3>2. QED
        BY <2>1, <3>1
  <2>3. CASE p \notin deleted
    <3>1. at[p] = None /\ at' = [at EXCEPT ![p] = t]
        BY <2>3, <1>2, <1>7 DEF Entered, at, PlaysIn, TypeOK
    <3>2. Roster!Join(p, t)
        BY <2>1, <3>1 DEF Roster!Join, at, phase, PlaysIn, PhaseOf
    <3>3. QED
        BY <3>2 DEF Roster!Next
  <2>4. QED
    BY <2>2, <2>3
<1>8. ASSUME NEW t \in Teams, NEW p \in Players, NEW d \in TeamDocs, Exited(t, p, d)
      PROVE  [Roster!Next]_<<at, phase>>
  <2>1. Open(t) /\ phase[t] = "open"
    BY <1>8 DEF Exited, phase, PhaseOf, Open
  <2>2. at' = [at EXCEPT ![p] = None]
    BY <1>1, <1>2, <1>8 DEF Exited, at, PlaysIn, TypeOK
  <2>3. at[p] \in {None, t}
    <3>1. p \in Live => teamId[p] = t
        BY <2>1, <1>8 DEF Exited, DocsInv, StraysAreAccounted, Lists, Open, Live
    <3>2. QED
        BY <3>1, <1>1 DEF PlaysIn, Live
  <2>4. CASE d.active
    <3>1. phase' = phase
        BY <2>1, <2>4, <1>5, <1>8 DEF Exited, phase
    <3>2. CASE at[p] = None
        BY <3>1, <3>2, <2>2, <1>1
    <3>3. CASE at[p] # None
      <4>1. Roster!Part(p)
        BY <3>1, <3>3, <2>2 DEF Roster!Part, at, phase, PlaysIn, PhaseOf
      <4>2. QED
        BY <4>1 DEF Roster!Next
    <3>4. QED
        BY <3>2, <3>3
  <2>5. CASE ~d.active
    <3>1. phase' = [phase EXCEPT ![t] = "closed"]
        BY <2>5, <1>5, <1>8 DEF Exited
    <3>2. team[t].members \subseteq {p}
        BY <2>5, <1>8 DEF Exited
    <3>3. \A q \in Players : at[q] = t => q = p
        BY <3>2, <1>4
    <3>4. at' = [q \in Players |-> IF at[q] = t THEN None ELSE at[q]]
        BY <3>3, <2>2, <2>3, <1>1
    <3>5. Roster!Disband(t)
        BY <3>1, <3>4, <2>1 DEF Roster!Disband, at, phase, PlaysIn, PhaseOf
    <3>6. QED
        BY <3>5 DEF Roster!Next
  <2>6. QED
    BY <2>4, <2>5
<1>9. ASSUME NEW t \in Teams, NEW d \in TeamDocs, Dissolved(t, d)
      PROVE  [Roster!Next]_<<at, phase>>
  <2>1. team[t] # None /\ phase' = [phase EXCEPT ![t] = "closed"]
    BY <1>5, <1>9 DEF Dissolved
  <2>2. \A p \in Players : p \in Live /\ p \in team[t].members =>
            teamId[p] = None \/ teamId[p] = t
    <3> SUFFICES ASSUME NEW p \in Live, p \in team[t].members, teamId[p] # None
                 PROVE  teamId[p] = t
        OBVIOUS
    <3>1. Lists(teamId[p], p) /\ Open(teamId[p]) /\ Lists(t, p)
        BY <2>1 DEF DocsInv, TeamListsItsPlayers, Lists, Live
    <3>2. QED
        BY <3>1 DEF DocsInv, OneTeamPerPlayer, Open, Live
  <2>3. at' = [p \in Players |-> IF at[p] = t THEN None ELSE at[p]]
    <3>1. \A p \in Players : PlaysIn(p)' = IF at[p] = t THEN None ELSE at[p]
        BY <2>2, <1>1, <1>4, <1>9 DEF Dissolved, PlaysIn, Live
    <3>2. QED
        BY <3>1, <1>2
  <2>4. CASE team[t].active
    <3>1. phase[t] = "open"
        BY <2>4, <2>1 DEF phase, PhaseOf
    <3>2. Roster!Disband(t)
        BY <3>1, <2>1, <2>3 DEF Roster!Disband, at, phase, PlaysIn, PhaseOf
    <3>3. QED
        BY <3>2 DEF Roster!Next
  <2>5. CASE ~team[t].active
    <3>1. phase' = phase
        BY <2>5, <2>1 DEF phase, PhaseOf
    <3>2. \A p \in Players : at[p] # t
        BY <2>5, <1>4 DEF Open
    <3>3. at' = at
        BY <3>2, <2>3, <1>1
    <3>4. QED
        BY <3>1, <3>3
  <2>6. QED
    BY <2>4, <2>5
<1>10. ASSUME NEW t \in Teams, NEW d \in TeamDocs, Saved(t, d)
       PROVE  [Roster!Next]_<<at, phase>>
  <2>1. phase' = phase
    BY <1>5, <1>10 DEF Saved, phase, PhaseOf
  <2>2. at' = at
    BY <1>2, <1>10 DEF Saved, at, PlaysIn
  <2>3. QED
    BY <2>1, <2>2
<1>11. ASSUME NEW p \in Players, Deleted(p)
       PROVE  [Roster!Next]_<<at, phase>>
  <2>1. phase' = phase
    <3>1. \A t \in Teams : PhaseOf(t)' = PhaseOf(t)
        BY <1>11, NoneIsNoDocument DEF Deleted, PhaseOf, TypeOK
    <3>2. QED
        BY <3>1, <1>2 DEF phase
  <2>2. at' = [at EXCEPT ![p] = None]
    BY <1>1, <1>2, <1>11 DEF Deleted, at, PlaysIn, TypeOK
  <2>3. CASE at[p] = None
    BY <2>1, <2>2, <2>3, <1>1
  <2>4. CASE at[p] # None
    <3>1. Roster!Part(p)
        BY <2>1, <2>2, <2>4 DEF Roster!Part, at, phase, PlaysIn, PhaseOf
    <3>2. QED
        BY <3>1 DEF Roster!Next
  <2>5. QED
    BY <2>3, <2>4
<1>12. QED
    BY <1>6, <1>7, <1>8, <1>9, <1>10, <1>11 DEF DocsStep

\* The team service implements the roster.
THEOREM TeamsImplementRoster == Spec => ImplementsRoster
<1>1. Init => Roster!Init
    BY DEF Init, Roster!Init
<1>2. ServiceInv /\ [Next]_vars => [Roster!Next]_(Roster!vars)
  <2> SUFFICES ASSUME ServiceInv, [Next]_vars PROVE [Roster!Next]_(Roster!vars)
    OBVIOUS
  <2>1. Roster!vars = <<at, phase>>
    BY DEF Roster!vars, at, phase, PlaysIn, PhaseOf
  <2>2. CASE \E c \in Calls : Writes(c)
    <3>1. [Roster!Next]_<<at, phase>>
        BY <2>2, WritesAreDocsSteps, DocsStepRefines
    <3>2. QED
        BY <3>1 DEF Roster!vars, at, phase, PlaysIn, PhaseOf
  <2>3. CASE UNCHANGED docs
    BY <2>3 DEF Roster!vars, docs
  <2>4. (\E c \in Calls : Writes(c)) \/ UNCHANGED docs
    BY StepKinds DEF Begin, End, Load, Retry, ExpireCode, vars, docs
  <2>5. QED
    BY <2>2, <2>3, <2>4
<1>3. QED
    BY <1>1, <1>2, InvHolds, PTL DEF Spec, ImplementsRoster, Roster!Spec
=============================================================================
