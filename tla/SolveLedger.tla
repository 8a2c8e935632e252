----------------------------- MODULE SolveLedger -----------------------------
(***************************************************************************)
(* What flag submission promises about solves and scores, with no mention  *)
(* of requests' stages, snapshots or counters.  A solve has an identity.   *)
(* It is recorded at most once, and no other one is for the same player    *)
(* and challenge.  It may then reach two accounts, its player's and its    *)
(* team's, each at most once and with the points it was recorded with; an  *)
(* account changes in no other way.                                        *)
(***************************************************************************)
EXTENDS Integers

CONSTANTS Ids, Users, Teams, Challenges, NoTeam

VARIABLES
    entry,      \* the recorded solves, a function on their identities
    credited,   \* which of them have reached which side: <<id, side>>
    players,    \* the account of each player: score and solved challenges
    teams       \* the account of each team

vars == <<entry, credited, players, teams>>

Solve == [user : Users, team : Teams \cup {NoTeam}, challenge : Challenges,
          points : Nat]

Empty == [score |-> 0, solved |-> {}]

SolvedBefore(u, c) ==
    \E i \in DOMAIN entry : entry[i].user = u /\ entry[i].challenge = c

Init ==
    /\ entry = [i \in {} |-> Empty]
    /\ credited = {}
    /\ players = [u \in Users |-> Empty]
    /\ teams = [t \in Teams |-> Empty]

\* A correct flag is accepted: this player has not solved this challenge yet.
Record(i, s) ==
    /\ i \in Ids \ DOMAIN entry
    /\ s \in Solve
    /\ ~SolvedBefore(s.user, s.challenge)
    /\ entry' = [j \in DOMAIN entry \cup {i} |-> IF j = i THEN s ELSE entry[j]]
    /\ UNCHANGED <<credited, players, teams>>

\* An account with solve s added to it.
Plus(account, s) ==
    [score |-> account.score + s.points, solved |-> account.solved \cup {s.challenge}]

\* A recorded solve reaches its side of the ledger for the first time.
Reaches(i, side) ==
    /\ i \in DOMAIN entry
    /\ <<i, side>> \notin credited
    /\ credited' = credited \cup {<<i, side>>}
    /\ UNCHANGED entry

CreditPlayer(i) ==
    /\ Reaches(i, "user")
    /\ players' = [players EXCEPT ![entry[i].user] = Plus(@, entry[i])]
    /\ UNCHANGED teams

CreditTeam(i) ==
    /\ Reaches(i, "team")
    /\ entry[i].team # NoTeam
    /\ teams' = [teams EXCEPT ![entry[i].team] = Plus(@, entry[i])]
    /\ UNCHANGED players

Next ==
    \/ \E i \in DOMAIN entry' : Record(i, entry'[i])
    \/ \E i \in DOMAIN entry : CreditPlayer(i) \/ CreditTeam(i)

Spec == Init /\ [][Next]_vars
==============================================================================
