------------------------------- MODULE Scores -------------------------------
(***************************************************************************)
(* Everything that writes a score: the credit of a solve (submitFlag) and  *)
(* the completion bonus of a story, with $inc; purchaseHint and            *)
(* manualScoreAdjust, which save a sum computed from an earlier read; and  *)
(* recalculateAllScores, which overwrites all of them with sums it         *)
(* aggregated.  Together with the administration of accounts (Roles).      *)
(*                                                                         *)
(* All solves are worth Value, each challenge has one hint, players do not *)
(* change teams and solves are not deleted (see Teams and Submission).     *)
(***************************************************************************)
EXTENDS Roles

CONSTANTS
    Players,
    Teams,
    TeamOf,     \* the team of each player, None for none
    Challenges,
    Value,
    HintCost,
    Bonus,      \* of the story
    Deltas,     \* of manual adjustments
    ScoreCalls  \* slots of concurrent calls

ASSUME ScoresAssumption ==
    /\ Players \subseteq Registered
    /\ None \notin Teams
    /\ TeamOf \in [Players -> Teams \cup {None}]
    /\ {Value, HintCost, Bonus} \subseteq Nat
    /\ Deltas \subseteq Int
    /\ IsFiniteSet(Challenges)

VARIABLES
    submitted,  \* correct submissions of each player
    score, solved, hints,       \* score, solvedChallenges and hintsPurchased of a user
    teamScore, teamSolved,      \* score and solvedChallenges of a team
    scoreCall,
    \* History, since the last recalculation: hints that were charged, what
    \* adjustments and bonuses added, and whether a write did not know of another.
    charged, adjusted, torn, teamTorn

userVars == <<score, solved, hints, charged, adjusted, torn>>
teamVars == <<teamScore, teamSolved, teamTorn>>
vars == <<roleVars, submitted, userVars, teamVars, scoreCall>>

SolveCalls == [op : {"credit", "creditTeam"}, player : Players, challenge : Challenges]
ASSUME NoneIsNoCall == None \notin SolveCalls

\* read and owned are the score and the hints that were loaded, write is the score
\* to save.
SaveCalls ==
    LET Saves(op, challenges) ==
            [op : {op}, player : Players, challenge : challenges,
             read : Nat, owned : SUBSET Challenges, write : Nat]
    IN  Saves("saveHint", Challenges) \cup Saves("saveScore", {None})
TeamCalls == [op : {"readTeam"}, team : Teams] \cup [op : {"setTeam"}, team : Teams, write : Nat]
\* unseen, a history: the players who were credited a solve that the sums leave out.
Recalculations ==
    [op : {"write", "zero"}, sums : [Players -> SUBSET Challenges], unseen : SUBSET Players]
        \cup [op : {"aggregateTeams"}]
        \cup [op : {"writeTeams", "zeroTeams"}, sums : [Teams -> SUBSET Challenges]]

TypeOK ==
    /\ RolesTypeOK
    /\ submitted \in [Players -> SUBSET Challenges]
    /\ score \in [Players -> Nat]
    /\ solved \in [Players -> SUBSET Challenges]
    /\ hints \in [Players -> SUBSET Challenges]
    /\ teamScore \in [Teams -> Nat]
    /\ teamSolved \in [Teams -> SUBSET Challenges]
    /\ scoreCall \in [ScoreCalls -> SolveCalls \cup SaveCalls \cup TeamCalls
                                        \cup Recalculations \cup {None}]
    /\ charged \in [Players -> SUBSET Challenges]
    /\ adjusted \in [Players -> Int]
    /\ torn \in [Players -> BOOLEAN]
    /\ teamTorn \in [Teams -> BOOLEAN]

Init ==
    /\ RolesInit
    /\ submitted = [p \in Players |-> {}]
    /\ score = [p \in Players |-> 0]
    /\ solved = [p \in Players |-> {}]
    /\ hints = [p \in Players |-> {}]
    /\ teamScore = [t \in Teams |-> 0]
    /\ teamSolved = [t \in Teams |-> {}]
    /\ scoreCall = [c \in ScoreCalls |-> None]
    /\ charged = [p \in Players |-> {}]
    /\ adjusted = [p \in Players |-> 0]
    /\ torn = [p \in Players |-> FALSE]
    /\ teamTorn = [t \in Teams |-> FALSE]

Start(c, k) ==
    /\ scoreCall[c] = None
    /\ calls < MaxCalls
    /\ calls' = calls + 1
    /\ scoreCall' = [scoreCall EXCEPT ![c] = k]
    /\ UNCHANGED accountVars

At(c, op) == scoreCall[c] # None /\ scoreCall[c].op = op

Go(c, k) == scoreCall' = [scoreCall EXCEPT ![c] = k] /\ UNCHANGED roleVars

Recalculating(c) == \E op \in {"write", "zero"} : At(c, op)

Clamped(n) == IF n < 0 THEN 0 ELSE n

-----------------------------------------------------------------------------
(* submitFlag: the submission is stored, then the user and the team are     *)
(* credited.                                                                *)

Submit(c, p, ch) ==
    /\ p \notin deleted
    /\ \A q \in Players : q = p \/ (TeamOf[q] = TeamOf[p] /\ TeamOf[p] # None)
                            => ch \notin submitted[q]
    /\ submitted' = [submitted EXCEPT ![p] = @ \cup {ch}]
    /\ Start(c, [op |-> "credit", player |-> p, challenge |-> ch])
    /\ UNCHANGED <<userVars, teamVars>>

Credit(c) ==
    /\ At(c, "credit")
    /\ LET k == scoreCall[c]
           next == IF TeamOf[k.player] = None THEN None ELSE [k EXCEPT !.op = "creditTeam"]
       IN
       /\ score' = [score EXCEPT ![k.player] = @ + Value]
       /\ solved' = [solved EXCEPT ![k.player] = @ \cup {k.challenge}]
       /\ torn' = [torn EXCEPT ![k.player] = @ \/ k.challenge \in solved[k.player]]
       /\ scoreCall' = [d \in ScoreCalls |->
                IF d = c THEN next
                ELSE IF Recalculating(d) /\ k.challenge \notin scoreCall[d].sums[k.player]
                THEN [scoreCall[d] EXCEPT !.unseen = @ \cup {k.player}]
                ELSE scoreCall[d]]
    /\ UNCHANGED <<roleVars, submitted, hints, charged, adjusted, teamVars>>

CreditTeam(c) ==
    /\ At(c, "creditTeam")
    /\ LET k == scoreCall[c]
           t == TeamOf[k.player]
       IN /\ teamScore' = [teamScore EXCEPT ![t] = @ + Value]
          /\ teamSolved' = [teamSolved EXCEPT ![t] = @ \cup {k.challenge}]
          /\ teamTorn' = [teamTorn EXCEPT ![t] = @ \/ k.challenge \in teamSolved[t]]
    /\ Go(c, None)
    /\ UNCHANGED <<submitted, userVars>>

\* The last step of _commitNodeCompletion.
AwardBonus(p) ==
    /\ calls < MaxCalls
    /\ calls' = calls + 1
    /\ score' = [score EXCEPT ![p] = @ + Bonus]
    /\ adjusted' = [adjusted EXCEPT ![p] = @ + Bonus]
    /\ UNCHANGED <<accountVars, submitted, solved, hints, charged, torn, teamVars, scoreCall>>

-----------------------------------------------------------------------------
(* purchaseHint and manualScoreAdjust                                       *)

\* Mutant of Sells.
SellsAgain(p, ch) == ch \notin solved[p] /\ score[p] >= HintCost

\* Mutant of Sells.
SellsOnCredit(p, ch) == ch \notin solved[p] /\ ch \notin hints[p]

\* Who solved the challenge or has the hint is given it for nothing.
Sells(p, ch) == ch \notin solved[p] /\ ch \notin hints[p] /\ score[p] >= HintCost

LoadForHint(c, p, ch) ==
    /\ p \notin deleted
    /\ Sells(p, ch)
    /\ Start(c, [op |-> "saveHint", player |-> p, challenge |-> ch,
                 read |-> score[p], owned |-> hints[p], write |-> score[p] - HintCost])
    /\ UNCHANGED <<submitted, userVars, teamVars>>

LoadForAdjust(c, p, delta) ==
    /\ p \notin deleted
    /\ Start(c, [op |-> "saveScore", player |-> p, challenge |-> None,
                 read |-> score[p], owned |-> hints[p], write |-> Clamped(score[p] + delta)])
    /\ UNCHANGED <<submitted, userVars, teamVars>>

\* A score that did not change is not sent.
Saved(k) ==
    /\ score' = IF k.write = k.read THEN score ELSE [score EXCEPT ![k.player] = k.write]
    /\ torn' = [torn EXCEPT ![k.player] =
            \/ @
            \/ k.write # k.read /\ k.read # score[k.player]
            \/ k.challenge \in hints[k.player] \ k.owned]

SaveHint(c) ==
    /\ At(c, "saveHint")
    /\ LET k == scoreCall[c] IN
       /\ Saved(k)
       /\ hints' = [hints EXCEPT ![k.player] = @ \cup {k.challenge}]
       /\ charged' = [charged EXCEPT ![k.player] = @ \cup {k.challenge}]
    /\ Go(c, None)
    /\ UNCHANGED <<submitted, solved, adjusted, teamVars>>

SaveScore(c) ==
    /\ At(c, "saveScore")
    /\ LET k == scoreCall[c]
           t == TeamOf[k.player]
       IN /\ Saved(k)
          /\ adjusted' = [adjusted EXCEPT ![k.player] = @ + k.write - k.read]
          /\ Go(c, IF t = None THEN None ELSE [op |-> "readTeam", team |-> t])
    /\ UNCHANGED <<submitted, solved, hints, charged, teamVars>>

\* "score ?? 0 + delta" is the score of the team, without the delta.
ReadTeam(c) ==
    /\ At(c, "readTeam")
    /\ LET t == scoreCall[c].team IN
       Go(c, [op |-> "setTeam", team |-> t, write |-> Clamped(teamScore[t])])
    /\ UNCHANGED <<submitted, userVars, teamVars>>

SetTeam(c) ==
    /\ At(c, "setTeam")
    /\ LET k == scoreCall[c] IN
       /\ teamScore' = [teamScore EXCEPT ![k.team] = k.write]
       /\ teamTorn' = [teamTorn EXCEPT ![k.team] = @ \/ k.write # teamScore[k.team]]
    /\ Go(c, None)
    /\ UNCHANGED <<submitted, userVars, teamSolved>>

-----------------------------------------------------------------------------
(* recalculateAllScores                                                     *)

Aggregate(c, by) ==
    /\ by \in Superadmins
    /\ Start(c, [op |-> "write", sums |-> submitted, unseen |-> {}])
    /\ UNCHANGED <<submitted, userVars, teamVars>>

\* The users of the set get the aggregated sum and solves.
Recalculated(users, sums, unseen) ==
    /\ score' = [p \in Players |-> IF p \in users THEN Value * Cardinality(sums[p]) ELSE score[p]]
    /\ solved' = [p \in Players |-> IF p \in users THEN sums[p] ELSE solved[p]]
    /\ charged' = [p \in Players |-> IF p \in users THEN {} ELSE charged[p]]
    /\ adjusted' = [p \in Players |-> IF p \in users THEN 0 ELSE adjusted[p]]
    /\ torn' = [p \in Players |-> IF p \in users THEN p \in unseen ELSE torn[p]]

WriteScores(c) ==
    /\ At(c, "write")
    /\ LET k == scoreCall[c] IN
       /\ Recalculated({p \in Players : k.sums[p] # {}}, k.sums, k.unseen)
       /\ Go(c, [k EXCEPT !.op = "zero"])
    /\ UNCHANGED <<submitted, hints, teamVars>>

\* Mutant of Unlisted.
UnlistedAll(sums) == Players

\* The users that the aggregation does not list.
Unlisted(sums) == {p \in Players : sums[p] = {}}

ZeroScores(c) ==
    /\ At(c, "zero")
    /\ LET k == scoreCall[c] IN
       Recalculated(Unlisted(k.sums) \ deleted, [p \in Players |-> {}], k.unseen)
    /\ Go(c, [op |-> "aggregateTeams"])
    /\ UNCHANGED <<submitted, hints, teamVars>>

AggregateTeams(c) ==
    /\ At(c, "aggregateTeams")
    /\ Go(c, [op |-> "writeTeams",
              sums |-> [t \in Teams |-> UNION {submitted[p] : p \in {q \in Players : TeamOf[q] = t}}]])
    /\ UNCHANGED <<submitted, userVars, teamVars>>

\* Mutant of TeamsRecalculated.
TeamSumsOnly(teams, sums) ==
    /\ teamScore' = [t \in Teams |-> IF t \in teams THEN Value * Cardinality(sums[t]) ELSE teamScore[t]]
    /\ UNCHANGED <<teamSolved, teamTorn>>

TeamsRecalculated(teams, sums) ==
    /\ teamScore' = [t \in Teams |-> IF t \in teams THEN Value * Cardinality(sums[t]) ELSE teamScore[t]]
    /\ teamSolved' = [t \in Teams |-> IF t \in teams THEN sums[t] ELSE teamSolved[t]]
    /\ teamTorn' = [t \in Teams |-> IF t \in teams THEN ~ (teamSolved[t] \subseteq sums[t])
                                    ELSE teamTorn[t]]

WriteTeams(c) ==
    /\ At(c, "writeTeams")
    /\ LET sums == scoreCall[c].sums IN
       /\ TeamsRecalculated({t \in Teams : sums[t] # {}}, sums)
       /\ Go(c, [op |-> "zeroTeams", sums |-> sums])
    /\ UNCHANGED <<submitted, userVars>>

ZeroTeams(c) ==
    /\ At(c, "zeroTeams")
    /\ LET sums == scoreCall[c].sums IN
       TeamsRecalculated({t \in Teams : sums[t] = {}}, sums)
    /\ Go(c, None)
    /\ UNCHANGED <<submitted, userVars>>

ScoresNext ==
    \/ \E p \in Players : AwardBonus(p)
    \/ \E c \in ScoreCalls :
        \/ \E p \in Players, ch \in Challenges : Submit(c, p, ch) \/ LoadForHint(c, p, ch)
        \/ \E p \in Players, delta \in Deltas : LoadForAdjust(c, p, delta)
        \/ \E by \in Accounts : Aggregate(c, by)
        \/ Credit(c) \/ CreditTeam(c)
        \/ SaveHint(c) \/ SaveScore(c) \/ ReadTeam(c) \/ SetTeam(c)
        \/ WriteScores(c) \/ ZeroScores(c)
        \/ AggregateTeams(c) \/ WriteTeams(c) \/ ZeroTeams(c)

Next ==
    \/ ScoresNext
    \/ RolesNext /\ UNCHANGED <<submitted, userVars, teamVars, scoreCall>>

Spec == Init /\ [][Next]_vars

-----------------------------------------------------------------------------
(* Properties                                                               *)

\* A score is the solves it was credited with, less each hint once, plus what was
\* adjusted or awarded, all since the last recalculation; until a stored sum
\* overwrites a change it was computed without, a solve is credited that a
\* recalculation had counted, or two purchases of one hint overlap.  The next
\* recalculation repairs it.
ScoreIsLedger ==
    \A p \in Players : ~ torn[p] =>
        score[p] = Value * Cardinality(solved[p]) - HintCost * Cardinality(charged[p])
                        + adjusted[p]

\* The score of a team is the solves it was credited with, under the same
\* condition: neither hints nor adjustments of its players reach it.
TeamScoreIsLedger ==
    \A t \in Teams : ~ teamTorn[t] => teamScore[t] = Value * Cardinality(teamSolved[t])

\* Once no solve of a player is being credited, the player's solved challenges are
\* the correct submissions, unless a recalculation overwrote a solve that had been
\* credited since it aggregated.
SolvesOnRecord ==
    \A p \in Players : ~ torn[p] =>
        \/ solved[p] = submitted[p]
        \/ \E c \in ScoreCalls : At(c, "credit") /\ scoreCall[c].player = p

\* The scores and solves of players and teams are what the calls made of them.
ScoresConsistent ==
    /\ TypeOK
    /\ ScoreIsLedger
    /\ TeamScoreIsLedger
    /\ SolvesOnRecord
=============================================================================
