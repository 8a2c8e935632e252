--------------------------- MODULE AccountsProofs ----------------------------
(***************************************************************************)
(* What Scores, Roles and Identities keep true, for any number of          *)
(* accounts, players, teams, challenges and calls.                         *)
(***************************************************************************)
EXTENDS Scores, Identities, FiniteSetTheorems, SequenceTheorems, TLAPS

-----------------------------------------------------------------------------
(* Scores and roles.  A call relies on what it loaded (CallKnows): the hint  *)
(* it is buying was not owned, and the sums of a recalculation leave out no  *)
(* solve but those that were credited since (unseen) or are still to be      *)
(* credited.                                                                 *)

\* A solve that is stored and not credited yet.
Coming(p, ch) ==
    \E c \in ScoreCalls :
        At(c, "credit") /\ scoreCall[c].player = p /\ scoreCall[c].challenge = ch

CallKnows(c) ==
    LET k == scoreCall[c] IN
    /\ At(c, "credit") => k.challenge \in submitted[k.player]
    /\ At(c, "saveHint") => k.challenge \notin k.owned /\ k.write = k.read - HintCost
    /\ Recalculating(c) =>
        \A p \in Players :
            /\ k.sums[p] \subseteq submitted[p]
            /\ p \notin k.unseen => \A ch \in submitted[p] \ k.sums[p] : Coming(p, ch)

CallsKnow == \A c \in ScoreCalls : CallKnows(c)

Recorded ==
    \A p \in Players :
        /\ solved[p] \subseteq submitted[p]
        /\ charged[p] \subseteq hints[p]
        /\ ~ torn[p] => \A ch \in submitted[p] \ solved[p] : Coming(p, ch)

-----------------------------------------------------------------------------
(* Types                                                                    *)

\* What kind of call stands at a step.
LEMMA CallTypes ==
    ASSUME TypeOK, NEW c \in ScoreCalls
    PROVE  /\ At(c, "credit") \/ At(c, "creditTeam") => scoreCall[c] \in SolveCalls
           /\ At(c, "saveHint") \/ At(c, "saveScore") => scoreCall[c] \in SaveCalls
           /\ At(c, "saveHint") => scoreCall[c].challenge \in Challenges
           /\ At(c, "readTeam") => scoreCall[c].team \in Teams
           /\ At(c, "setTeam") => scoreCall[c].team \in Teams /\ scoreCall[c].write \in Nat
           /\ Recalculating(c) =>
                /\ scoreCall[c].sums \in [Players -> SUBSET Challenges]
                /\ scoreCall[c].unseen \subseteq Players
                /\ scoreCall[c] \in [op : {"write", "zero"},
                        sums : [Players -> SUBSET Challenges], unseen : SUBSET Players]
           /\ At(c, "writeTeams") \/ At(c, "zeroTeams") =>
                scoreCall[c] \in [op : {"writeTeams", "zeroTeams"},
                                  sums : [Teams -> SUBSET Challenges]]
    BY DEF TypeOK, At, Recalculating, SolveCalls, SaveCalls, TeamCalls, Recalculations

\* The counter of calls and the accounts, as the score calls leave them.
LEMMA RolesFramed ==
    ASSUME RolesTypeOK,
           \/ UNCHANGED roleVars
           \/ calls < MaxCalls /\ calls' = calls + 1 /\ UNCHANGED accountVars
    PROVE  RolesTypeOK'
    BY RolesAssumption DEF RolesTypeOK, roleVars, accountVars

\* The call that has loaded its target, or ended, is still the call that was made.
LEMMA LoadTargetMoves ==
    ASSUME RolesTypeOK, NEW c \in RoleCalls, LoadTarget(c)
    PROVE  /\ roleCall' \in [RoleCalls -> RoleCallStates \cup {None}]
           /\ \A d \in RoleCalls : d # c => roleCall'[d] = roleCall[d]
           /\ roleCall'[c] # None => /\ roleCall[c] # None
                                    /\ roleCall'[c].by = roleCall[c].by
                                    /\ roleCall'[c].target = roleCall[c].target
    <1>1. PICK k \in RoleCallStates : k = roleCall[c] /\ k # None
        BY DEF RolesTypeOK, LoadTarget
    <1>2. PICK old \in Granted \cup {"none"} : old = role[k.target]
        BY <1>1 DEF RolesTypeOK, RoleCallStates
    <1>3. \E step \in {"counting", "saving"} :
            \/ roleCall' = [roleCall EXCEPT ![c] = None]
            \/ roleCall' = [roleCall EXCEPT ![c] = [k EXCEPT !.step = step, !.was = old]]
        BY <1>1, <1>2 DEF LoadTarget
    <1>4. PICK step \in {"counting", "saving"} :
            \/ roleCall' = [roleCall EXCEPT ![c] = None]
            \/ roleCall' = [roleCall EXCEPT ![c] = [k EXCEPT !.step = step, !.was = old]]
        BY <1>3
    <1>5. /\ [k EXCEPT !.step = step, !.was = old] \in RoleCallStates
          /\ [k EXCEPT !.step = step, !.was = old].by = k.by
          /\ [k EXCEPT !.step = step, !.was = old].target = k.target
        BY DEF RoleCallStates
    <1> QED BY <1>1, <1>4, <1>5 DEF RolesTypeOK

LEMMA RolesTyped ==
    ASSUME RolesTypeOK, RolesNext
    PROVE  RolesTypeOK'
    <1> USE RolesAssumption DEF RolesTypeOK, Granted
    <1>1. ASSUME NEW c \in RoleCalls, NEW by \in Accounts, NEW target \in Accounts,
                 NEW to \in Granted \cup {"none"}, NEW revoking \in BOOLEAN,
                 Request(c, by, target, to, revoking)
          PROVE  RolesTypeOK'
        BY <1>1 DEF Request, RoleCallStates
    <1>2. ASSUME NEW c \in RoleCalls, LoadTarget(c)
          PROVE  RolesTypeOK'
        <2>1. roleCall' \in [RoleCalls -> RoleCallStates \cup {None}]
            BY <1>2, LoadTargetMoves
        <2> QED BY <1>2, <2>1 DEF LoadTarget
    <1>3. ASSUME NEW c \in RoleCalls, CountSuperadmins(c)
          PROVE  RolesTypeOK'
        BY <1>3 DEF CountSuperadmins, RoleCallStates
    <1>4. ASSUME NEW c \in RoleCalls, SaveTarget(c)
          PROVE  RolesTypeOK'
        BY <1>4 DEF SaveTarget, RoleCallStates, Superadmins
    <1>5. ASSUME NEW by \in Accounts, NEW a \in Accounts, NEW r \in Granted,
                 CreateAdmin(by, a, r)
          PROVE  RolesTypeOK'
        BY <1>5 DEF CreateAdmin
    <1> QED BY <1>1, <1>2, <1>3, <1>4, <1>5 DEF RolesNext

-----------------------------------------------------------------------------
(* Roles                                                                    *)

\* Nobody targets themselves.
OthersOnly ==
    \A c \in RoleCalls : roleCall[c] # None => roleCall[c].by # roleCall[c].target

RolesInv == RolesTypeOK /\ OthersOnly /\ SuperadminsGoneOnlyLate

LEMMA RolesStep ==
    ASSUME RolesInv, RolesNext
    PROVE  RolesInv'
    <1> USE RolesAssumption DEF RolesInv, Granted
    <1>0. RolesTypeOK'
        BY RolesTyped
    <1>1. ASSUME NEW c \in RoleCalls, NEW by \in Accounts, NEW target \in Accounts,
                 NEW to \in Granted \cup {"none"}, NEW revoking \in BOOLEAN,
                 Request(c, by, target, to, revoking)
          PROVE  (OthersOnly /\ SuperadminsGoneOnlyLate)'
        BY <1>1 DEF Request, MayTarget, OthersOnly, SuperadminsGoneOnlyLate, Superadmins,
                    RolesTypeOK
    <1>2. ASSUME NEW c \in RoleCalls, LoadTarget(c) \/ CountSuperadmins(c)
          PROVE  (OthersOnly /\ SuperadminsGoneOnlyLate)'
        <2>1. OthersOnly'
            <3>1. CASE LoadTarget(c)
                BY <3>1, LoadTargetMoves DEF OthersOnly
            <3>2. CASE CountSuperadmins(c)
                BY <3>2 DEF CountSuperadmins, OthersOnly, RolesTypeOK, RoleCallStates
            <3> QED BY <1>2, <3>1, <3>2
        <2>2. SuperadminsGoneOnlyLate'
            BY <1>2 DEF LoadTarget, CountSuperadmins, SuperadminsGoneOnlyLate, Superadmins
        <2> QED BY <2>1, <2>2
    <1>3. ASSUME NEW c \in RoleCalls, SaveTarget(c)
          PROVE  (OthersOnly /\ SuperadminsGoneOnlyLate)'
        <2>1. OthersOnly'
            BY <1>3 DEF SaveTarget, OthersOnly, RolesTypeOK
        <2>2. CASE roleCall[c].by \in Superadmins
            <3>1. roleCall[c].by # roleCall[c].target
                BY <1>3 DEF SaveTarget, OthersOnly
            <3>2. roleCall[c].by \in Superadmins'
                BY <1>3, <2>2, <3>1 DEF SaveTarget, Superadmins, RolesTypeOK
            <3> QED BY <2>1, <3>2 DEF SuperadminsGoneOnlyLate
        <2>3. CASE roleCall[c].by \notin Superadmins
            BY <1>3, <2>1, <2>3 DEF SaveTarget, SuperadminsGoneOnlyLate
        <2> QED BY <2>2, <2>3
    <1>4. ASSUME NEW by \in Accounts, NEW a \in Accounts, NEW r \in Granted,
                 CreateAdmin(by, a, r)
          PROVE  (OthersOnly /\ SuperadminsGoneOnlyLate)'
        <2>1. by \in Superadmins'
            BY <1>4 DEF CreateAdmin, Superadmins, RolesTypeOK
        <2> QED BY <1>4, <2>1 DEF CreateAdmin, OthersOnly, SuperadminsGoneOnlyLate
    <1> QED BY <1>0, <1>1, <1>2, <1>3, <1>4 DEF RolesNext

-----------------------------------------------------------------------------
(* Scores                                                                   *)

ScoresInv ==
    /\ TypeOK
    /\ CallsKnow
    /\ Recorded
    /\ ScoreIsLedger
    /\ TeamScoreIsLedger

\* Counting the elements of a set of challenges.
LEMMA Counts ==
    /\ Cardinality({}) = 0
    /\ \A S \in SUBSET Challenges :
        /\ Cardinality(S) \in Nat
        /\ \A ch \in Challenges \ S : Cardinality(S \cup {ch}) = Cardinality(S) + 1
        /\ \A ch \in S : S \cup {ch} = S
    <1> SUFFICES ASSUME NEW S \in SUBSET Challenges
                 PROVE  /\ Cardinality(S) \in Nat
                        /\ \A ch \in Challenges \ S : Cardinality(S \cup {ch}) = Cardinality(S) + 1
        BY FS_EmptySet
    <1>1. IsFiniteSet(S)
        BY FS_Subset, ScoresAssumption
    <1> QED BY <1>1, FS_CardinalityType, FS_AddElement

\* A step that leaves the submissions, the scores and the calls that stand as they
\* are, or begins a call that knows what it says.
Others(c) == \A d \in ScoreCalls : d # c => scoreCall'[d] = scoreCall[d]

\* A call that is not a credit comes or goes: what is still to be credited stays.
LEMMA ComingKept ==
    ASSUME TypeOK, NEW c \in ScoreCalls, Others(c), ~ At(c, "credit"),
           NEW p, NEW ch, Coming(p, ch)
    PROVE  Coming(p, ch)'
    BY DEF Others, Coming, At

\* The calls know what they knew, but for one that comes, goes or proceeds.
LEMMA CallsKept ==
    ASSUME TypeOK, CallsKnow, NEW c \in ScoreCalls, Others(c), ~ At(c, "credit"),
           submitted' = submitted, CallKnows(c)'
    PROVE  CallsKnow'
    <1> SUFFICES ASSUME NEW d \in ScoreCalls, d # c PROVE CallKnows(d)'
        BY DEF CallsKnow
    <1>1. scoreCall'[d] = scoreCall[d]
        BY DEF Others
    <1>2. CallKnows(d)
        BY DEF CallsKnow
    <1> QED BY <1>1, <1>2, ComingKept DEF CallKnows, At, Recalculating

\* The solves that are on record stay so, when nothing is submitted or credited.
LEMMA RecordedKept ==
    ASSUME TypeOK, Recorded, NEW c \in ScoreCalls, Others(c), ~ At(c, "credit"),
           submitted' = submitted, solved' = solved,
           \A p \in Players : charged'[p] \subseteq hints'[p] /\ (torn[p] => torn'[p])
    PROVE  Recorded'
    BY ComingKept DEF Recorded

LEMMA SubmitKeeps ==
    ASSUME ScoresInv, NEW c \in ScoreCalls, NEW p \in Players, NEW ch \in Challenges,
           Submit(c, p, ch)
    PROVE  ScoresInv'
    <1> DEFINE k == [op |-> "credit", player |-> p, challenge |-> ch]
    <1> USE DEF ScoresInv
    <1>1. /\ scoreCall' = [scoreCall EXCEPT ![c] = k] /\ scoreCall[c] = None
          /\ submitted' = [submitted EXCEPT ![p] = @ \cup {ch}]
          /\ UNCHANGED <<userVars, teamVars>>
          /\ calls < MaxCalls /\ calls' = calls + 1 /\ UNCHANGED accountVars
        BY DEF Submit, Start
    <1>2. scoreCall'[c] = k /\ Others(c)
        BY <1>1 DEF TypeOK, Others
    <1>3. k \in SolveCalls /\ k # None
        BY NoneIsNoCall DEF SolveCalls
    <1>4. TypeOK'
        <2>1. RolesTypeOK'
            BY <1>1, RolesFramed DEF TypeOK
        <2> QED BY <1>1, <1>3, <2>1 DEF TypeOK, userVars, teamVars
    <1>5. \A q \in Players : \A h \in submitted'[q] \ submitted[q] : Coming(q, h)'
        <2>1. \A q \in Players : \A h \in submitted'[q] \ submitted[q] : q = p /\ h = ch
            BY <1>1 DEF TypeOK
        <2>2. Coming(p, ch)'
            BY <1>2, <1>3 DEF Coming, At
        <2> QED BY <2>1, <2>2
    <1>6. \A q, h : Coming(q, h) => Coming(q, h)'
        BY <1>1, <1>2, ComingKept DEF At
    <1>7. \A q \in Players : submitted[q] \subseteq submitted'[q]
        BY <1>1 DEF TypeOK
    <1>8. CallsKnow'
        <2>1. CallKnows(c)'
            BY <1>1, <1>2 DEF CallKnows, At, Recalculating, TypeOK
        <2> SUFFICES ASSUME NEW d \in ScoreCalls, d # c PROVE CallKnows(d)'
            BY <2>1 DEF CallsKnow
        <2>2. scoreCall'[d] = scoreCall[d]
            BY <1>2 DEF Others
        <2>3. CallKnows(d)
            BY DEF CallsKnow
        <2>4. At(d, "credit") => scoreCall[d].player \in Players
            BY CallTypes DEF SolveCalls
        <2> QED BY <1>5, <1>6, <1>7, <2>2, <2>3, <2>4 DEF CallKnows, At, Recalculating
    <1>9. Recorded'
        BY <1>1, <1>5, <1>6, <1>7 DEF Recorded, userVars
    <1>10. ScoreIsLedger' /\ TeamScoreIsLedger'
        BY <1>1 DEF ScoreIsLedger, TeamScoreIsLedger, userVars, teamVars
    <1> QED BY <1>4, <1>8, <1>9, <1>10

LEMMA CreditKeeps ==
    ASSUME ScoresInv, NEW c \in ScoreCalls, Credit(c)
    PROVE  ScoresInv'
    <1> DEFINE p == scoreCall[c].player
               h == scoreCall[c].challenge
               next == IF TeamOf[p] = None THEN None ELSE [scoreCall[c] EXCEPT !.op = "creditTeam"]
    <1> USE DEF ScoresInv
    <1>1. /\ At(c, "credit") /\ scoreCall[c] \in SolveCalls
          /\ p \in Players /\ h \in Challenges
        BY CallTypes DEF Credit, SolveCalls
    <1>2. /\ score' = [score EXCEPT ![p] = @ + Value]
          /\ solved' = [solved EXCEPT ![p] = @ \cup {h}]
          /\ torn' = [torn EXCEPT ![p] = @ \/ h \in solved[p]]
          /\ scoreCall' = [d \in ScoreCalls |->
                IF d = c THEN next
                ELSE IF Recalculating(d) /\ h \notin scoreCall[d].sums[p]
                THEN [scoreCall[d] EXCEPT !.unseen = @ \cup {p}]
                ELSE scoreCall[d]]
          /\ UNCHANGED <<roleVars, submitted, hints, charged, adjusted, teamVars>>
        BY DEF Credit
    <1> HIDE DEF p, h
    <1>3. next \in SolveCalls \cup {None} /\ (next # None => next.op = "creditTeam")
        BY <1>1 DEF SolveCalls
    <1> HIDE DEF next
    <1>4. \A d \in ScoreCalls \ {c} :
            Recalculating(d) => [scoreCall[d] EXCEPT !.unseen = @ \cup {p}] \in Recalculations
        BY <1>1, CallTypes DEF Recalculations
    <1>5. TypeOK'
        <2>1. RolesTypeOK'
            BY <1>2, RolesFramed DEF TypeOK
        <2>2. scoreCall' \in [ScoreCalls -> SolveCalls \cup SaveCalls \cup TeamCalls
                                        \cup Recalculations \cup {None}]
            BY <1>2, <1>3, <1>4 DEF TypeOK
        <2>3. score' \in [Players -> Nat] /\ torn' \in [Players -> BOOLEAN]
            BY <1>1, <1>2, ScoresAssumption DEF TypeOK
        <2> QED BY <1>1, <1>2, <2>1, <2>2, <2>3 DEF TypeOK, teamVars
    <1>6. \A d \in ScoreCalls \ {c} : ~ Recalculating(d) => scoreCall'[d] = scoreCall[d]
        BY <1>2
    <1>7. \A q, ch : Coming(q, ch) /\ (q # p \/ ch # h) => Coming(q, ch)'
        BY <1>6 DEF Coming, At, Recalculating, p, h
    <1>8. CallsKnow'
        <2>1. CallKnows(c)'
            BY <1>2, <1>3 DEF CallKnows, At, Recalculating
        <2> SUFFICES ASSUME NEW d \in ScoreCalls, d # c PROVE CallKnows(d)'
            BY <2>1 DEF CallsKnow
        <2>2. CallKnows(d)
            BY DEF CallsKnow
        <2>3. CASE ~ Recalculating(d)
            BY <1>2, <1>6, <2>2, <2>3 DEF CallKnows, At, Recalculating
        <2>4. CASE Recalculating(d)
            <3>1. /\ scoreCall'[d].sums = scoreCall[d].sums
                  /\ scoreCall'[d].op = scoreCall[d].op
                  /\ scoreCall[d].unseen \subseteq scoreCall'[d].unseen
                  /\ h \notin scoreCall[d].sums[p] => p \in scoreCall'[d].unseen
                BY <1>2, <2>4, CallTypes
            <3>2. ~ At(d, "credit")' /\ ~ At(d, "saveHint")'
                BY <2>4, <3>1 DEF At, Recalculating
            <3>3. ASSUME NEW q \in Players
                  PROVE  /\ scoreCall'[d].sums[q] \subseteq submitted'[q]
                         /\ q \notin scoreCall'[d].unseen =>
                                \A ch \in submitted'[q] \ scoreCall'[d].sums[q] : Coming(q, ch)'
                BY <1>2, <1>7, <2>2, <2>4, <3>1 DEF CallKnows
            <3> QED BY <3>2, <3>3 DEF CallKnows
        <2> QED BY <2>3, <2>4
    <1>9. Recorded'
        <2>1. h \in submitted[p]
            BY <1>1 DEF CallsKnow, CallKnows, p, h
        <2> SUFFICES ASSUME NEW q \in Players
                     PROVE  /\ solved'[q] \subseteq submitted'[q]
                            /\ charged'[q] \subseteq hints'[q]
                            /\ ~ torn'[q] => \A ch \in submitted'[q] \ solved'[q] : Coming(q, ch)'
            BY DEF Recorded
        <2>2. solved'[q] = IF q = p THEN solved[q] \cup {h} ELSE solved[q]
            BY <1>2 DEF TypeOK
        <2>3. ~ torn'[q] => ~ torn[q]
            BY <1>2 DEF TypeOK
        <2> QED BY <1>2, <1>7, <2>1, <2>2, <2>3 DEF Recorded
    <1>10. ScoreIsLedger'
        <2> SUFFICES ASSUME NEW q \in Players, ~ torn'[q]
                     PROVE  score'[q] = Value * Cardinality(solved'[q])
                                - HintCost * Cardinality(charged'[q]) + adjusted'[q]
            BY DEF ScoreIsLedger
        <2>1. CASE q # p
            BY <1>2, <2>1 DEF ScoreIsLedger, TypeOK
        <2>2. CASE q = p
            <3>1. ~ torn[p] /\ h \notin solved[p]
                BY <1>2, <2>2 DEF TypeOK
            <3>2. solved[p] \in SUBSET Challenges /\ charged[p] \in SUBSET Challenges
                BY <1>1 DEF TypeOK
            <3>3. /\ solved'[p] = solved[p] \cup {h} /\ score'[p] = score[p] + Value
                  /\ score[p] \in Nat /\ adjusted[p] \in Int
                BY <1>1, <1>2 DEF TypeOK
            <3>4. Cardinality(solved'[p]) = Cardinality(solved[p]) + 1
                BY <1>1, <3>1, <3>2, <3>3, Counts
            <3>5. Cardinality(solved[p]) \in Nat /\ Cardinality(charged[p]) \in Nat
                BY <3>2, Counts
            <3>6. score[p] = Value * Cardinality(solved[p])
                                - HintCost * Cardinality(charged[p]) + adjusted[p]
                BY <1>1, <3>1 DEF ScoreIsLedger
            <3> QED BY <1>2, <2>2, <3>3, <3>4, <3>5, <3>6, ScoresAssumption
        <2> QED BY <2>1, <2>2
    <1>11. TeamScoreIsLedger'
        BY <1>2 DEF TeamScoreIsLedger, teamVars
    <1> QED BY <1>5, <1>8, <1>9, <1>10, <1>11

LEMMA CreditTeamKeeps ==
    ASSUME ScoresInv, NEW c \in ScoreCalls, CreditTeam(c)
    PROVE  ScoresInv'
    <1> DEFINE t == TeamOf[scoreCall[c].player]
               h == scoreCall[c].challenge
    <1> USE DEF ScoresInv
    <1>1. /\ teamScore' = [teamScore EXCEPT ![t] = @ + Value]
          /\ teamSolved' = [teamSolved EXCEPT ![t] = @ \cup {h}]
          /\ teamTorn' = [teamTorn EXCEPT ![t] = @ \/ h \in teamSolved[t]]
          /\ scoreCall' = [scoreCall EXCEPT ![c] = None]
          /\ UNCHANGED <<roleVars, submitted, userVars>>
        BY DEF CreditTeam, Go
    <1>2. ~ At(c, "credit") /\ h \in Challenges
        BY CallTypes DEF CreditTeam, At, SolveCalls
    <1> HIDE DEF t, h
    <1>3. TypeOK'
        <2>1. RolesTypeOK'
            BY <1>1, RolesFramed DEF TypeOK
        <2>2. teamScore' \in [Teams -> Nat]
            <3>1. Value \in Nat /\ teamScore \in [Teams -> Nat]
                BY ScoresAssumption DEF TypeOK
            <3>2. \A u \in Teams : teamScore'[u] =
                    IF u = t THEN teamScore[u] + Value ELSE teamScore[u]
                BY <1>1, <3>1
            <3>3. \A u \in Teams : teamScore'[u] \in Nat
                BY <3>1, <3>2
            <3> QED BY <1>1, <3>1, <3>3
        <2>3. teamTorn' \in [Teams -> BOOLEAN]
            BY <1>1 DEF TypeOK
        <2> QED BY <1>1, <1>2, <2>1, <2>2, <2>3 DEF TypeOK, userVars
    <1>4. Others(c) /\ scoreCall'[c] = None
        BY <1>1 DEF TypeOK, Others
    <1>5. CallsKnow'
        <2>1. CallKnows(c)'
            BY <1>4 DEF CallKnows, At, Recalculating
        <2> QED BY <1>1, <1>2, <1>4, <2>1, CallsKept
    <1>6. Recorded'
        BY <1>1, <1>2, <1>4, RecordedKept DEF userVars, Recorded
    <1>7. TeamScoreIsLedger'
        <2> SUFFICES ASSUME NEW u \in Teams, ~ teamTorn'[u]
                     PROVE  teamScore'[u] = Value * Cardinality(teamSolved'[u])
            BY DEF TeamScoreIsLedger
        <2>1. CASE u # t
            BY <1>1, <2>1 DEF TeamScoreIsLedger, TypeOK
        <2>2. CASE u = t
            <3>1. ~ teamTorn[u] /\ h \notin teamSolved[u]
                BY <1>1, <2>2 DEF TypeOK
            <3>2. /\ teamSolved[u] \in SUBSET Challenges
                  /\ teamSolved'[u] = teamSolved[u] \cup {h}
                  /\ teamScore'[u] = teamScore[u] + Value
                BY <1>1, <2>2 DEF TypeOK
            <3>3. /\ Cardinality(teamSolved'[u]) = Cardinality(teamSolved[u]) + 1
                  /\ Cardinality(teamSolved[u]) \in Nat
                BY <1>2, <3>1, <3>2, Counts
            <3>4. teamScore[u] = Value * Cardinality(teamSolved[u])
                BY <3>1 DEF TeamScoreIsLedger
            <3> QED BY <3>2, <3>3, <3>4, ScoresAssumption
        <2> QED BY <2>1, <2>2
    <1>8. ScoreIsLedger'
        BY <1>1 DEF ScoreIsLedger, userVars
    <1> QED BY <1>3, <1>5, <1>6, <1>7, <1>8

LEMMA AwardBonusKeeps ==
    ASSUME ScoresInv, NEW p \in Players, AwardBonus(p)
    PROVE  ScoresInv'
    <1> USE DEF ScoresInv
    <1>1. /\ calls < MaxCalls /\ calls' = calls + 1
          /\ score' = [score EXCEPT ![p] = @ + Bonus]
          /\ adjusted' = [adjusted EXCEPT ![p] = @ + Bonus]
          /\ UNCHANGED <<accountVars, submitted, solved, hints, charged, torn, teamVars, scoreCall>>
        BY DEF AwardBonus
    <1>2. TypeOK'
        <2>1. RolesTypeOK'
            BY <1>1, RolesFramed DEF TypeOK
        <2>2. score' \in [Players -> Nat] /\ adjusted' \in [Players -> Int]
            BY <1>1, ScoresAssumption DEF TypeOK
        <2> QED BY <1>1, <2>1, <2>2 DEF TypeOK, teamVars
    <1>3. CallsKnow' /\ Recorded'
        BY <1>1 DEF CallsKnow, CallKnows, Coming, At, Recalculating, Recorded
    <1>4. ScoreIsLedger'
        <2> SUFFICES ASSUME NEW q \in Players, ~ torn[q]
                     PROVE  score'[q] = Value * Cardinality(solved[q])
                                - HintCost * Cardinality(charged[q]) + adjusted'[q]
            BY <1>1 DEF ScoreIsLedger
        <2>1. /\ score[q] \in Nat /\ adjusted[q] \in Int
              /\ solved[q] \in SUBSET Challenges /\ charged[q] \in SUBSET Challenges
            BY DEF TypeOK
        <2>2. Cardinality(solved[q]) \in Nat /\ Cardinality(charged[q]) \in Nat
            BY <2>1, Counts
        <2>3. score[q] = Value * Cardinality(solved[q])
                            - HintCost * Cardinality(charged[q]) + adjusted[q]
            BY DEF ScoreIsLedger
        <2>4. \/ score'[q] = score[q] /\ adjusted'[q] = adjusted[q]
              \/ score'[q] = score[q] + Bonus /\ adjusted'[q] = adjusted[q] + Bonus
            BY <1>1 DEF TypeOK
        <2> QED BY <2>1, <2>2, <2>3, <2>4, ScoresAssumption
    <1>5. TeamScoreIsLedger'
        BY <1>1 DEF TeamScoreIsLedger, teamVars
    <1> QED BY <1>2, <1>3, <1>4, <1>5

\* A call that is not a credit and touches no score begins, goes on or ends.
LEMMA CallMoves ==
    ASSUME ScoresInv, NEW c \in ScoreCalls, NEW k, ~ At(c, "credit"),
           scoreCall' = [scoreCall EXCEPT ![c] = k],
           k \in SolveCalls \cup SaveCalls \cup TeamCalls \cup Recalculations \cup {None},
           RolesTypeOK', CallKnows(c)',
           UNCHANGED <<submitted, userVars, teamVars>>
    PROVE  ScoresInv'
    <1> USE DEF ScoresInv
    <1>1. TypeOK'
        BY DEF TypeOK, userVars, teamVars
    <1>2. Others(c)
        BY DEF TypeOK, Others
    <1>3. CallsKnow'
        BY <1>2, CallsKept
    <1>4. Recorded'
        BY <1>2, RecordedKept DEF userVars, Recorded
    <1>5. ScoreIsLedger' /\ TeamScoreIsLedger'
        BY DEF ScoreIsLedger, TeamScoreIsLedger, userVars, teamVars
    <1> QED BY <1>1, <1>3, <1>4, <1>5

LEMMA LoadForHintKeeps ==
    ASSUME ScoresInv, NEW c \in ScoreCalls, NEW p \in Players, NEW ch \in Challenges,
           LoadForHint(c, p, ch)
    PROVE  ScoresInv'
    <1> DEFINE k == [op |-> "saveHint", player |-> p, challenge |-> ch,
                     read |-> score[p], owned |-> hints[p], write |-> score[p] - HintCost]
    <1>1. /\ scoreCall' = [scoreCall EXCEPT ![c] = k] /\ scoreCall[c] = None
          /\ UNCHANGED <<submitted, userVars, teamVars>>
          /\ calls < MaxCalls /\ calls' = calls + 1 /\ UNCHANGED accountVars
          /\ ch \notin hints[p] /\ score[p] >= HintCost
        BY DEF LoadForHint, Start, Sells
    <1>2. /\ score[p] \in Nat /\ hints[p] \in SUBSET Challenges /\ HintCost \in Nat
          /\ RolesTypeOK /\ scoreCall \in [ScoreCalls -> SolveCalls \cup SaveCalls
                                \cup TeamCalls \cup Recalculations \cup {None}]
        BY ScoresAssumption DEF ScoresInv, TypeOK
    <1>3. k.write \in Nat
        BY <1>1, <1>2
    <1>4. k \in SaveCalls
        BY <1>2, <1>3 DEF SaveCalls
    <1>5. scoreCall'[c] = k
        BY <1>1, <1>2
    <1>6. CallKnows(c)'
        BY <1>1, <1>5 DEF CallKnows, At, Recalculating
    <1>7. RolesTypeOK'
        BY <1>1, <1>2, RolesFramed
    <1> HIDE DEF k
    <1>8. ~ At(c, "credit")
        BY <1>1 DEF At
    <1> QED BY <1>1, <1>4, <1>6, <1>7, <1>8, CallMoves

LEMMA LoadForAdjustKeeps ==
    ASSUME ScoresInv, NEW c \in ScoreCalls, NEW p \in Players, NEW delta \in Deltas,
           LoadForAdjust(c, p, delta)
    PROVE  ScoresInv'
    <1> DEFINE k == [op |-> "saveScore", player |-> p, challenge |-> None,
                     read |-> score[p], owned |-> hints[p], write |-> Clamped(score[p] + delta)]
    <1>1. /\ scoreCall' = [scoreCall EXCEPT ![c] = k] /\ scoreCall[c] = None
          /\ UNCHANGED <<submitted, userVars, teamVars>>
          /\ calls < MaxCalls /\ calls' = calls + 1 /\ UNCHANGED accountVars
        BY DEF LoadForAdjust, Start
    <1>2. /\ score[p] \in Nat /\ hints[p] \in SUBSET Challenges /\ delta \in Int
          /\ RolesTypeOK /\ scoreCall \in [ScoreCalls -> SolveCalls \cup SaveCalls
                                \cup TeamCalls \cup Recalculations \cup {None}]
        BY ScoresAssumption DEF ScoresInv, TypeOK
    <1>3. k.write \in Nat
        BY <1>2 DEF Clamped
    <1>4. k \in SaveCalls
        BY <1>2, <1>3 DEF SaveCalls
    <1>5. scoreCall'[c] = k
        BY <1>1, <1>2
    <1>6. CallKnows(c)'
        BY <1>5 DEF CallKnows, At, Recalculating
    <1>7. RolesTypeOK'
        BY <1>1, <1>2, RolesFramed
    <1> HIDE DEF k
    <1>8. ~ At(c, "credit")
        BY <1>1 DEF At
    <1> QED BY <1>1, <1>4, <1>6, <1>7, <1>8, CallMoves

LEMMA ReadTeamKeeps ==
    ASSUME ScoresInv, NEW c \in ScoreCalls, ReadTeam(c)
    PROVE  ScoresInv'
    <1> DEFINE t == scoreCall[c].team
               k == [op |-> "setTeam", team |-> t, write |-> Clamped(teamScore[t])]
    <1>1. /\ scoreCall' = [scoreCall EXCEPT ![c] = k]
          /\ UNCHANGED <<submitted, userVars, teamVars, roleVars>>
          /\ At(c, "readTeam")
        BY DEF ReadTeam, Go
    <1>2. /\ RolesTypeOK /\ teamScore \in [Teams -> Nat]
          /\ scoreCall \in [ScoreCalls -> SolveCalls \cup SaveCalls
                                \cup TeamCalls \cup Recalculations \cup {None}]
        BY DEF ScoresInv, TypeOK
    <1>3. t \in Teams
        BY <1>1, CallTypes DEF ScoresInv
    <1>4. k \in TeamCalls
        BY <1>2, <1>3 DEF TeamCalls, Clamped
    <1>5. CallKnows(c)'
        BY <1>1, <1>2 DEF CallKnows, At, Recalculating
    <1>6. RolesTypeOK'
        BY <1>1, <1>2, RolesFramed
    <1> HIDE DEF k
    <1>7. ~ At(c, "credit")
        BY <1>1 DEF At
    <1> QED BY <1>1, <1>4, <1>5, <1>6, <1>7, CallMoves

LEMMA AggregateKeeps ==
    ASSUME ScoresInv, NEW c \in ScoreCalls, NEW by, Aggregate(c, by)
    PROVE  ScoresInv'
    <1> DEFINE k == [op |-> "write", sums |-> submitted, unseen |-> {}]
    <1>1. /\ scoreCall' = [scoreCall EXCEPT ![c] = k] /\ scoreCall[c] = None
          /\ UNCHANGED <<submitted, userVars, teamVars>>
          /\ calls < MaxCalls /\ calls' = calls + 1 /\ UNCHANGED accountVars
        BY DEF Aggregate, Start
    <1>2. /\ RolesTypeOK /\ submitted \in [Players -> SUBSET Challenges]
          /\ scoreCall \in [ScoreCalls -> SolveCalls \cup SaveCalls
                                \cup TeamCalls \cup Recalculations \cup {None}]
        BY DEF ScoresInv, TypeOK
    <1>3. k \in Recalculations
        BY <1>2 DEF Recalculations
    <1>4. CallKnows(c)'
        BY <1>1, <1>2 DEF CallKnows, At, Recalculating
    <1>5. RolesTypeOK'
        BY <1>1, <1>2, RolesFramed
    <1> HIDE DEF k
    <1>6. ~ At(c, "credit")
        BY <1>1 DEF At
    <1> QED BY <1>1, <1>3, <1>4, <1>5, <1>6, CallMoves

LEMMA AggregateTeamsKeeps ==
    ASSUME ScoresInv, NEW c \in ScoreCalls, AggregateTeams(c)
    PROVE  ScoresInv'
    <1> DEFINE k == [op |-> "writeTeams", sums |-> [t \in Teams |->
                        UNION {submitted[p] : p \in {q \in Players : TeamOf[q] = t}}]]
    <1>1. /\ scoreCall' = [scoreCall EXCEPT ![c] = k]
          /\ UNCHANGED <<submitted, userVars, teamVars, roleVars>>
          /\ At(c, "aggregateTeams")
        BY DEF AggregateTeams, Go
    <1>2. /\ RolesTypeOK /\ submitted \in [Players -> SUBSET Challenges]
          /\ scoreCall \in [ScoreCalls -> SolveCalls \cup SaveCalls
                                \cup TeamCalls \cup Recalculations \cup {None}]
        BY DEF ScoresInv, TypeOK
    <1>3. k \in Recalculations
        BY <1>2 DEF Recalculations
    <1>4. CallKnows(c)'
        BY <1>1, <1>2 DEF CallKnows, At, Recalculating
    <1>5. RolesTypeOK'
        BY <1>1, <1>2, RolesFramed
    <1> HIDE DEF k
    <1>6. ~ At(c, "credit")
        BY <1>1 DEF At
    <1> QED BY <1>1, <1>3, <1>4, <1>5, <1>6, CallMoves

\* What is charged and what was loaded decide what a save does to a ledger.
LEMMA SavedLedger ==
    ASSUME ScoresInv, NEW k \in SaveCalls, Saved(k),
           NEW p \in Players, p # k.player, UNCHANGED solved,
           charged'[p] = charged[p], adjusted'[p] = adjusted[p], ~ torn'[p]
    PROVE  score'[p] = Value * Cardinality(solved'[p])
                        - HintCost * Cardinality(charged'[p]) + adjusted'[p]
    <1>1. score'[p] = score[p] /\ torn'[p] = torn[p]
        BY DEF Saved, ScoresInv, TypeOK
    <1> QED BY <1>1 DEF ScoresInv, ScoreIsLedger

LEMMA SavedTyped ==
    ASSUME ScoresInv, NEW k \in SaveCalls, Saved(k)
    PROVE  /\ score' \in [Players -> Nat]
           /\ torn' \in [Players -> BOOLEAN]
           /\ \A p \in Players : torn[p] => torn'[p]
    BY DEF Saved, ScoresInv, TypeOK, SaveCalls

LEMMA SaveHintKeeps ==
    ASSUME ScoresInv, NEW c \in ScoreCalls, SaveHint(c)
    PROVE  ScoresInv'
    <1> DEFINE k == scoreCall[c]
               p == k.player
    <1> USE DEF ScoresInv
    <1>1. /\ At(c, "saveHint") /\ Saved(k)
          /\ hints' = [hints EXCEPT ![p] = @ \cup {k.challenge}]
          /\ charged' = [charged EXCEPT ![p] = @ \cup {k.challenge}]
          /\ scoreCall' = [scoreCall EXCEPT ![c] = None]
          /\ UNCHANGED <<roleVars, submitted, solved, adjusted, teamVars>>
        BY DEF SaveHint, Go
    <1>2. /\ k \in SaveCalls /\ p \in Players /\ k.challenge \in Challenges
          /\ k.read \in Nat /\ k.write \in Nat
        BY <1>1, CallTypes DEF SaveCalls
    <1>3. k.challenge \notin k.owned /\ k.write = k.read - HintCost
        BY <1>1 DEF CallsKnow, CallKnows
    <1>4. TypeOK'
        <2>1. RolesTypeOK'
            BY <1>1, RolesFramed DEF TypeOK
        <2>2. score' \in [Players -> Nat] /\ torn' \in [Players -> BOOLEAN]
            BY <1>1, <1>2, SavedTyped
        <2> QED BY <1>1, <1>2, <2>1, <2>2 DEF TypeOK, teamVars
    <1>5. Others(c) /\ scoreCall'[c] = None /\ ~ At(c, "credit")
        BY <1>1 DEF TypeOK, Others, At
    <1>6. CallsKnow'
        <2>1. CallKnows(c)'
            BY <1>5 DEF CallKnows, At, Recalculating
        <2> QED BY <1>1, <1>5, <2>1, CallsKept
    <1>7. Recorded'
        <2>1. \A q \in Players : torn[q] => torn'[q]
            BY <1>1, <1>2, SavedTyped
        <2>2. \A q \in Players : charged'[q] \subseteq hints'[q]
            BY <1>1, <1>2 DEF Recorded, TypeOK
        <2> QED BY <1>1, <1>5, <2>1, <2>2, RecordedKept
    <1>8. ScoreIsLedger'
        <2> SUFFICES ASSUME NEW q \in Players, ~ torn'[q]
                     PROVE  score'[q] = Value * Cardinality(solved'[q])
                                - HintCost * Cardinality(charged'[q]) + adjusted'[q]
            BY DEF ScoreIsLedger
        <2>1. CASE q # p
            <3>1. charged'[q] = charged[q] /\ adjusted'[q] = adjusted[q]
                BY <1>1, <2>1 DEF TypeOK
            <3> QED BY <1>1, <1>2, <2>1, <3>1, SavedLedger
        <2>2. CASE q = p
            <3>1. /\ ~ torn[p] /\ k.challenge \notin hints[p]
                  /\ k.write # k.read => k.read = score[p]
                BY <1>1, <1>2, <1>3, <2>2 DEF TypeOK, Saved
            <3>2. /\ solved[p] \in SUBSET Challenges /\ charged[p] \in SUBSET Challenges
                  /\ score[p] \in Nat /\ adjusted[p] \in Int /\ HintCost \in Nat
                  /\ charged'[p] = charged[p] \cup {k.challenge}
                BY <1>1, <1>2, ScoresAssumption DEF TypeOK
            <3>3. k.challenge \notin charged[p]
                BY <1>2, <3>1 DEF Recorded
            <3>4. /\ Cardinality(charged'[p]) = Cardinality(charged[p]) + 1
                  /\ Cardinality(charged[p]) \in Nat /\ Cardinality(solved[p]) \in Nat
                BY <1>2, <3>2, <3>3, Counts
            <3>5. score'[p] = score[p] - HintCost
                BY <1>1, <1>2, <1>3, <3>1, <3>2 DEF Saved, TypeOK
            <3>6. score[p] = Value * Cardinality(solved[p])
                                - HintCost * Cardinality(charged[p]) + adjusted[p]
                BY <1>2, <3>1 DEF ScoreIsLedger
            <3> QED BY <1>1, <2>2, <3>2, <3>4, <3>5, <3>6, ScoresAssumption
        <2> QED BY <2>1, <2>2
    <1>9. TeamScoreIsLedger'
        BY <1>1 DEF TeamScoreIsLedger, teamVars
    <1> QED BY <1>4, <1>6, <1>7, <1>8, <1>9

LEMMA SaveScoreKeeps ==
    ASSUME ScoresInv, NEW c \in ScoreCalls, SaveScore(c)
    PROVE  ScoresInv'
    <1> DEFINE k == scoreCall[c]
               p == k.player
               next == IF TeamOf[p] = None THEN None ELSE [op |-> "readTeam", team |-> TeamOf[p]]
    <1> USE DEF ScoresInv
    <1>1. /\ At(c, "saveScore") /\ Saved(k)
          /\ adjusted' = [adjusted EXCEPT ![p] = @ + k.write - k.read]
          /\ scoreCall' = [scoreCall EXCEPT ![c] = next]
          /\ UNCHANGED <<roleVars, submitted, solved, hints, charged, teamVars>>
        BY DEF SaveScore, Go
    <1>2. /\ k \in SaveCalls /\ p \in Players /\ k.read \in Nat /\ k.write \in Nat
        BY <1>1, CallTypes DEF SaveCalls
    <1>3. next \in TeamCalls \cup {None} /\ (next = None \/ next.op = "readTeam")
        BY <1>2, ScoresAssumption DEF TeamCalls
    <1>4. TypeOK'
        <2>1. RolesTypeOK'
            BY <1>1, RolesFramed DEF TypeOK
        <2>2. score' \in [Players -> Nat] /\ torn' \in [Players -> BOOLEAN]
            BY <1>1, <1>2, SavedTyped
        <2>3. adjusted' \in [Players -> Int]
            BY <1>1, <1>2 DEF TypeOK
        <2> HIDE DEF next
        <2> QED BY <1>1, <1>3, <2>1, <2>2, <2>3 DEF TypeOK, teamVars
    <1> HIDE DEF next
    <1>5. Others(c) /\ scoreCall'[c] = next /\ ~ At(c, "credit")
        BY <1>1 DEF TypeOK, Others, At
    <1>6. CallsKnow'
        <2>1. CallKnows(c)'
            BY <1>3, <1>5 DEF CallKnows, At, Recalculating
        <2> QED BY <1>1, <1>5, <2>1, CallsKept
    <1>7. Recorded'
        <2>1. \A q \in Players : torn[q] => torn'[q]
            BY <1>1, <1>2, SavedTyped
        <2>2. \A q \in Players : charged'[q] \subseteq hints'[q]
            BY <1>1 DEF Recorded
        <2> QED BY <1>1, <1>5, <2>1, <2>2, RecordedKept
    <1>8. ScoreIsLedger'
        <2> SUFFICES ASSUME NEW q \in Players, ~ torn'[q]
                     PROVE  score'[q] = Value * Cardinality(solved'[q])
                                - HintCost * Cardinality(charged'[q]) + adjusted'[q]
            BY DEF ScoreIsLedger
        <2>1. CASE q # p
            <3>1. charged'[q] = charged[q] /\ adjusted'[q] = adjusted[q]
                BY <1>1, <2>1 DEF TypeOK
            <3> QED BY <1>1, <1>2, <2>1, <3>1, SavedLedger
        <2>2. CASE q = p
            <3>1. ~ torn[p] /\ (k.write # k.read => k.read = score[p])
                BY <1>1, <1>2, <2>2 DEF TypeOK, Saved
            <3>2. /\ solved[p] \in SUBSET Challenges /\ charged[p] \in SUBSET Challenges
                  /\ score[p] \in Nat /\ adjusted[p] \in Int
                  /\ adjusted'[p] = adjusted[p] + k.write - k.read
                BY <1>1, <1>2 DEF TypeOK
            <3>3. Cardinality(charged[p]) \in Nat /\ Cardinality(solved[p]) \in Nat
                BY <3>2, Counts
            <3>4. score'[p] = score[p] + k.write - k.read
                BY <1>1, <1>2, <3>1, <3>2 DEF Saved, TypeOK
            <3>5. score[p] = Value * Cardinality(solved[p])
                                - HintCost * Cardinality(charged[p]) + adjusted[p]
                BY <1>2, <3>1 DEF ScoreIsLedger
            <3> QED BY <1>1, <1>2, <2>2, <3>2, <3>3, <3>4, <3>5, ScoresAssumption
        <2> QED BY <2>1, <2>2
    <1>9. TeamScoreIsLedger'
        BY <1>1 DEF TeamScoreIsLedger, teamVars
    <1> QED BY <1>4, <1>6, <1>7, <1>8, <1>9

\* A step of a call that is not a credit and writes teams only.
LEMMA TeamsMove ==
    ASSUME ScoresInv, NEW c \in ScoreCalls, NEW k, ~ At(c, "credit"),
           scoreCall' = [scoreCall EXCEPT ![c] = k],
           k \in Recalculations \cup {None}, CallKnows(c)',
           teamScore' \in [Teams -> Nat],
           teamSolved' \in [Teams -> SUBSET Challenges],
           teamTorn' \in [Teams -> BOOLEAN],
           TeamScoreIsLedger',
           UNCHANGED <<roleVars, submitted, userVars>>
    PROVE  ScoresInv'
    <1> USE DEF ScoresInv
    <1>1. RolesTypeOK'
        BY RolesFramed DEF TypeOK
    <1>2. TypeOK'
        BY <1>1 DEF TypeOK, userVars
    <1>3. Others(c)
        BY DEF TypeOK, Others
    <1>4. CallsKnow'
        BY <1>3, CallsKept
    <1>5. Recorded'
        BY <1>3, RecordedKept DEF userVars, Recorded
    <1>6. ScoreIsLedger'
        BY DEF ScoreIsLedger, userVars
    <1> QED BY <1>2, <1>4, <1>5, <1>6

LEMMA SetTeamKeeps ==
    ASSUME ScoresInv, NEW c \in ScoreCalls, SetTeam(c)
    PROVE  ScoresInv'
    <1> DEFINE k == scoreCall[c]
    <1> USE DEF ScoresInv
    <1>1. /\ At(c, "setTeam")
          /\ teamScore' = [teamScore EXCEPT ![k.team] = k.write]
          /\ teamTorn' = [teamTorn EXCEPT ![k.team] = @ \/ k.write # teamScore[k.team]]
          /\ scoreCall' = [scoreCall EXCEPT ![c] = None]
          /\ UNCHANGED <<roleVars, submitted, userVars, teamSolved>>
        BY DEF SetTeam, Go
    <1>2. k.team \in Teams /\ k.write \in Nat
        BY <1>1, CallTypes
    <1>3. /\ teamScore' \in [Teams -> Nat] /\ teamTorn' \in [Teams -> BOOLEAN]
          /\ teamSolved' \in [Teams -> SUBSET Challenges]
        BY <1>1, <1>2 DEF TypeOK
    <1>4. TeamScoreIsLedger'
        BY <1>1, <1>2 DEF TeamScoreIsLedger, TypeOK
    <1>5. CallKnows(c)' /\ ~ At(c, "credit")
        BY <1>1 DEF CallKnows, At, Recalculating, TypeOK
    <1> QED BY <1>1, <1>3, <1>4, <1>5, TeamsMove

\* Teams that get a sum get a ledger.
LEMMA TeamsRecalculatedLedger ==
    ASSUME ScoresInv, NEW sums \in [Teams -> SUBSET Challenges], NEW teams \in SUBSET Teams,
           TeamsRecalculated(teams, sums)
    PROVE  /\ teamScore' \in [Teams -> Nat]
           /\ teamSolved' \in [Teams -> SUBSET Challenges]
           /\ teamTorn' \in [Teams -> BOOLEAN]
           /\ TeamScoreIsLedger'
    <1> USE DEF ScoresInv, TypeOK
    <1>1. \A t \in Teams : Cardinality(sums[t]) \in Nat
        BY Counts
    <1>2. \A t \in Teams : Value * Cardinality(sums[t]) \in Nat
        BY <1>1, ScoresAssumption
    <1>3. teamScore' \in [Teams -> Nat]
        BY <1>2 DEF TeamsRecalculated
    <1>4. /\ teamSolved' \in [Teams -> SUBSET Challenges]
          /\ teamTorn' \in [Teams -> BOOLEAN]
        BY DEF TeamsRecalculated
    <1>5. TeamScoreIsLedger'
        BY DEF TeamsRecalculated, TeamScoreIsLedger
    <1> QED BY <1>3, <1>4, <1>5

LEMMA WriteTeamsKeeps ==
    ASSUME ScoresInv, NEW c \in ScoreCalls, WriteTeams(c)
    PROVE  ScoresInv'
    <1> DEFINE sums == scoreCall[c].sums
               teams == {t \in Teams : sums[t] # {}}
               k == [op |-> "zeroTeams", sums |-> sums]
    <1> USE DEF ScoresInv
    <1>1. /\ At(c, "writeTeams")
          /\ TeamsRecalculated(teams, sums)
          /\ scoreCall' = [scoreCall EXCEPT ![c] = k]
          /\ UNCHANGED <<submitted, userVars, roleVars>>
        BY DEF WriteTeams, Go
    <1>2. sums \in [Teams -> SUBSET Challenges] /\ teams \in SUBSET Teams
        BY <1>1, CallTypes
    <1>3. k \in Recalculations
        BY <1>2 DEF Recalculations
    <1>4. CallKnows(c)' /\ ~ At(c, "credit")
        BY <1>1 DEF CallKnows, At, Recalculating, TypeOK
    <1> HIDE DEF k, sums, teams
    <1>5. /\ teamScore' \in [Teams -> Nat] /\ teamTorn' \in [Teams -> BOOLEAN]
          /\ teamSolved' \in [Teams -> SUBSET Challenges]
          /\ TeamScoreIsLedger'
        BY <1>1, <1>2, TeamsRecalculatedLedger
    <1> QED BY <1>1, <1>3, <1>4, <1>5, TeamsMove

LEMMA ZeroTeamsKeeps ==
    ASSUME ScoresInv, NEW c \in ScoreCalls, ZeroTeams(c)
    PROVE  ScoresInv'
    <1> DEFINE sums == scoreCall[c].sums
               teams == {t \in Teams : sums[t] = {}}
    <1> USE DEF ScoresInv
    <1>1. /\ At(c, "zeroTeams")
          /\ TeamsRecalculated(teams, sums)
          /\ scoreCall' = [scoreCall EXCEPT ![c] = None]
          /\ UNCHANGED <<submitted, userVars, roleVars>>
        BY DEF ZeroTeams, Go
    <1>2. sums \in [Teams -> SUBSET Challenges] /\ teams \in SUBSET Teams
        BY <1>1, CallTypes
    <1>3. CallKnows(c)' /\ ~ At(c, "credit")
        BY <1>1 DEF CallKnows, At, Recalculating, TypeOK
    <1> HIDE DEF sums, teams
    <1>4. /\ teamScore' \in [Teams -> Nat] /\ teamTorn' \in [Teams -> BOOLEAN]
          /\ teamSolved' \in [Teams -> SUBSET Challenges]
          /\ TeamScoreIsLedger'
        BY <1>1, <1>2, TeamsRecalculatedLedger
    <1> QED BY <1>1, <1>3, <1>4, TeamsMove

\* The sums hold what the users submitted, but for what is still to be credited or
\* was credited without the recalculation seeing it.
Accounted(users, sums, unseen) ==
    \A p \in users :
        /\ sums[p] \subseteq submitted[p]
        /\ p \notin unseen => \A ch \in submitted[p] \ sums[p] : Coming(p, ch)

\* Users that get the sums of a recalculation get a ledger, and what it left out is
\* still to be credited or known to be lost.
LEMMA RecalculatedKeeps ==
    ASSUME ScoresInv, NEW c \in ScoreCalls, NEW k, ~ At(c, "credit"),
           NEW users \in SUBSET Players, NEW sums \in [Players -> SUBSET Challenges],
           NEW unseen, Recalculated(users, sums, unseen), Accounted(users, sums, unseen),
           scoreCall' = [scoreCall EXCEPT ![c] = k],
           k \in Recalculations, CallKnows(c)',
           UNCHANGED <<submitted, hints, teamVars, roleVars>>
    PROVE  ScoresInv'
    <1> USE DEF ScoresInv
    <1>1. \A p \in Players : Value * Cardinality(sums[p]) \in Nat
        BY Counts, ScoresAssumption
    <1>2. Others(c)
        BY DEF TypeOK, Others
    <1>3. TypeOK'
        <2>1. RolesTypeOK'
            BY RolesFramed DEF TypeOK
        <2>2. score' \in [Players -> Nat]
            BY <1>1 DEF Recalculated, TypeOK
        <2>3. /\ solved' \in [Players -> SUBSET Challenges]
              /\ charged' \in [Players -> SUBSET Challenges]
              /\ adjusted' \in [Players -> Int]
            BY DEF Recalculated, TypeOK
        <2>4. torn' \in [Players -> BOOLEAN]
            <3>1. \A p \in Players : torn[p] \in BOOLEAN
                BY DEF TypeOK
            <3>2. ASSUME NEW p \in Players
                  PROVE  (IF p \in users THEN p \in unseen ELSE torn[p]) \in BOOLEAN
                <4>1. (p \in unseen) \in BOOLEAN
                    OBVIOUS
                <4>2. torn[p] \in BOOLEAN
                    BY <3>1
                <4> QED BY <4>1, <4>2, Zenon
            <3> QED BY <3>2, Zenon DEF Recalculated
        <2> QED BY <2>1, <2>2, <2>3, <2>4 DEF TypeOK, teamVars
    <1>4. CallsKnow'
        BY <1>2, CallsKept
    <1>5. Recorded'
        <2> SUFFICES ASSUME NEW p \in Players
                     PROVE  /\ solved'[p] \subseteq submitted'[p]
                            /\ charged'[p] \subseteq hints'[p]
                            /\ ~ torn'[p] => \A ch \in submitted'[p] \ solved'[p] : Coming(p, ch)'
            BY DEF Recorded
        <2>1. CASE p \in users
            BY <1>2, <2>1, ComingKept DEF Recalculated, Accounted
        <2>2. CASE p \notin users
            BY <1>2, <2>2, ComingKept DEF Recalculated, Recorded
        <2> QED BY <2>1, <2>2
    <1>6. ScoreIsLedger'
        <2> SUFFICES ASSUME NEW p \in Players, ~ torn'[p]
                     PROVE  score'[p] = Value * Cardinality(solved'[p])
                                - HintCost * Cardinality(charged'[p]) + adjusted'[p]
            BY DEF ScoreIsLedger
        <2>1. CASE p \in users
            <3>1. /\ score'[p] = Value * Cardinality(sums[p]) /\ solved'[p] = sums[p]
                  /\ charged'[p] = {} /\ adjusted'[p] = 0
                BY <2>1 DEF Recalculated
            <3> QED BY <1>1, <3>1, Counts, ScoresAssumption
        <2>2. CASE p \notin users
            BY <2>2 DEF Recalculated, ScoreIsLedger
        <2> QED BY <2>1, <2>2
    <1>7. TeamScoreIsLedger'
        BY DEF TeamScoreIsLedger, teamVars
    <1> QED BY <1>3, <1>4, <1>5, <1>6, <1>7

LEMMA WriteScoresKeeps ==
    ASSUME ScoresInv, NEW c \in ScoreCalls, WriteScores(c)
    PROVE  ScoresInv'
    <1> DEFINE k == scoreCall[c]
               next == [k EXCEPT !.op = "zero"]
               users == {p \in Players : k.sums[p] # {}}
    <1> USE DEF ScoresInv
    <1>1. /\ At(c, "write") /\ Recalculating(c)
          /\ Recalculated(users, k.sums, k.unseen)
          /\ scoreCall' = [scoreCall EXCEPT ![c] = next]
          /\ UNCHANGED <<submitted, hints, teamVars, roleVars>>
        BY DEF WriteScores, Go, Recalculating
    <1>2. /\ k.sums \in [Players -> SUBSET Challenges]
          /\ k \in [op : {"write", "zero"}, sums : [Players -> SUBSET Challenges],
                    unseen : SUBSET Players]
        BY <1>1, CallTypes
    <1>3. next \in Recalculations
        BY <1>2 DEF Recalculations
    <1>4. /\ next.op = "zero" /\ next.sums = k.sums /\ next.unseen = k.unseen
          /\ scoreCall'[c] = next /\ ~ At(c, "credit")
        BY <1>1, <1>2 DEF TypeOK, At
    <1>5. CallKnows(c)
        BY DEF CallsKnow
    <1>6. CallKnows(c)'
        <2>1. Others(c)
            BY <1>1 DEF TypeOK, Others
        <2>2. \A p, ch : Coming(p, ch) => Coming(p, ch)'
            BY <1>4, <2>1, ComingKept
        <2> HIDE DEF next
        <2> QED BY <1>1, <1>4, <1>5, <2>2 DEF CallKnows, At
    <1>7. users \in SUBSET Players
        OBVIOUS
    <1> HIDE DEF next, users, k
    <1>8. \A p \in Players :
            /\ k.sums[p] \subseteq submitted[p]
            /\ p \notin k.unseen => \A ch \in submitted[p] \ k.sums[p] : Coming(p, ch)
        BY <1>1, <1>5 DEF CallKnows, k
    <1>9. Accounted(users, k.sums, k.unseen)
        BY <1>7, <1>8 DEF Accounted
    <1> QED BY <1>1, <1>2, <1>3, <1>4, <1>6, <1>7, <1>9, RecalculatedKeeps

LEMMA ZeroScoresKeeps ==
    ASSUME ScoresInv, NEW c \in ScoreCalls, ZeroScores(c)
    PROVE  ScoresInv'
    <1> DEFINE k == scoreCall[c]
               next == [op |-> "aggregateTeams"]
               users == Unlisted(k.sums) \ deleted
               none == [p \in Players |-> {}]
    <1> USE DEF ScoresInv
    <1>1. /\ At(c, "zero") /\ Recalculating(c)
          /\ Recalculated(users, none, k.unseen)
          /\ scoreCall' = [scoreCall EXCEPT ![c] = next]
          /\ UNCHANGED <<submitted, hints, teamVars, roleVars>>
        BY DEF ZeroScores, Go, Recalculating
    <1>2. next \in Recalculations /\ scoreCall'[c] = next
        BY <1>1 DEF Recalculations, TypeOK
    <1>3. CallKnows(c)' /\ ~ At(c, "credit")
        BY <1>1, <1>2 DEF CallKnows, At, Recalculating
    <1>4. \A p \in users : k.sums[p] = {} /\ p \in Players
        BY DEF Unlisted
    <1>5. CallKnows(c)
        BY DEF CallsKnow
    <1>6. Accounted(users, none, k.unseen)
        BY <1>1, <1>4, <1>5 DEF CallKnows, Accounted
    <1>7. none \in [Players -> SUBSET Challenges] /\ users \in SUBSET Players
        BY <1>4
    <1> HIDE DEF k, next, none, users
    <1> QED BY <1>1, <1>2, <1>3, <1>6, <1>7, RecalculatedKeeps

-----------------------------------------------------------------------------
(* Theorems                                                                 *)

LEMMA ScoresInvInit ==
    ASSUME Init
    PROVE  ScoresInv
    <1> USE DEF Init
    <1>1. RolesTypeOK
        <2> USE RolesAssumption DEF RolesInit
        <2>1. role \in [Accounts -> Granted \cup {"none"}]
            BY DEF Granted
        <2>2. deleted \subseteq Accounts /\ calls \in 0..MaxCalls
            OBVIOUS
        <2>4. late \in BOOLEAN
            OBVIOUS
        <2>3. roleCall \in [RoleCalls -> RoleCallStates \cup {None}]
            OBVIOUS
        <2> QED BY <2>1, <2>2, <2>3, <2>4 DEF RolesTypeOK
    <1>2. TypeOK
        BY <1>1 DEF TypeOK
    <1>3. CallsKnow /\ Recorded
        BY DEF CallsKnow, CallKnows, At, Recalculating, Recorded
    <1>4. ScoreIsLedger /\ TeamScoreIsLedger
        BY Counts, ScoresAssumption DEF ScoreIsLedger, TeamScoreIsLedger
    <1> QED BY <1>2, <1>3, <1>4 DEF ScoresInv

LEMMA ScoresInvFramed ==
    ASSUME ScoresInv, RolesTypeOK', UNCHANGED <<submitted, userVars, teamVars, scoreCall>>
    PROVE  ScoresInv'
    BY DEF ScoresInv, TypeOK, CallsKnow, CallKnows, Coming, At, Recalculating, Recorded,
           ScoreIsLedger, TeamScoreIsLedger, userVars, teamVars

LEMMA ScoresInvStep ==
    ASSUME ScoresInv, [Next]_vars
    PROVE  ScoresInv'
    <1>1. CASE ScoresNext
        BY <1>1, AwardBonusKeeps, SubmitKeeps, LoadForHintKeeps, LoadForAdjustKeeps,
           AggregateKeeps, CreditKeeps, CreditTeamKeeps, SaveHintKeeps, SaveScoreKeeps,
           ReadTeamKeeps, SetTeamKeeps, WriteScoresKeeps, ZeroScoresKeeps,
           AggregateTeamsKeeps, WriteTeamsKeeps, ZeroTeamsKeeps
        DEF ScoresNext
    <1>2. CASE RolesNext /\ UNCHANGED <<submitted, userVars, teamVars, scoreCall>>
        BY <1>2, RolesTyped, ScoresInvFramed DEF ScoresInv, TypeOK
    <1>3. CASE UNCHANGED vars
        BY <1>3, RolesFramed, ScoresInvFramed DEF ScoresInv, TypeOK, vars
    <1> QED BY <1>1, <1>2, <1>3 DEF Next

\* Scores and solves of players and teams are what the calls made of them, whatever
\* credits, purchases, adjustments and recalculations overlap.
THEOREM ScoresConsistentHolds == Spec => []ScoresConsistent
    <1>1. ASSUME ScoresInv PROVE ScoresConsistent
        <2>1. SolvesOnRecord
            <3> SUFFICES ASSUME NEW p \in Players, ~ torn[p], solved[p] # submitted[p]
                         PROVE  \E c \in ScoreCalls : At(c, "credit") /\ scoreCall[c].player = p
                BY DEF SolvesOnRecord
            <3>1. PICK ch \in submitted[p] \ solved[p] : TRUE
                BY <1>1 DEF ScoresInv, Recorded
            <3> QED BY <1>1, <3>1 DEF ScoresInv, Recorded, Coming
        <2> QED BY <1>1, <2>1 DEF ScoresInv, ScoresConsistent
    <1> QED BY <1>1, ScoresInvInit, ScoresInvStep, PTL DEF Spec

\* No step of the score calls touches an account.
LEMMA AccountsFramed ==
    ASSUME ScoresNext
    PROVE  UNCHANGED accountVars
    BY DEF ScoresNext, AwardBonus, Submit, LoadForHint, LoadForAdjust, Aggregate, Credit,
           CreditTeam, SaveHint, SaveScore, ReadTeam, SetTeam, WriteScores, ZeroScores,
           AggregateTeams, WriteTeams, ZeroTeams, Start, Go, roleVars

\* A platform that began with a superadmin is left without one only when a call was
\* saved after its requester had lost the role.
THEOREM SuperadminsGoneOnlyLateHolds ==
    ASSUME Seeded # {}
    PROVE  Spec => []SuperadminsGoneOnlyLate
    <1>1. Init => RolesInv /\ ScoresInv
        <2>1. ASSUME Init PROVE RolesInv
            <3>1. RolesTypeOK
                BY <2>1, ScoresInvInit DEF ScoresInv, TypeOK
            <3>2. OthersOnly
                BY <2>1 DEF Init, RolesInit, OthersOnly
            <3>3. Seeded \subseteq Superadmins
                BY <2>1, RolesAssumption DEF Init, RolesInit, Superadmins
            <3> QED BY <3>1, <3>2, <3>3 DEF RolesInv, SuperadminsGoneOnlyLate
        <2> QED BY <2>1, ScoresInvInit
    <1>2. RolesInv /\ ScoresInv /\ [Next]_vars => RolesInv' /\ ScoresInv'
        <2> SUFFICES ASSUME RolesInv, ScoresInv, [Next]_vars
                     PROVE  RolesInv'
            BY ScoresInvStep
        <2>1. RolesTypeOK'
            BY ScoresInvStep DEF ScoresInv, TypeOK
        <2>2. CASE RolesNext
            BY <2>2, RolesStep
        <2>3. CASE UNCHANGED accountVars
            BY <2>1, <2>3
            DEF RolesInv, OthersOnly, SuperadminsGoneOnlyLate, Superadmins, accountVars
        <2>4. CASE UNCHANGED vars
            BY <2>3, <2>4 DEF vars, roleVars
        <2> QED BY <2>2, <2>3, <2>4, AccountsFramed DEF Next
    <1> QED BY <1>1, <1>2, PTL DEF Spec, RolesInv

-----------------------------------------------------------------------------
(* The identities of accounts.  A call that is about to write an account     *)
(* still has what it saw of it, unless another call wrote it (disturbed); a  *)
(* sign-in under way with an identity is alone with it or counted as         *)
(* overlapped; a call at an account is alone there with a deletion or the    *)
(* account is counted as crossed.                                            *)

\* What the call has seen of its account is still so.
StillSo(c) ==
    LET k == idCall[c] IN
    /\ doc[k.target].email = k.seen.email
    /\ doc[k.target].banned = k.seen.banned /\ doc[k.target].deleted = k.seen.deleted

\* The password of the call is that of its account, or the call is one of those whose
\* password need not work.
Works(c) ==
    LET k == idCall[c] IN
    \/ /\ doc[k.target].email = k.email /\ ~ Shut(doc[k.target])
       /\ doc[k.target].password = [by |-> c, hashed |-> TRUE]
    \/ /\ k.seen # Nothing
       /\ Shut(k.seen) \/ (k.kind = "reset" /\ ~ k.seen.local)

CallSound(c) ==
    LET k == idCall[c] IN
    /\ k.kind \in {"register", "signIn", "appoint", "rename"} => k.email \in Emails
    /\ k.kind = "signIn" => k.id \in Ids
    /\ k.step \in {"linking", "saving", "verified", "deleting", "accepted"} => k.target \in Stored
    /\ k.step \in {"linking", "saving"} =>
        /\ k.seen \in UserDocs
        /\ k.seen.local => doc[k.target].local \/ doc[k.target].deleted
        /\ c \notin disturbed => StillSo(c)
    /\ k.step = "linking" /\ k.kind = "register" => k.seen.email = k.email
    /\ k.step = "saving" /\ k.kind = "change" => k.seen.local \/ k.seen.deleted
    /\ k.step = "accepted" /\ c \notin disturbed => Works(c)
    /\ k.step \in {"received", "uploading"} /\ c \notin mixed => temp \in {0, c}
    /\ k.picture \in {0, c} \/ c \in mixed

\* A sign-in under way whose identity no other has met is the only one with it, and no
\* account lists it yet.
SignInAlone(c) ==
    LET i == idCall[c].id IN
    idCall[c].kind = "signIn" /\ c \in InFlight /\ i \notin overlapped =>
        /\ Known(i) = {}
        /\ \A d \in InFlight \ {c} : idCall[d].kind = "signIn" => idCall[d].id # i

\* Nobody else is at an account that is being deleted, and of one that is deleted only
\* the password is still reset, unless it is counted as crossed.
DeletionAlone(a) ==
    a \notin crossed =>
        /\ \A c, d \in InFlight :
            c # d /\ idCall[c].target = a /\ idCall[d].target = a => idCall[c].kind # "delete"
        /\ doc[a].deleted =>
            \A c \in InFlight : idCall[c].target = a => idCall[c].kind = "reset"

\* A hash is stored where "local" is listed.
HashListed(a) ==
    doc[a].password # Nothing /\ doc[a].password.hashed => doc[a].local \/ doc[a].deleted

IdentitiesInv ==
    /\ IdentitiesTypeOK
    /\ \A c \in DOMAIN idCall : CallSound(c) /\ SignInAlone(c)
    /\ \A a \in Stored : DeletionAlone(a) /\ HashListed(a)
    /\ IdentityIsOnes /\ DeletedLetsGo

LEMMA Lengths ==
    ASSUME IdentitiesTypeOK
    PROVE  /\ Len(doc) \in Nat /\ DOMAIN doc = Stored
           /\ \A a \in Stored : doc[a] \in UserDocs
           /\ Len(idCall) \in Nat /\ DOMAIN idCall = 1..Len(idCall) /\ DOMAIN idCall \subseteq Callers
           /\ \A c \in DOMAIN idCall : idCall[c] \in IdCallStates
           /\ InFlight \subseteq DOMAIN idCall
<1>1. /\ Len(doc) \in Nat /\ DOMAIN doc = Stored
      /\ \A a \in Stored : doc[a] \in UserDocs
  BY LenProperties DEF IdentitiesTypeOK, Stored
<1>2. /\ Len(idCall) \in Nat /\ DOMAIN idCall = 1..Len(idCall) /\ Len(idCall) <= MaxIdCalls
      /\ \A c \in DOMAIN idCall : idCall[c] \in IdCallStates
  BY LenProperties DEF IdentitiesTypeOK
<1>3. DOMAIN idCall \subseteq Callers
  BY <1>2, IdentitiesAssumption DEF Callers
<1> QED
  BY <1>1, <1>2, <1>3 DEF InFlight

\* What a step of call c, or of nobody's, may make of the accounts others are at.
DocsKept(c) ==
    /\ Stored \subseteq Stored' /\ disturbed \subseteq disturbed'
    /\ \A b \in Stored :
        /\ doc[b].local \/ doc[b].deleted => doc'[b].local \/ doc'[b].deleted
        /\ \/ /\ doc'[b].email = doc[b].email /\ doc'[b].password = doc[b].password
              /\ doc'[b].banned = doc[b].banned /\ doc'[b].deleted = doc[b].deleted
           \/ \A d \in DOMAIN idCall \ {c} : idCall[d].target = b => d \in disturbed'

\* The identities they may gain: one account that of the sign-in c, which ends.
IdsKept(c) ==
    \E a : \A b \in Stored' : \A i \in doc'[b].ids :
        \/ b \in Stored /\ i \in doc[b].ids
        \/ b = a /\ idCall[c].kind = "signIn" /\ i = idCall[c].id /\ c \notin InFlight'

LetsGo(d) == d.email = Nothing /\ d.ids = {} /\ ~ d.local

LEMMA OthersKept ==
    ASSUME IdentitiesInv, NEW c, NEW d \in DOMAIN idCall, d # c, idCall'[d] = idCall[d],
           DocsKept(c), mixed \subseteq mixed',
           idCall[d].step \in {"received", "uploading"} /\ d \notin mixed' => temp' \in {0, d}
    PROVE  CallSound(d)'
<1> DEFINE k == idCall[d]
<1>1. CallSound(d)
  BY DEF IdentitiesInv
<1>2. k.step \in {"linking", "saving", "verified", "deleting", "accepted"} =>
        k.target \in Stored /\ k.target \in Stored'
  BY <1>1 DEF CallSound, DocsKept
<1>3. k.step \in {"linking", "saving"} /\ k.seen.local =>
        doc'[k.target].local \/ doc'[k.target].deleted
  BY <1>1, <1>2 DEF CallSound, DocsKept
<1>4. d \notin disturbed' => d \notin disturbed
  BY DEF DocsKept
<1>5. ASSUME k.step \in {"linking", "saving"}, d \notin disturbed' PROVE StillSo(d)'
  <2>1. StillSo(d)
    BY <1>1, <1>4, <1>5 DEF CallSound
  <2>2. /\ doc'[k.target].email = doc[k.target].email
        /\ doc'[k.target].banned = doc[k.target].banned
        /\ doc'[k.target].deleted = doc[k.target].deleted
    BY <1>2, <1>5 DEF DocsKept
  <2> QED
    BY <2>1, <2>2 DEF StillSo
<1>6. ASSUME k.step = "accepted", d \notin disturbed' PROVE Works(d)'
  <2>1. Works(d)
    BY <1>1, <1>4, <1>6 DEF CallSound
  <2>2. /\ doc'[k.target].email = doc[k.target].email
        /\ doc'[k.target].banned = doc[k.target].banned
        /\ doc'[k.target].deleted = doc[k.target].deleted
        /\ doc'[k.target].password = doc[k.target].password
    BY <1>2, <1>6 DEF DocsKept
  <2> QED
    BY <2>1, <2>2 DEF Works, Shut
<1> HIDE DEF k
<1>7. /\ k.kind \in {"register", "signIn", "appoint", "rename"} => k.email \in Emails
      /\ k.kind = "signIn" => k.id \in Ids
      /\ k.step \in {"linking", "saving"} => k.seen \in UserDocs
      /\ k.step = "linking" /\ k.kind = "register" => k.seen.email = k.email
      /\ k.step = "saving" /\ k.kind = "change" => k.seen.local \/ k.seen.deleted
      /\ k.picture \in {0, d} \/ d \in mixed
  BY <1>1 DEF CallSound, k
<1> QED
  BY <1>2, <1>3, <1>5, <1>6, <1>7 DEF CallSound, k

\* Types only widen when an account comes.
LEMMA StatesGrow ==
    ASSUME Stored \subseteq Stored'
    PROVE  IdCallStates \subseteq IdCallStates'
BY DEF IdCallStates

\* A step of a call that is under way, to k.
LEMMA StepKeeps ==
    ASSUME IdentitiesInv, NEW c \in InFlight, NEW k,
           idCall' = [idCall EXCEPT ![c] = k], k \in IdCallStates',
           k.kind = idCall[c].kind, k.id = idCall[c].id,
           doc' \in Seq(UserDocs), Len(doc') <= MaxDocs, DocsKept(c), IdsKept(c),
           temp' \in {0, temp}, mailed' \subseteq mailed, overlapped' = overlapped,
           mixed' = mixed, crossed \subseteq crossed', crossed' \subseteq Stored,
           disturbed' \subseteq Callers, CallSound(c)',
           \A a \in Stored' : HashListed(a)',
           \A a \in Stored' \ crossed' :
               /\ doc'[a].deleted => LetsGo(doc'[a])
               /\ doc'[a].deleted =>
                      \/ a \in Stored /\ doc[a].deleted
                      \/ k.step \in {"accepted", "ended"} /\ idCall[c].kind = "delete" /\ idCall[c].target = a
               /\ k.step \notin {"accepted", "ended"} /\ k.target = a =>
                      \/ idCall[c].target = a
                      \/ /\ ~ doc'[a].deleted /\ k.kind # "delete"
                         /\ \A d \in InFlight : idCall[d].target = a => idCall[d].kind # "delete"
    PROVE  IdentitiesInv'
<1>0. /\ Len(idCall) \in Nat /\ DOMAIN idCall = 1..Len(idCall) /\ idCall \in Seq(IdCallStates)
      /\ Len(doc) \in Nat /\ c \in DOMAIN idCall /\ IdentitiesTypeOK
  BY Lengths DEF IdentitiesInv, IdentitiesTypeOK
<1>1. Stored \subseteq Stored' /\ IdCallStates \subseteq IdCallStates'
  BY StatesGrow DEF DocsKept
<1>2. /\ idCall' \in Seq(IdCallStates') /\ Len(idCall') = Len(idCall)
      /\ idCall'[c] = k /\ \A d \in DOMAIN idCall \ {c} : idCall'[d] = idCall[d]
  <2>1. idCall \in Seq(IdCallStates')
    BY <1>0, <1>1, SeqMonotonic
  <2> QED
    BY <1>0, <2>1, ExceptSeq
<1>3. DOMAIN idCall' = DOMAIN idCall
  BY <1>2
<1>4. IdentitiesTypeOK'
  BY <1>0, <1>1, <1>2 DEF IdentitiesTypeOK
<1>5. InFlight' \subseteq InFlight
      /\ (c \in InFlight' <=> k.step \notin {"accepted", "ended"})
      /\ \A d \in InFlight \ {c} : d \in InFlight'
  BY <1>0, <1>2, <1>3 DEF InFlight
<1>6. ASSUME NEW d \in DOMAIN idCall PROVE CallSound(d)'
  <2>1. CASE d = c
    BY <2>1
  <2>2. CASE d # c
    <3>1. idCall[d].step \in {"received", "uploading"} /\ d \notin mixed' => temp' \in {0, d}
      BY DEF IdentitiesInv, CallSound
    <3> QED
      BY <1>2, <2>2, <3>1, OthersKept
  <2> QED
    BY <2>1, <2>2
<1>7. ASSUME NEW d \in DOMAIN idCall PROVE SignInAlone(d)'
  <2> DEFINE i == idCall[d].id
  <2>0. idCall'[d].id = i /\ idCall'[d].kind = idCall[d].kind
    BY <1>2
  <2> SUFFICES ASSUME idCall[d].kind = "signIn", d \in InFlight', i \notin overlapped
               PROVE  /\ (Known(i))' = {}
                      /\ \A e \in InFlight' \ {d} : idCall'[e].kind = "signIn" => idCall'[e].id # i
    BY <2>0 DEF SignInAlone, Known
  <2>1. /\ Known(i) = {}
        /\ \A e \in InFlight \ {d} : idCall[e].kind = "signIn" => idCall[e].id # i
    BY <1>5 DEF IdentitiesInv, SignInAlone
  <2>2. \A e \in InFlight : idCall'[e].kind = idCall[e].kind /\ idCall'[e].id = idCall[e].id
    BY <1>0, <1>2, Lengths
  <2>3. \A b \in Stored' : i \notin doc'[b].ids
    <3> SUFFICES ASSUME NEW b \in Stored', i \in doc'[b].ids PROVE FALSE
      OBVIOUS
    <3>1. \/ b \in Stored /\ i \in doc[b].ids
          \/ idCall[c].kind = "signIn" /\ i = idCall[c].id /\ c \notin InFlight'
      BY DEF IdsKept
    <3> QED
      BY <2>1, <3>1 DEF Known
  <2> QED
    BY <1>5, <2>1, <2>2, <2>3 DEF Known
<1>8. ASSUME NEW a \in Stored' PROVE DeletionAlone(a)'
  <2> SUFFICES ASSUME a \notin crossed'
               PROVE  /\ \A e, d \in InFlight' :
                          e # d /\ idCall'[e].target = a /\ idCall'[d].target = a
                              => idCall'[e].kind # "delete"
                      /\ doc'[a].deleted =>
                          \A e \in InFlight' : idCall'[e].target = a => idCall'[e].kind = "reset"
    BY DEF DeletionAlone
  <2>1. \A e \in InFlight : idCall'[e].kind = idCall[e].kind /\ (e # c => idCall'[e].target = idCall[e].target)
    BY <1>0, <1>2, Lengths
  <2>2. CASE a \in Stored
    <3>1. /\ \A e, d \in InFlight :
               e # d /\ idCall[e].target = a /\ idCall[d].target = a => idCall[e].kind # "delete"
          /\ doc[a].deleted =>
               \A e \in InFlight : idCall[e].target = a => idCall[e].kind = "reset"
      BY <2>2 DEF IdentitiesInv, DeletionAlone
    <3>2. ASSUME NEW e \in InFlight', NEW d \in InFlight', e # d, idCall'[e].target = a,
                 idCall'[d].target = a
          PROVE  idCall'[e].kind # "delete"
      <4>1. e \in InFlight /\ d \in InFlight
        BY <1>5
      <4>2. CASE idCall[c].target = a
        BY <2>1, <3>1, <3>2, <4>1, <4>2
      <4>3. CASE idCall[c].target # a
        BY <1>2, <1>5, <2>1, <3>1, <3>2, <4>1, <4>3
      <4> QED
        BY <4>2, <4>3
    <3>3. ASSUME doc'[a].deleted, NEW e \in InFlight', idCall'[e].target = a
          PROVE  idCall'[e].kind = "reset"
      <4>1. e \in InFlight
        BY <1>5
      <4>2. CASE doc[a].deleted
        BY <1>2, <1>5, <2>1, <3>1, <3>3, <4>1, <4>2
      <4>3. CASE ~ doc[a].deleted
        <5>1. k.step \in {"accepted", "ended"} /\ idCall[c].kind = "delete" /\ idCall[c].target = a
          BY <3>3, <4>3
        <5>2. e # c
          BY <1>5, <5>1
        <5> QED
          BY <2>1, <3>1, <3>3, <4>1, <5>1, <5>2
      <4> QED
        BY <4>2, <4>3
    <3> QED
      BY <3>2, <3>3
  <2>3. CASE a \notin Stored
    <3>1. \A e \in InFlight : idCall[e].target # a
      <4>1. \A e \in InFlight : idCall[e].target \in {0} \cup Stored
        BY <1>0, Lengths DEF IdCallStates
      <4>2. a # 0
        BY DEF Stored
      <4> QED
        BY <2>3, <4>1, <4>2
    <3>2. \A e \in InFlight' : idCall'[e].target = a => e = c
      BY <1>5, <2>1, <3>1
    <3> QED
      BY <1>2, <1>5, <2>3, <3>1, <3>2
  <2> QED
    BY <2>2, <2>3
<1>9. IdentityIsOnes'
  <2> SUFFICES ASSUME NEW a \in Stored', NEW b \in Stored', a # b,
                      NEW i \in doc'[a].ids, i \in doc'[b].ids
               PROVE  i \in overlapped
    BY DEF IdentityIsOnes
  <2>1. PICK g : \A x \in Stored' : \A j \in doc'[x].ids :
            \/ x \in Stored /\ j \in doc[x].ids
            \/ x = g /\ idCall[c].kind = "signIn" /\ j = idCall[c].id /\ c \notin InFlight'
    BY DEF IdsKept
  <2>2. CASE a \in Stored /\ i \in doc[a].ids /\ b \in Stored /\ i \in doc[b].ids
    BY <2>2 DEF IdentitiesInv, IdentityIsOnes
  <2>3. CASE idCall[c].kind = "signIn" /\ i = idCall[c].id
             /\ \E x \in Stored : i \in doc[x].ids
    <3>1. SignInAlone(c)
      BY <1>0 DEF IdentitiesInv
    <3> QED
      BY <2>3, <3>1 DEF SignInAlone, Known
  <2> QED
    BY <2>1, <2>2, <2>3
<1>10. DeletedLetsGo'
  BY DEF DeletedLetsGo, LetsGo
<1> QED
  BY <1>3, <1>4, <1>6, <1>7, <1>8, <1>9, <1>10 DEF IdentitiesInv

\* A call that begins.
LEMMA BeginKeeps ==
    ASSUME IdentitiesInv, NEW kind \in Kinds, NEW step \in Steps, NEW e \in Emails \cup {Nothing},
           NEW i \in Ids \cup {Nothing}, NEW a \in {0} \cup Stored,
           NEW seen \in UserDocs \cup {Nothing}, Begin(kind, step, e, i, a, seen),
           doc' = doc, temp' \in {0} \cup Callers, mailed' \subseteq mailed,
           overlapped \subseteq overlapped', overlapped' \subseteq Ids,
           mixed \subseteq mixed', mixed' \subseteq Callers,
           crossed' = crossed \/ (a # 0 /\ Meet(kind, a)), disturbed' = disturbed,
           kind \in {"register", "signIn", "appoint", "rename"} => e \in Emails,
           kind = "signIn" => /\ i \in Ids /\ Known(i) = {}
                              /\ i \in overlapped' \/ \A d \in InFlight : idCall[d].id # i,
           step \notin {"linking", "accepted", "uploading"},
           step \in {"verified", "saving", "deleting"} => a # 0,
           step = "saving" => kind = "reset" /\ seen = doc[a],
           step = "received" => temp' = Len(idCall'),
           \A d \in DOMAIN idCall :
               idCall[d].step \in {"received", "uploading"} /\ d \notin mixed' => temp' \in {0, d},
           a # 0 => /\ kind # "reset" => ~ doc[a].deleted
                    /\ Meet(kind, a)
    PROVE  IdentitiesInv'
<1>14. PICK n : n = Len(idCall) + 1
  OBVIOUS
<1> DEFINE
           k == [kind |-> kind, step |-> step, email |-> e, id |-> i, picture |-> 0,
                 target |-> a, seen |-> seen]
<1>0. /\ Len(idCall) \in Nat /\ DOMAIN idCall = 1..Len(idCall) /\ idCall \in Seq(IdCallStates)
      /\ \A d \in DOMAIN idCall : idCall[d] \in IdCallStates
      /\ Len(doc) \in Nat /\ \A b \in Stored : doc[b] \in UserDocs
      /\ IdentitiesTypeOK /\ InFlight \subseteq DOMAIN idCall
  BY Lengths DEF IdentitiesInv, IdentitiesTypeOK
<1>1. idCall' = Append(idCall, k) /\ Len(idCall) < MaxIdCalls
  BY DEF Begin
<1>2. /\ k.kind = kind /\ k.step = step /\ k.email = e /\ k.id = i /\ k.picture = 0
      /\ k.target = a /\ k.seen = seen /\ k \in IdCallStates
  BY DEF IdCallStates
<1> HIDE DEF k
<1>3. /\ idCall' \in Seq(IdCallStates) /\ Len(idCall') = n /\ idCall'[n] = k
      /\ \A d \in DOMAIN idCall : idCall'[d] = idCall[d]
      /\ DOMAIN idCall' = 1..n
  BY <1>0, <1>1, <1>2, <1>14, AppendProperties
<1>4. DOMAIN idCall' = DOMAIN idCall \cup {n} /\ n \notin DOMAIN idCall /\ n # 0
  BY <1>0, <1>3, <1>14
<1>5. Stored' = Stored /\ IdCallStates' = IdCallStates
  BY DEF Stored, IdCallStates
<1>6. crossed \subseteq crossed' /\ crossed' \subseteq Stored
      /\ (a # 0 /\ a \notin crossed' =>
            \A d \in InFlight : idCall[d].target = a => "delete" \notin {kind, idCall[d].kind})
  BY <1>0 DEF Meet, IdentitiesTypeOK
<1>7. n <= MaxIdCalls /\ n \in Callers
  BY <1>0, <1>1, <1>14, IdentitiesAssumption DEF Callers
<1>8. IdentitiesTypeOK'
  BY <1>0, <1>3, <1>5, <1>6, <1>7 DEF IdentitiesTypeOK
<1>9. InFlight' \subseteq InFlight \cup {n} /\ InFlight \subseteq InFlight'
      /\ (n \in InFlight' <=> step \notin {"accepted", "ended"})
  BY <1>0, <1>2, <1>3, <1>4 DEF InFlight
<1>10. ASSUME NEW d \in DOMAIN idCall' PROVE CallSound(d)'
  <2>1. CASE d \in DOMAIN idCall
    <3>1. DocsKept(n)
      BY <1>5 DEF DocsKept
    <3> QED
      BY <1>3, <1>4, <2>1, <3>1, OthersKept
  <2>2. CASE d = n
    <3>1. step \in {"verified", "saving", "deleting"} => a \in Stored
      <4>1. a # 0 => a \in Stored
        OBVIOUS
      <4> QED
        BY <4>1
    <3>2. step = "saving" => seen \in UserDocs /\ seen = doc[a] /\ a \in Stored
      BY <1>0
    <3>3. step = "saving" => StillSo(n)'
      BY <1>2, <1>3, <3>2 DEF StillSo
    <3>4. step = "received" => temp' = n
      BY <1>3
    <3> QED
      BY <1>2, <1>3, <1>5, <2>2, <3>1, <3>2, <3>3, <3>4 DEF CallSound
  <2> QED
    BY <1>4, <2>1, <2>2
<1>11. ASSUME NEW d \in DOMAIN idCall' PROVE SignInAlone(d)'
  <2>0. \A j : (Known(j))' = Known(j)
    BY <1>5 DEF Known
  <2>1. CASE d = n
    <3>1. \A g \in InFlight' \ {n} : g \in InFlight /\ idCall'[g] = idCall[g]
      BY <1>0, <1>3, <1>9
    <3> QED
      BY <1>2, <1>3, <2>0, <2>1, <3>1 DEF SignInAlone
  <2>2. CASE d # n
    <3>1. d \in DOMAIN idCall /\ SignInAlone(d) /\ idCall'[d] = idCall[d]
      BY <1>3, <1>4, <2>2 DEF IdentitiesInv
    <3>2. ASSUME idCall[d].kind = "signIn", d \in InFlight', idCall[d].id \notin overlapped'
          PROVE  /\ Known(idCall[d].id) = {}
                 /\ \A g \in InFlight' \ {d} : idCall'[g].kind = "signIn" => idCall'[g].id # idCall[d].id
      <4>1. d \in InFlight /\ idCall[d].id \notin overlapped
        BY <1>9, <2>2, <3>2
      <4>2. /\ Known(idCall[d].id) = {}
            /\ \A g \in InFlight \ {d} : idCall[g].kind = "signIn" => idCall[g].id # idCall[d].id
        BY <3>1, <3>2, <4>1 DEF SignInAlone
      <4>3. ASSUME NEW g \in InFlight' \ {d}, idCall'[g].kind = "signIn"
            PROVE  idCall'[g].id # idCall[d].id
        <5>1. CASE g = n
          BY <1>2, <1>3, <3>2, <4>1, <4>3, <5>1
        <5>2. CASE g # n
          BY <1>0, <1>3, <1>9, <4>2, <4>3, <5>2
        <5> QED
          BY <5>1, <5>2
      <4> QED
        BY <4>2, <4>3
    <3> QED
      BY <2>0, <3>1, <3>2 DEF SignInAlone
  <2> QED
    BY <2>1, <2>2
<1>12. ASSUME NEW b \in Stored' PROVE DeletionAlone(b)' /\ HashListed(b)'
  <2>1. HashListed(b)'
    BY <1>5 DEF IdentitiesInv, HashListed
  <2>2. ASSUME b \notin crossed'
        PROVE  /\ \A g, d \in InFlight' :
                   g # d /\ idCall'[g].target = b /\ idCall'[d].target = b
                       => idCall'[g].kind # "delete"
               /\ doc[b].deleted =>
                   \A g \in InFlight' : idCall'[g].target = b => idCall'[g].kind = "reset"
    <3>1. /\ \A g, d \in InFlight :
               g # d /\ idCall[g].target = b /\ idCall[d].target = b
                   => idCall[g].kind # "delete"
          /\ doc[b].deleted =>
               \A g \in InFlight : idCall[g].target = b => idCall[g].kind = "reset"
      BY <1>5, <1>6, <2>2 DEF IdentitiesInv, DeletionAlone
    <3>2. \A g \in InFlight : idCall'[g] = idCall[g] /\ g # n
      BY <1>0, <1>3, <1>4
    <3>3. a = b => a # 0
      BY <1>5 DEF Stored
    <3>4. ASSUME NEW g \in InFlight', NEW d \in InFlight', g # d,
                 idCall'[g].target = b, idCall'[d].target = b
          PROVE  idCall'[g].kind # "delete"
      <4>1. CASE g = n
        BY <1>2, <1>3, <1>6, <1>9, <2>2, <3>2, <3>3, <3>4, <4>1
      <4>2. CASE d = n
        BY <1>2, <1>3, <1>6, <1>9, <2>2, <3>2, <3>3, <3>4, <4>2
      <4>3. CASE g # n /\ d # n
        BY <1>9, <3>1, <3>2, <3>4, <4>3
      <4> QED
        BY <4>1, <4>2, <4>3
    <3>5. ASSUME doc[b].deleted, NEW g \in InFlight', idCall'[g].target = b
          PROVE  idCall'[g].kind = "reset"
      <4>1. CASE g = n
        BY <1>2, <1>3, <3>3, <3>5, <4>1
      <4>2. CASE g # n
        BY <1>9, <3>1, <3>2, <3>5, <4>2
      <4> QED
        BY <4>1, <4>2
    <3> QED
      BY <3>4, <3>5
  <2> QED
    BY <2>1, <2>2 DEF DeletionAlone
<1>13. IdentityIsOnes' /\ DeletedLetsGo'
  BY <1>5, <1>6 DEF IdentitiesInv, IdentityIsOnes, DeletedLetsGo
<1> QED
  BY <1>8, <1>10, <1>11, <1>12, <1>13 DEF IdentitiesInv

LEMMA Quiet ==
    ASSUME IdentitiesInv, doc' = doc, temp' = temp, mailed' \subseteq Stored, idCall' = idCall,
           UNCHANGED idHistory
    PROVE  IdentitiesInv'
<1>1. /\ Stored' = Stored /\ IdCallStates' = IdCallStates /\ InFlight' = InFlight
      /\ \A i : (Known(i))' = Known(i)
      /\ overlapped' = overlapped /\ mixed' = mixed /\ crossed' = crossed /\ disturbed' = disturbed
  BY DEF Stored, IdCallStates, InFlight, Known, idHistory
<1>2. IdentitiesTypeOK'
  BY <1>1 DEF IdentitiesInv, IdentitiesTypeOK
<1>3. ASSUME NEW c \in DOMAIN idCall PROVE CallSound(c)' /\ SignInAlone(c)'
  <2>1. CallSound(c)
    BY DEF IdentitiesInv
  <2>2. CallSound(c)'
    BY <1>1, <2>1 DEF CallSound, StillSo, Works
  <2>3. SignInAlone(c)'
    BY <1>1 DEF IdentitiesInv, SignInAlone
  <2> QED
    BY <2>2, <2>3
<1>4. ASSUME NEW a \in Stored PROVE DeletionAlone(a)' /\ HashListed(a)'
  BY <1>1 DEF IdentitiesInv, DeletionAlone, HashListed
<1>5. IdentityIsOnes' /\ DeletedLetsGo'
  BY <1>1 DEF IdentitiesInv, IdentityIsOnes, DeletedLetsGo
<1> QED
  BY <1>1, <1>2, <1>3, <1>4, <1>5 DEF IdentitiesInv

LEMMA DocsSame ==
    ASSUME doc' = doc, disturbed' = disturbed, NEW c
    PROVE  Stored' = Stored /\ DocsKept(c) /\ IdsKept(c) /\ IdCallStates' = IdCallStates
BY DEF Stored, DocsKept, IdsKept, IdCallStates

\* A step of a call that writes no account.
LEMMA PlainKeeps ==
    ASSUME IdentitiesInv, NEW c \in InFlight, NEW k \in IdCallStates,
           idCall' = [idCall EXCEPT ![c] = k],
           k.kind = idCall[c].kind, k.id = idCall[c].id,
           doc' = doc, temp' \in {0, temp}, mailed' \subseteq mailed, overlapped' = overlapped,
           mixed' = mixed, disturbed' = disturbed, CallSound(c)',
           \/ /\ crossed' = crossed
              /\ k.step \in {"accepted", "ended"} \/ k.target = idCall[c].target
           \/ /\ k.target \in Stored /\ k.kind # "delete" /\ Meet(k.kind, k.target)
              /\ k.target \notin crossed => ~ doc[k.target].deleted
    PROVE  IdentitiesInv'
<1>1. Stored' = Stored /\ DocsKept(c) /\ IdsKept(c) /\ IdCallStates' = IdCallStates
  BY DocsSame
<1>2. /\ doc' \in Seq(UserDocs) /\ Len(doc') <= MaxDocs /\ disturbed' \subseteq Callers
      /\ crossed \subseteq crossed' /\ crossed' \subseteq Stored
  BY DEF IdentitiesInv, IdentitiesTypeOK, Meet
<1>3. \A a \in Stored' : HashListed(a)'
  BY <1>1 DEF IdentitiesInv, HashListed
<1>4. ASSUME NEW a \in Stored' \ crossed'
      PROVE  /\ doc'[a].deleted => LetsGo(doc'[a])
             /\ doc'[a].deleted => a \in Stored /\ doc[a].deleted
             /\ k.step \notin {"accepted", "ended"} /\ k.target = a =>
                  \/ idCall[c].target = a
                  \/ /\ ~ doc'[a].deleted /\ k.kind # "delete"
                     /\ \A d \in InFlight : idCall[d].target = a => idCall[d].kind # "delete"
  <2>1. a \in Stored /\ a \notin crossed
    BY <1>1, <1>2
  <2>2. doc[a].deleted => LetsGo(doc[a])
    BY <2>1 DEF IdentitiesInv, DeletedLetsGo, LetsGo
  <2>3. ASSUME k.step \notin {"accepted", "ended"}, k.target = a, idCall[c].target # a
        PROVE  /\ ~ doc[a].deleted /\ k.kind # "delete"
               /\ \A d \in InFlight : idCall[d].target = a => idCall[d].kind # "delete"
    BY <2>1, <2>3 DEF Meet
  <2> QED
    BY <2>1, <2>2, <2>3
<1> QED
  BY <1>1, <1>2, <1>3, <1>4, StepKeeps

\* What a call is known by, once it has ended.
LEMMA EndedSound ==
    ASSUME IdentitiesInv, NEW c \in InFlight, mixed' = mixed,
           idCall' = [idCall EXCEPT ![c] = [idCall[c] EXCEPT !.step = "ended"]]
    PROVE  /\ [idCall[c] EXCEPT !.step = "ended"] \in IdCallStates
           /\ CallSound(c)'
<1>1. /\ c \in DOMAIN idCall /\ idCall[c] \in IdCallStates /\ CallSound(c)
      /\ idCall \in Seq(IdCallStates)
  BY Lengths DEF IdentitiesInv, IdentitiesTypeOK
<1>2. PICK k : k = [idCall[c] EXCEPT !.step = "ended"]
  OBVIOUS
<1>3. /\ k \in IdCallStates /\ k.step = "ended" /\ k.kind = idCall[c].kind
      /\ k.email = idCall[c].email /\ k.id = idCall[c].id /\ k.picture = idCall[c].picture
  BY <1>1, <1>2 DEF IdCallStates, Steps
<1>4. idCall'[c] = k
  BY <1>1, <1>2
<1>5. CallSound(c)'
  BY <1>1, <1>3, <1>4 DEF CallSound
<1> QED
  BY <1>2, <1>3, <1>5

\* A call that ends and writes nothing.
LEMMA EndKeeps ==
    ASSUME IdentitiesInv, NEW c \in InFlight, End(c), doc' = doc, temp' \in {0, temp},
           mailed' \subseteq mailed, UNCHANGED idHistory
    PROVE  IdentitiesInv'
<1>1. PICK k : k = [idCall[c] EXCEPT !.step = "ended"]
  OBVIOUS
<1>2. idCall' = [idCall EXCEPT ![c] = [idCall[c] EXCEPT !.step = "ended"]]
  BY DEF End, Step
<1>3. k \in IdCallStates /\ CallSound(c)'
  BY <1>1, <1>2, EndedSound DEF idHistory
<1>4. c \in DOMAIN idCall /\ idCall[c] \in IdCallStates
  BY Lengths DEF IdentitiesInv
<1>5. k.step = "ended" /\ k.kind = idCall[c].kind /\ k.id = idCall[c].id
  BY <1>1, <1>4 DEF IdCallStates
<1>6. /\ overlapped' = overlapped /\ mixed' = mixed /\ crossed' = crossed
      /\ disturbed' = disturbed
  BY DEF idHistory
<1>7. idCall' = [idCall EXCEPT ![c] = k]
  BY <1>1, <1>2
<1> QED
  BY <1>3, <1>5, <1>6, <1>7, PlainKeeps

LEMMA BeginSteps ==
    ASSUME IdentitiesInv,
           \/ \E e \in Emails :
                \/ Register(e) \/ Appoint(e)
                \/ \E i \in Ids : SignInWith(i, e)
                \/ \E a \in Stored : Authenticate(a, "rename", e)
           \/ \E a \in Stored :
                Authenticate(a, "change", Nothing) \/ LoadToReset(a) \/ LoadToDelete(a)
    PROVE  IdentitiesInv'
<1>0. /\ Len(idCall) \in Nat /\ idCall \in Seq(IdCallStates) /\ InFlight \subseteq DOMAIN idCall
      /\ DOMAIN idCall \subseteq Callers /\ \A a \in Stored : doc[a] \in UserDocs
      /\ \A a \in Stored : a # 0
      /\ temp \in {0} \cup Callers /\ overlapped \subseteq Ids /\ mixed \subseteq Callers
      /\ mailed \subseteq Stored
  BY Lengths DEF IdentitiesInv, IdentitiesTypeOK, Stored
<1>1. \A d \in DOMAIN idCall :
          idCall[d].step \in {"received", "uploading"} /\ d \notin mixed => temp \in {0, d}
  BY DEF IdentitiesInv, CallSound
<1>2. ASSUME NEW e \in Emails, Register(e) PROVE IdentitiesInv'
  <2> DEFINE at == {d \in InFlight : idCall[d].step \in {"received", "uploading", "uploaded"}}
  <2>1. /\ Begin("register", "received", e, Nothing, 0, Nothing)
        /\ temp' = Len(idCall') /\ doc' = doc /\ mailed' = mailed /\ overlapped' = overlapped
        /\ crossed' = crossed /\ disturbed' = disturbed
        /\ mixed' = IF at = {} THEN mixed ELSE mixed \cup at \cup {Len(idCall')}
    BY <1>2 DEF Register, Received
  <2>2. Len(idCall') = Len(idCall) + 1 /\ Len(idCall) < MaxIdCalls
    <3>1. PICK k : k = [kind |-> "register", step |-> "received", email |-> e, id |-> Nothing,
                        picture |-> 0, target |-> 0, seen |-> Nothing]
      OBVIOUS
    <3>3. idCall' = Append(idCall, k) /\ Len(idCall) < MaxIdCalls
      BY <2>1, <3>1 DEF Begin
    <3>2. k \in IdCallStates
      BY <3>1 DEF IdCallStates, Kinds, Steps
    <3> QED
      BY <1>0, <3>2, <3>3, AppendProperties
  <2>3. Len(idCall') \in Callers
    BY <1>0, <2>2, IdentitiesAssumption DEF Callers
  <2>4. at \subseteq Callers
    BY <1>0
  <2>5. mixed \subseteq mixed' /\ mixed' \subseteq Callers
    BY <1>0, <2>1, <2>3, <2>4
  <2>6. ASSUME NEW d \in DOMAIN idCall, idCall[d].step \in {"received", "uploading"}
        PROVE  d \in mixed'
    <3>1. d \in at
      BY <1>0, <2>6 DEF InFlight
    <3> QED
      BY <2>1, <3>1
  <2> HIDE DEF at
  <2> QED
    BY <2>1, <2>3, <2>5, <2>6, <1>0, BeginKeeps DEF Kinds, Steps
<1>3. ASSUME NEW e \in Emails, Appoint(e) PROVE IdentitiesInv'
  <2>1. /\ Begin("appoint", "creating", e, Nothing, 0, Nothing)
        /\ temp' = temp /\ doc' = doc /\ mailed' = mailed /\ overlapped' = overlapped
        /\ mixed' = mixed /\ crossed' = crossed /\ disturbed' = disturbed
    BY <1>3 DEF Appoint, idHistory
  <2> QED
    BY <1>0, <1>1, <2>1, BeginKeeps DEF Kinds, Steps
<1>4. ASSUME NEW e \in Emails, NEW i \in Ids, SignInWith(i, e) PROVE IdentitiesInv'
  <2>1. /\ Begin("signIn", "unknown", e, i, 0, Nothing) /\ Known(i) = {}
        /\ temp' = temp /\ doc' = doc /\ mailed' = mailed
        /\ mixed' = mixed /\ crossed' = crossed /\ disturbed' = disturbed
        /\ overlapped' = IF \E d \in InFlight : idCall[d].id = i
                         THEN overlapped \cup {i} ELSE overlapped
    BY <1>4 DEF SignInWith
  <2>2. /\ overlapped \subseteq overlapped' /\ overlapped' \subseteq Ids
        /\ i \in overlapped' \/ \A d \in InFlight : idCall[d].id # i
    BY <1>0, <2>1
  <2> QED
    BY <1>0, <1>1, <2>1, <2>2, BeginKeeps DEF Kinds, Steps
<1>5. ASSUME NEW a \in Stored, NEW kind \in {"rename", "change"}, NEW e \in Emails \cup {Nothing},
             kind = "rename" => e \in Emails, Authenticate(a, kind, e)
      PROVE  IdentitiesInv'
  <2>1. /\ Begin(kind, "verified", e, Nothing, a, Nothing) /\ Meet(kind, a)
        /\ ~ doc[a].deleted
        /\ temp' = temp /\ doc' = doc /\ mailed' = mailed /\ overlapped' = overlapped
        /\ mixed' = mixed /\ disturbed' = disturbed
    BY <1>5 DEF Authenticate, Shut
  <2>2. /\ kind \in Kinds /\ "verified" \in Steps /\ a \in {0} \cup Stored /\ a # 0
        /\ temp' \in {0} \cup Callers /\ kind \notin {"signIn", "register", "appoint"}
    BY <1>0, <1>5, <2>1 DEF Kinds, Steps
  <2> QED
    BY <1>0, <1>1, <1>5, <2>1, <2>2, BeginKeeps
<1>6. ASSUME NEW a \in Stored, LoadToReset(a) PROVE IdentitiesInv'
  <2>1. /\ Begin("reset", "saving", doc[a].email, Nothing, a, doc[a]) /\ Meet("reset", a)
        /\ temp' = temp /\ doc' = doc /\ mailed' = mailed /\ overlapped' = overlapped
        /\ mixed' = mixed /\ disturbed' = disturbed
    BY <1>6 DEF LoadToReset
  <2>0. PICK e, seen : e = doc[a].email /\ seen = doc[a]
    OBVIOUS
  <2>2. e \in Emails \cup {Nothing} /\ seen \in UserDocs
    BY <1>0, <2>0 DEF UserDocs
  <2>3. Begin("reset", "saving", e, Nothing, a, seen)
    BY <2>0, <2>1
  <2> QED
    BY <1>0, <1>1, <2>0, <2>1, <2>2, <2>3, BeginKeeps DEF Kinds, Steps
<1>7. ASSUME NEW a \in Stored, LoadToDelete(a) PROVE IdentitiesInv'
  <2>0. PICK seen : seen = doc[a]
    OBVIOUS
  <2>1. /\ Begin("delete", "deleting", Nothing, Nothing, a, seen) /\ Meet("delete", a)
        /\ ~ doc[a].deleted
        /\ temp' = temp /\ doc' = doc /\ mailed' = mailed /\ overlapped' = overlapped
        /\ mixed' = mixed /\ disturbed' = disturbed
    BY <1>7, <2>0 DEF LoadToDelete
  <2> QED
    BY <1>0, <1>1, <2>0, <2>1, BeginKeeps DEF Kinds, Steps
<1> QED
  BY <1>2, <1>3, <1>4, <1>5, <1>6, <1>7

\* What a call writes over account a.
LEMMA Written ==
    ASSUME IdentitiesInv, NEW c, NEW a \in Stored, NEW d \in UserDocs, Write(c, a, d),
           doc[a].local \/ doc[a].deleted => d.local \/ d.deleted, d.ids \subseteq doc[a].ids
    PROVE  /\ doc' \in Seq(UserDocs) /\ Len(doc') <= MaxDocs
           /\ Stored' = Stored /\ IdCallStates' = IdCallStates
           /\ doc'[a] = d /\ \A b \in Stored \ {a} : doc'[b] = doc[b]
           /\ DocsKept(c) /\ IdsKept(c)
           /\ disturbed' \subseteq Callers /\ (c \in disturbed' <=> c \in disturbed)
<1>0. /\ Len(idCall) \in Nat /\ DOMAIN idCall = 1..Len(idCall) /\ DOMAIN idCall \subseteq Callers
      /\ doc \in Seq(UserDocs) /\ Len(doc) \in Nat /\ DOMAIN doc = Stored
      /\ disturbed \subseteq Callers /\ Len(doc) <= MaxDocs
  BY Lengths DEF IdentitiesInv, IdentitiesTypeOK
<1>1. /\ doc' = [doc EXCEPT ![a] = d]
      /\ disturbed' = disturbed \cup {b \in 1..Len(idCall) : b # c /\ idCall[b].target = a}
  BY DEF Write
<1>2. /\ doc' \in Seq(UserDocs) /\ Len(doc') = Len(doc)
      /\ doc'[a] = d /\ \A b \in Stored \ {a} : doc'[b] = doc[b]
  BY <1>0, <1>1, ExceptSeq
<1>3. Stored' = Stored
  BY <1>2 DEF Stored
<1>4. IdCallStates' = IdCallStates
  BY <1>3 DEF IdCallStates
<1>5. DocsKept(c)
  <2>1. \A e \in DOMAIN idCall \ {c} : idCall[e].target = a => e \in disturbed'
    BY <1>0, <1>1
  <2>2. ASSUME NEW b \in Stored
        PROVE  /\ doc[b].local \/ doc[b].deleted => doc'[b].local \/ doc'[b].deleted
               /\ \/ /\ doc'[b].email = doc[b].email /\ doc'[b].password = doc[b].password
                     /\ doc'[b].banned = doc[b].banned /\ doc'[b].deleted = doc[b].deleted
                  \/ \A e \in DOMAIN idCall \ {c} : idCall[e].target = b => e \in disturbed'
    BY <1>2, <2>1
  <2> QED
    BY <1>1, <1>3, <2>2 DEF DocsKept
<1>6. IdsKept(c)
  <2>1. \A b \in Stored : doc'[b].ids \subseteq doc[b].ids
    BY <1>2
  <2> QED
    BY <1>3, <2>1 DEF IdsKept
<1> QED
  BY <1>0, <1>1, <1>2, <1>3, <1>4, <1>5, <1>6

\* An account that a call other than a reset is at, and that is not crossed, is there.
LEMMA NotDeleted ==
    ASSUME IdentitiesInv, NEW c \in InFlight, idCall[c].target \in Stored,
           idCall[c].kind # "reset", idCall[c].target \notin crossed
    PROVE  ~ doc[idCall[c].target].deleted
BY DEF IdentitiesInv, DeletionAlone

\* A call that has written account a and is done.
LEMMA WriteKeeps ==
    ASSUME IdentitiesInv, NEW c \in InFlight, NEW a \in Stored, NEW d \in UserDocs,
           Write(c, a, d), a = idCall[c].target,
           doc[a].local \/ doc[a].deleted => d.local \/ d.deleted, d.ids \subseteq doc[a].ids,
           d.password # Nothing /\ d.password.hashed => d.local \/ d.deleted,
           a \notin crossed =>
               /\ d.deleted => LetsGo(d)
               /\ d.deleted => doc[a].deleted \/ idCall[c].kind = "delete",
           NEW k \in IdCallStates, idCall' = [idCall EXCEPT ![c] = k],
           k.kind = idCall[c].kind, k.id = idCall[c].id, k.step \in {"accepted", "ended"},
           temp' = temp, mailed' \subseteq mailed, overlapped' = overlapped,
           mixed' = mixed, crossed' = crossed, CallSound(c)'
    PROVE  IdentitiesInv'
<1>1. /\ doc' \in Seq(UserDocs) /\ Len(doc') <= MaxDocs
      /\ Stored' = Stored /\ IdCallStates' = IdCallStates
      /\ doc'[a] = d /\ \A b \in Stored \ {a} : doc'[b] = doc[b]
      /\ DocsKept(c) /\ IdsKept(c) /\ disturbed' \subseteq Callers
  BY Written
<1>2. \A b \in Stored' : HashListed(b)'
  <2>1. \A b \in Stored : HashListed(b)
    BY DEF IdentitiesInv
  <2> QED
    BY <1>1, <2>1 DEF HashListed
<1>3. ASSUME NEW b \in Stored' \ crossed'
      PROVE  /\ doc'[b].deleted => LetsGo(doc'[b])
             /\ doc'[b].deleted =>
                    \/ b \in Stored /\ doc[b].deleted
                    \/ k.step \in {"accepted", "ended"} /\ idCall[c].kind = "delete" /\ idCall[c].target = b
  <2>1. CASE b = a
    BY <1>1, <1>3, <2>1
  <2>2. CASE b # a
    BY <1>1, <1>3, <2>2 DEF IdentitiesInv, DeletedLetsGo, LetsGo
  <2> QED
    BY <2>1, <2>2
<1>4. crossed \subseteq crossed' /\ crossed' \subseteq Stored /\ temp' \in {0, temp}
  BY DEF IdentitiesInv, IdentitiesTypeOK
<1> QED
  BY <1>1, <1>2, <1>3, <1>4, StepKeeps

\* A call that has been accepted for account a.
LEMMA AcceptedCall ==
    ASSUME IdentitiesInv, NEW c \in InFlight, NEW e \in Emails \cup {Nothing}, NEW a \in Stored',
           Accept(c, e, a), Stored \subseteq Stored'
    PROVE  \E k \in IdCallStates' :
               /\ idCall' = [idCall EXCEPT ![c] = k] /\ idCall'[c] = k
               /\ k.kind = idCall[c].kind /\ k.id = idCall[c].id /\ k.seen = idCall[c].seen
               /\ k.picture = idCall[c].picture
               /\ k.step = "accepted" /\ k.email = e /\ k.target = a
<1>1. /\ c \in DOMAIN idCall /\ idCall[c] \in IdCallStates'
  BY Lengths, StatesGrow DEF IdentitiesInv
<1>2. PICK k : k = [idCall[c] EXCEPT !.step = "accepted", !.email = e, !.target = a]
  OBVIOUS
<1>3. idCall' = [idCall EXCEPT ![c] = k] /\ idCall'[c] = k
  BY <1>1, <1>2 DEF Accept
<1>4. /\ k \in IdCallStates'
      /\ k.kind = idCall[c].kind /\ k.id = idCall[c].id /\ k.seen = idCall[c].seen
      /\ k.picture = idCall[c].picture
      /\ k.step = "accepted" /\ k.email = e /\ k.target = a
  BY <1>1, <1>2 DEF IdCallStates, Steps
<1> QED
  BY <1>3, <1>4

LEMMA LinkPasswordKeeps ==
    ASSUME IdentitiesInv, NEW c \in InFlight, LinkPassword(c)
    PROVE  IdentitiesInv'
<1>1. PICK a, e, seen : a = idCall[c].target /\ e = idCall[c].email /\ seen = idCall[c].seen
  OBVIOUS
<1>2. /\ c \in DOMAIN idCall /\ idCall[c] \in IdCallStates /\ c \in Callers
  BY Lengths DEF IdentitiesInv
<1>3. /\ idCall[c].kind = "register" /\ idCall[c].step = "linking"
      /\ Write(c, a, WithPassword(doc[a], seen, c)) /\ Accept(c, e, a)
      /\ temp' = temp /\ mailed' = mailed /\ overlapped' = overlapped /\ mixed' = mixed
      /\ crossed' = crossed
  BY <1>1 DEF LinkPassword, Stands
<1>4. /\ a \in Stored /\ e \in Emails /\ seen \in UserDocs /\ seen.email = e
      /\ seen.local => doc[a].local \/ doc[a].deleted
      /\ c \notin disturbed => StillSo(c)
      /\ idCall[c].picture \in {0, c} \/ c \in mixed
  BY <1>1, <1>2, <1>3 DEF IdentitiesInv, CallSound
<1>5. doc[a] \in UserDocs
  BY <1>4, Lengths DEF IdentitiesInv
<1>6. PICK d : d = WithPassword(doc[a], seen, c)
  OBVIOUS
<1>7. /\ d \in UserDocs /\ d.email = doc[a].email /\ d.ids = doc[a].ids
      /\ d.banned = doc[a].banned /\ d.deleted = doc[a].deleted
      /\ d.password = [by |-> c, hashed |-> TRUE]
      /\ d.local <=> doc[a].local \/ ~ seen.local
  <2>1. d = [doc[a] EXCEPT !.password = [by |-> c, hashed |-> TRUE],
                           !.local = @ \/ ~ seen.local,
                           !.version = @ + (IF seen.local THEN 0 ELSE 1)]
    BY <1>6 DEF WithPassword
  <2>2. doc[a].local \in BOOLEAN /\ doc[a].version \in Nat
        /\ doc[a].version + (IF seen.local THEN 0 ELSE 1) \in Nat
    BY <1>5 DEF UserDocs
  <2>3. [by |-> c, hashed |-> TRUE] \in [by : {0} \cup Callers, hashed : BOOLEAN]
    BY <1>2
  <2> QED
    BY <1>5, <2>1, <2>2, <2>3 DEF UserDocs
<1>8. Write(c, a, d)
  BY <1>3, <1>6
<1>9. doc[a].local \/ doc[a].deleted => d.local \/ d.deleted
  BY <1>4, <1>5, <1>7 DEF UserDocs
<1>10. /\ Stored' = Stored /\ IdCallStates' = IdCallStates /\ doc'[a] = d
       /\ c \in disturbed' <=> c \in disturbed
  BY <1>4, <1>7, <1>8, <1>9, Written
<1>11. PICK k \in IdCallStates :
           /\ idCall' = [idCall EXCEPT ![c] = k] /\ idCall'[c] = k
           /\ k.kind = "register" /\ k.id = idCall[c].id /\ k.seen = seen
           /\ k.picture = idCall[c].picture
           /\ k.step = "accepted" /\ k.email = e /\ k.target = a
  BY <1>1, <1>3, <1>4, <1>10, AcceptedCall
<1>12. ASSUME c \notin disturbed' PROVE Works(c)'
  <2>1. doc[a].email = e /\ doc[a].banned = seen.banned /\ doc[a].deleted = seen.deleted
    BY <1>1, <1>4, <1>10, <1>12 DEF StillSo
  <2>2. CASE Shut(seen)
    BY <1>4, <1>11, <2>2, NothingIsNoDocument DEF Works
  <2>3. CASE ~ Shut(seen)
    BY <1>7, <1>10, <1>11, <2>1, <2>3 DEF Works, Shut
  <2> QED
    BY <2>2, <2>3
<1>13. CallSound(c)'
  BY <1>3, <1>4, <1>10, <1>11, <1>12 DEF CallSound
<1>14. a \notin crossed => ~ d.deleted
  BY <1>1, <1>3, <1>4, <1>7, NotDeleted
<1>15. d.local \/ d.deleted
  BY <1>4, <1>7
<1> QED
  BY <1>1, <1>3, <1>4, <1>7, <1>8, <1>9, <1>11, <1>13, <1>14, <1>15, WriteKeeps

\* A call that has ended after writing account a.
LEMMA EndedCall ==
    ASSUME IdentitiesInv, NEW c \in InFlight, End(c), mixed' = mixed
    PROVE  /\ CallSound(c)'
           /\ \E k \in IdCallStates :
               /\ idCall' = [idCall EXCEPT ![c] = k] /\ k.step = "ended"
               /\ k.kind = idCall[c].kind /\ k.id = idCall[c].id
<1>1. c \in DOMAIN idCall /\ idCall[c] \in IdCallStates
  BY Lengths DEF IdentitiesInv
<1>2. PICK k : k = [idCall[c] EXCEPT !.step = "ended"]
  OBVIOUS
<1>3. idCall' = [idCall EXCEPT ![c] = [idCall[c] EXCEPT !.step = "ended"]]
  BY DEF End, Step
<1>4. CallSound(c)' /\ k \in IdCallStates
  BY <1>2, <1>3, EndedSound
<1>5. k.kind = idCall[c].kind /\ k.id = idCall[c].id /\ k.step = "ended"
  BY <1>1, <1>2 DEF IdCallStates
<1> QED
  BY <1>2, <1>3, <1>4, <1>5

LEMMA RenameKeeps ==
    ASSUME IdentitiesInv, NEW c \in InFlight, Rename(c)
    PROVE  IdentitiesInv'
<1>1. PICK a, e : a = idCall[c].target /\ e = idCall[c].email
  OBVIOUS
<1>2. /\ idCall[c].kind = "rename" /\ idCall[c].step = "verified"
      /\ IF WithEmail(e) \subseteq {a}
         THEN Write(c, a, [doc[a] EXCEPT !.email = e]) ELSE doc' = doc /\ disturbed' = disturbed
      /\ End(c) /\ temp' = temp /\ mailed' = mailed /\ overlapped' = overlapped
      /\ mixed' = mixed /\ crossed' = crossed
  BY <1>1 DEF Rename, Stands
<1>3. CASE ~ WithEmail(e) \subseteq {a}
  BY <1>2, <1>3, EndKeeps DEF idHistory
<1>4. CASE WithEmail(e) \subseteq {a}
  <2>1. c \in DOMAIN idCall /\ a \in Stored /\ e \in Emails
    BY <1>1, <1>2, Lengths DEF IdentitiesInv, CallSound
  <2>2. doc[a] \in UserDocs
    BY <2>1, Lengths DEF IdentitiesInv
  <2>3. PICK d : d = [doc[a] EXCEPT !.email = e]
    OBVIOUS
  <2>4. /\ d \in UserDocs /\ d.ids = doc[a].ids /\ d.local = doc[a].local
        /\ d.password = doc[a].password /\ d.deleted = doc[a].deleted
    BY <2>1, <2>2, <2>3 DEF UserDocs
  <2>5. Write(c, a, d)
    BY <1>2, <1>4, <2>3
  <2>6. a \notin crossed => ~ d.deleted
    BY <1>1, <1>2, <2>1, <2>4, NotDeleted
  <2>7. d.password # Nothing /\ d.password.hashed => d.local \/ d.deleted
    BY <2>1, <2>4 DEF IdentitiesInv, HashListed
  <2>8. PICK k \in IdCallStates :
            /\ idCall' = [idCall EXCEPT ![c] = k] /\ k.step = "ended"
            /\ k.kind = idCall[c].kind /\ k.id = idCall[c].id
    BY <1>2, EndedCall
  <2>9. CallSound(c)'
    BY <1>2, EndedCall
  <2> QED
    BY <1>1, <1>2, <2>1, <2>4, <2>5, <2>6, <2>7, <2>8, <2>9, WriteKeeps
<1> QED
  BY <1>3, <1>4

LEMMA SaveDeletionKeeps ==
    ASSUME IdentitiesInv, NEW c \in InFlight, SaveDeletion(c)
    PROVE  IdentitiesInv'
<1>1. PICK a : a = idCall[c].target
  OBVIOUS
<1>2. /\ idCall[c].kind = "delete" /\ idCall[c].step = "deleting"
      /\ \/ Write(c, a, Forgotten(doc[a]))
         \/ doc' = doc /\ disturbed' = disturbed
      /\ End(c) /\ temp' = temp /\ mailed' = mailed /\ overlapped' = overlapped
      /\ mixed' = mixed /\ crossed' = crossed
  BY <1>1 DEF SaveDeletion, Stands
<1>3. CASE doc' = doc /\ disturbed' = disturbed
  BY <1>2, <1>3, EndKeeps DEF idHistory
<1>4. CASE Write(c, a, Forgotten(doc[a]))
  <2>1. c \in DOMAIN idCall /\ a \in Stored
    BY <1>1, <1>2, Lengths DEF IdentitiesInv, CallSound
  <2>2. doc[a] \in UserDocs
    BY <2>1, Lengths DEF IdentitiesInv
  <2>3. PICK d : d = Forgotten(doc[a])
    OBVIOUS
  <2>4. d \in UserDocs /\ d.ids = {} /\ d.deleted /\ LetsGo(d)
    <3>1. d = [doc[a] EXCEPT !.email = Nothing, !.ids = {}, !.local = FALSE, !.avatar = 0,
                             !.banned = TRUE, !.deleted = TRUE, !.version = @ + 1]
      BY <2>3 DEF Forgotten
    <3>2. doc[a].version + 1 \in Nat
      BY <2>2 DEF UserDocs
    <3>3. d \in UserDocs
      BY <2>2, <3>1, <3>2 DEF UserDocs
    <3>4. d.ids = {} /\ d.deleted /\ d.email = Nothing /\ d.local = FALSE
      BY <2>2, <3>1 DEF UserDocs
    <3> QED
      BY <3>3, <3>4 DEF LetsGo
  <2>5. Write(c, a, d)
    BY <1>4, <2>3
  <2>8. PICK k \in IdCallStates :
            /\ idCall' = [idCall EXCEPT ![c] = k] /\ k.step = "ended"
            /\ k.kind = idCall[c].kind /\ k.id = idCall[c].id
    BY <1>2, EndedCall
  <2>9. CallSound(c)'
    BY <1>2, EndedCall
  <2> QED
    BY <1>1, <1>2, <2>1, <2>4, <2>5, <2>8, <2>9, WriteKeeps
<1> QED
  BY <1>2, <1>3, <1>4

LEMMA SavePasswordKeeps ==
    ASSUME IdentitiesInv, NEW c \in InFlight, SavePassword(c)
    PROVE  IdentitiesInv'
<1>1. PICK a, seen : a = idCall[c].target /\ seen = idCall[c].seen
  OBVIOUS
<1>2. /\ idCall[c].kind \in {"change", "reset"} /\ idCall[c].step = "saving"
      /\ Write(c, a, [doc[a] EXCEPT !.password = [by |-> c, hashed |-> seen.local]])
      /\ Accept(c, seen.email, a) \/ End(c)
      /\ temp' = temp /\ overlapped' = overlapped /\ mixed' = mixed /\ crossed' = crossed
      /\ mailed' \subseteq mailed
  BY <1>1 DEF SavePassword, Stands, Hashed
<1>3. /\ c \in DOMAIN idCall /\ c \in Callers /\ a \in Stored /\ seen \in UserDocs
      /\ seen.local => doc[a].local \/ doc[a].deleted
      /\ c \notin disturbed => StillSo(c)
      /\ idCall[c].kind = "change" => seen.local \/ seen.deleted
      /\ idCall[c].picture \in {0, c} \/ c \in mixed
  BY <1>1, <1>2, Lengths DEF IdentitiesInv, CallSound
<1>4. doc[a] \in UserDocs
  BY <1>3, Lengths DEF IdentitiesInv
<1>5. PICK d : d = [doc[a] EXCEPT !.password = [by |-> c, hashed |-> seen.local]]
  OBVIOUS
<1>6. /\ d \in UserDocs /\ d.email = doc[a].email /\ d.ids = doc[a].ids /\ d.local = doc[a].local
      /\ d.banned = doc[a].banned /\ d.deleted = doc[a].deleted
      /\ d.password = [by |-> c, hashed |-> seen.local]
  BY <1>3, <1>4, <1>5 DEF UserDocs
<1>7. Write(c, a, d)
  BY <1>2, <1>5
<1>8. /\ Stored' = Stored /\ IdCallStates' = IdCallStates /\ doc'[a] = d
      /\ c \in disturbed' <=> c \in disturbed
  BY <1>3, <1>6, <1>7, Written
<1>9. a \notin crossed /\ d.deleted => LetsGo(d) /\ doc[a].deleted
  BY <1>3, <1>6 DEF IdentitiesInv, DeletedLetsGo, LetsGo
<1>10. d.password # Nothing /\ d.password.hashed => d.local \/ d.deleted
  BY <1>3, <1>6
<1>11. CASE End(c)
  <2>1. PICK k \in IdCallStates :
            /\ idCall' = [idCall EXCEPT ![c] = k] /\ k.step = "ended"
            /\ k.kind = idCall[c].kind /\ k.id = idCall[c].id
    BY <1>2, <1>11, EndedCall
  <2>2. CallSound(c)'
    BY <1>2, <1>11, EndedCall
  <2> QED
    BY <1>1, <1>2, <1>3, <1>6, <1>7, <1>9, <1>10, <2>1, <2>2, WriteKeeps
<1>12. CASE Accept(c, seen.email, a)
  <2>1. PICK e : e = seen.email
    OBVIOUS
  <2>2. e \in Emails \cup {Nothing}
    BY <1>3, <2>1 DEF UserDocs
  <2>3. PICK k \in IdCallStates :
             /\ idCall' = [idCall EXCEPT ![c] = k] /\ idCall'[c] = k
             /\ k.kind = idCall[c].kind /\ k.id = idCall[c].id /\ k.seen = seen
             /\ k.picture = idCall[c].picture
             /\ k.step = "accepted" /\ k.email = e /\ k.target = a
    BY <1>1, <1>3, <1>8, <1>12, <2>1, <2>2, AcceptedCall
  <2>4. ASSUME c \notin disturbed' PROVE Works(c)'
    <3>1. doc[a].email = e /\ doc[a].banned = seen.banned /\ doc[a].deleted = seen.deleted
      BY <1>1, <1>3, <1>8, <2>1, <2>4 DEF StillSo
    <3>2. CASE Shut(seen) \/ (idCall[c].kind = "reset" /\ ~ seen.local)
      BY <1>3, <2>3, <3>2, NothingIsNoDocument DEF Works
    <3>3. CASE ~ Shut(seen) /\ (idCall[c].kind = "reset" => seen.local)
      <4>1. d.password = [by |-> c, hashed |-> TRUE]
        <5>1. seen.local = TRUE
          BY <1>2, <1>3, <3>3 DEF Shut, UserDocs
        <5> QED
          BY <1>6, <5>1
      <4> QED
        BY <1>6, <1>8, <2>3, <3>1, <3>3, <4>1 DEF Works, Shut
    <3> QED
      BY <3>2, <3>3
  <2>5. k.kind \notin {"register", "signIn", "appoint", "rename"}
    BY <1>2, <2>3
  <2>6. CallSound(c)'
    BY <1>2, <1>3, <1>8, <2>3, <2>4, <2>5 DEF CallSound
  <2> QED
    BY <1>1, <1>2, <1>3, <1>6, <1>7, <1>9, <1>10, <2>3, <2>6, WriteKeeps
<1> QED
  BY <1>2, <1>11, <1>12

\* A call that found account a by its address, and will write it.
LEMMA FoundKeeps ==
    ASSUME IdentitiesInv, NEW c \in InFlight, NEW a \in Stored,
           idCall[c].kind \in {"register", "signIn"},
           idCall' = [idCall EXCEPT ![c].step = "linking", ![c].target = a, ![c].seen = doc[a]],
           doc[a].email = idCall[c].email, Meet(idCall[c].kind, a),
           doc' = doc, temp' = temp, mailed' = mailed, overlapped' = overlapped, mixed' = mixed,
           disturbed' = disturbed
    PROVE  IdentitiesInv'
<1>1. /\ c \in DOMAIN idCall /\ idCall[c] \in IdCallStates /\ CallSound(c) /\ doc[a] \in UserDocs
      /\ idCall \in Seq(IdCallStates)
  BY Lengths DEF IdentitiesInv, IdentitiesTypeOK
<1>10. PICK k : k = [idCall[c] EXCEPT !.step = "linking", !.target = a, !.seen = doc[a]]
  OBVIOUS
<1>11. idCall' = [idCall EXCEPT ![c] = k]
  BY <1>10
<1>2. /\ k \in IdCallStates
      /\ k.step = "linking" /\ k.target = a /\ k.seen = doc[a] /\ k.kind = idCall[c].kind
      /\ k.email = idCall[c].email /\ k.id = idCall[c].id /\ k.picture = idCall[c].picture
  BY <1>1, <1>10 DEF IdCallStates, Steps
<1>3. idCall'[c] = k /\ Stored' = Stored
  BY <1>1, <1>11 DEF Stored
<1>4. StillSo(c)'
  BY <1>2, <1>3 DEF StillSo
<1>8. /\ k.kind \in {"register", "signIn"} /\ k.email \in Emails
      /\ k.kind = "signIn" => k.id \in Ids
      /\ k.seen \in UserDocs /\ k.seen.email = k.email
      /\ k.picture \in {0, c} \/ c \in mixed'
  BY <1>1, <1>2 DEF CallSound
<1>9. k.target \in Stored' /\ (k.seen.local => doc'[k.target].local)
  BY <1>2, <1>3
<1>5. CallSound(c)'
  BY <1>2, <1>3, <1>4, <1>8, <1>9 DEF CallSound
<1>6. a \notin crossed => ~ doc[a].deleted
  <2>1. idCall[c].email \in Emails
    BY <1>1 DEF CallSound
  <2> QED
    BY <2>1, IdentitiesAssumption DEF IdentitiesInv, DeletedLetsGo
<1>7. temp' \in {0, temp} /\ mailed' \subseteq mailed /\ k.kind # "delete" /\ Meet(k.kind, a)
  BY <1>2
<1> QED
  BY <1>2, <1>5, <1>6, <1>7, <1>11, PlainKeeps

\* A call that goes on to the next step, keeping what it is known by.
LEMMA StepOnKeeps ==
    ASSUME IdentitiesInv, NEW c \in InFlight, NEW step \in {"uploading", "creating"},
           Step(c, step), idCall[c].kind \in {"register", "signIn"},
           step = "uploading" => idCall[c].step = "received",
           doc' = doc, temp' \in {0, temp}, mailed' = mailed, UNCHANGED idHistory
    PROVE  IdentitiesInv'
<1>1. /\ c \in DOMAIN idCall /\ idCall[c] \in IdCallStates /\ CallSound(c)
      /\ idCall \in Seq(IdCallStates)
  BY Lengths DEF IdentitiesInv, IdentitiesTypeOK
<1>2. PICK k : k = [idCall[c] EXCEPT !.step = step]
  OBVIOUS
<1>3. /\ k \in IdCallStates /\ k.step = step /\ k.kind = idCall[c].kind
      /\ k.email = idCall[c].email /\ k.id = idCall[c].id /\ k.picture = idCall[c].picture
      /\ k.target = idCall[c].target
  BY <1>1, <1>2 DEF IdCallStates, Steps
<1>4. idCall' = [idCall EXCEPT ![c] = k] /\ idCall'[c] = k
  <2>1. idCall' = [idCall EXCEPT ![c].step = step]
    BY DEF Step
  <2> QED
    BY <1>1, <1>2, <2>1
<1>5. /\ overlapped' = overlapped /\ mixed' = mixed /\ crossed' = crossed
      /\ disturbed' = disturbed
  BY DEF idHistory
<1>6. step = "uploading" /\ c \notin mixed => temp' \in {0, c}
  BY <1>1 DEF CallSound
<1>7. CallSound(c)'
  BY <1>1, <1>3, <1>4, <1>5, <1>6 DEF CallSound
<1> QED
  BY <1>3, <1>4, <1>5, <1>7, PlainKeeps

LEMMA FindToRegisterKeeps ==
    ASSUME IdentitiesInv, NEW c \in InFlight, FindToRegister(c)
    PROVE  IdentitiesInv'
<1>1. /\ idCall[c].kind = "register" /\ idCall[c].step = "received"
      /\ doc' = doc /\ temp' = temp /\ mailed' = mailed /\ overlapped' = overlapped
      /\ mixed' = mixed /\ disturbed' = disturbed
      /\ \/ Step(c, "uploading") /\ crossed' = crossed
         \/ End(c) /\ crossed' = crossed
         \/ \E a \in WithEmail(idCall[c].email) :
              /\ idCall' = [idCall EXCEPT ![c].step = "linking", ![c].target = a,
                                          ![c].seen = doc[a]]
              /\ Meet("register", a)
  BY DEF FindToRegister, Stands
<1>2. CASE Step(c, "uploading") /\ crossed' = crossed
  BY <1>1, <1>2, StepOnKeeps DEF idHistory
<1>3. CASE End(c) /\ crossed' = crossed
  BY <1>1, <1>3, EndKeeps DEF idHistory
<1>4. ASSUME NEW a \in WithEmail(idCall[c].email), Meet("register", a),
             idCall' = [idCall EXCEPT ![c].step = "linking", ![c].target = a, ![c].seen = doc[a]]
      PROVE  IdentitiesInv'
  <2>1. a \in Stored /\ doc[a].email = idCall[c].email
    BY DEF WithEmail
  <2>4. Meet(idCall[c].kind, a)
    BY <1>1, <1>4
  <2>5. /\ doc' = doc /\ temp' = temp /\ mailed' = mailed /\ overlapped' = overlapped
        /\ mixed' = mixed /\ disturbed' = disturbed /\ idCall[c].kind \in {"register", "signIn"}
    BY <1>1
  <2> QED
    BY <1>4, <2>1, <2>4, <2>5, FoundKeeps
<1> QED
  BY <1>1, <1>2, <1>3, <1>4

LEMMA FindByEmailKeeps ==
    ASSUME IdentitiesInv, NEW c \in InFlight, FindByEmail(c)
    PROVE  IdentitiesInv'
<1>1. /\ idCall[c].kind = "signIn" /\ idCall[c].step = "unknown"
      /\ doc' = doc /\ temp' = temp /\ mailed' = mailed /\ overlapped' = overlapped
      /\ mixed' = mixed /\ disturbed' = disturbed
      /\ \/ Step(c, "creating") /\ crossed' = crossed
         \/ End(c) /\ crossed' = crossed
         \/ \E a \in WithEmail(idCall[c].email) :
              /\ idCall' = [idCall EXCEPT ![c].step = "linking", ![c].target = a,
                                          ![c].seen = doc[a]]
              /\ Meet("signIn", a)
  BY DEF FindByEmail, Stands
<1>2. CASE Step(c, "creating") /\ crossed' = crossed
  BY <1>1, <1>2, StepOnKeeps DEF idHistory
<1>3. CASE End(c) /\ crossed' = crossed
  BY <1>1, <1>3, EndKeeps DEF idHistory
<1>4. ASSUME NEW a \in WithEmail(idCall[c].email), Meet("signIn", a),
             idCall' = [idCall EXCEPT ![c].step = "linking", ![c].target = a, ![c].seen = doc[a]]
      PROVE  IdentitiesInv'
  <2>1. a \in Stored /\ doc[a].email = idCall[c].email
    BY DEF WithEmail
  <2>4. Meet(idCall[c].kind, a)
    BY <1>1, <1>4
  <2>5. /\ doc' = doc /\ temp' = temp /\ mailed' = mailed /\ overlapped' = overlapped
        /\ mixed' = mixed /\ disturbed' = disturbed /\ idCall[c].kind \in {"register", "signIn"}
    BY <1>1
  <2> QED
    BY <1>4, <2>1, <2>4, <2>5, FoundKeeps
<1> QED
  BY <1>1, <1>2, <1>3, <1>4

LEMMA UnlinkKeeps ==
    ASSUME IdentitiesInv, NEW c \in InFlight, Unlink(c)
    PROVE  IdentitiesInv'
<1>1. /\ idCall[c].kind = "register" /\ idCall[c].step = "uploaded"
      /\ doc' = doc /\ temp' = 0 /\ mailed' = mailed /\ UNCHANGED idHistory
      /\ Step(c, "ended") \/ Step(c, "creating")
  BY DEF Unlink, Stands
<1>2. CASE Step(c, "ended")
  BY <1>1, <1>2, EndKeeps DEF End
<1>3. CASE Step(c, "creating")
  BY <1>1, <1>3, StepOnKeeps
<1> QED
  BY <1>1, <1>2, <1>3

LEMMA UploadKeeps ==
    ASSUME IdentitiesInv, NEW c \in InFlight, Upload(c)
    PROVE  IdentitiesInv'
<1>1. PICK picture \in {temp, 0} :
        idCall' = [idCall EXCEPT ![c].step = "uploaded", ![c].picture = picture]
  BY DEF Upload
<1>2. /\ idCall[c].kind = "register" /\ idCall[c].step = "uploading"
      /\ doc' = doc /\ temp' = temp /\ mailed' = mailed /\ UNCHANGED idHistory
  BY DEF Upload, Stands
<1>3. /\ c \in DOMAIN idCall /\ idCall[c] \in IdCallStates /\ CallSound(c)
      /\ idCall \in Seq(IdCallStates) /\ temp \in {0} \cup Callers
  BY Lengths DEF IdentitiesInv, IdentitiesTypeOK
<1>4. PICK k : k = [idCall[c] EXCEPT !.step = "uploaded", !.picture = picture]
  OBVIOUS
<1>5. /\ k \in IdCallStates /\ k.step = "uploaded" /\ k.kind = idCall[c].kind
      /\ k.email = idCall[c].email /\ k.id = idCall[c].id /\ k.picture = picture
      /\ k.target = idCall[c].target
  BY <1>1, <1>3, <1>4 DEF IdCallStates, Steps
<1>6. idCall' = [idCall EXCEPT ![c] = k] /\ idCall'[c] = k
  BY <1>1, <1>3, <1>4
<1>7. /\ overlapped' = overlapped /\ mixed' = mixed /\ crossed' = crossed
      /\ disturbed' = disturbed
  BY <1>2 DEF idHistory
<1>8. picture \in {0, c} \/ c \in mixed
  BY <1>1, <1>2, <1>3 DEF CallSound
<1>9. CallSound(c)'
  BY <1>2, <1>3, <1>5, <1>6, <1>7, <1>8 DEF CallSound
<1>10. temp' \in {0, temp} /\ mailed' \subseteq mailed
  BY <1>2
<1> QED
  BY <1>2, <1>5, <1>6, <1>7, <1>9, <1>10, PlainKeeps

LEMMA LoadToChangeKeeps ==
    ASSUME IdentitiesInv, NEW c \in InFlight, LoadToChange(c)
    PROVE  IdentitiesInv'
<1>1. PICK a : a = idCall[c].target
  OBVIOUS
<1>2. /\ idCall[c].kind = "change" /\ idCall[c].step = "verified"
      /\ doc' = doc /\ temp' = temp /\ mailed' = mailed /\ UNCHANGED idHistory
      /\ \/ /\ doc[a].password # Nothing /\ doc[a].password.hashed
            /\ idCall' = [idCall EXCEPT ![c].step = "saving", ![c].seen = doc[a]]
         \/ End(c)
  BY <1>1 DEF LoadToChange, Stands
<1>3. CASE End(c)
  BY <1>2, <1>3, EndKeeps
<1>4. CASE /\ doc[a].password # Nothing /\ doc[a].password.hashed
           /\ idCall' = [idCall EXCEPT ![c].step = "saving", ![c].seen = doc[a]]
  <2>1. /\ c \in DOMAIN idCall /\ idCall[c] \in IdCallStates /\ CallSound(c) /\ a \in Stored
        /\ idCall \in Seq(IdCallStates)
    BY <1>1, <1>2, Lengths DEF IdentitiesInv, IdentitiesTypeOK, CallSound
  <2>2. doc[a] \in UserDocs /\ (doc[a].local \/ doc[a].deleted)
    BY <1>4, <2>1, Lengths DEF IdentitiesInv, HashListed
  <2>3. PICK k : k = [idCall[c] EXCEPT !.step = "saving", !.seen = doc[a]]
    OBVIOUS
  <2>4. /\ k \in IdCallStates
        /\ k.step = "saving" /\ k.target = a /\ k.seen = doc[a] /\ k.kind = idCall[c].kind
        /\ k.email = idCall[c].email /\ k.id = idCall[c].id /\ k.picture = idCall[c].picture
    BY <1>1, <2>1, <2>2, <2>3 DEF IdCallStates, Steps
  <2>5. idCall' = [idCall EXCEPT ![c] = k] /\ idCall'[c] = k /\ Stored' = Stored
    BY <1>2, <1>4, <2>1, <2>3 DEF Stored
  <2>6. StillSo(c)'
    BY <1>2, <2>4, <2>5 DEF StillSo
  <2>7. /\ overlapped' = overlapped /\ mixed' = mixed /\ crossed' = crossed
        /\ disturbed' = disturbed
    BY <1>2 DEF idHistory
  <2>8. CallSound(c)'
    BY <1>2, <2>1, <2>2, <2>4, <2>5, <2>6, <2>7 DEF CallSound
  <2>9. temp' \in {0, temp} /\ mailed' \subseteq mailed
    BY <1>2
  <2> QED
    BY <1>1, <1>2, <2>4, <2>5, <2>7, <2>8, <2>9, PlainKeeps
<1> QED
  BY <1>2, <1>3, <1>4

\* A push, and no write that others see: LinkIdentity keeps their histories.
LEMMA LinkIdentityKeeps ==
    ASSUME IdentitiesInv, NEW c \in InFlight, LinkIdentity(c)
    PROVE  IdentitiesInv'
<1>1. PICK a, i : a = idCall[c].target /\ i = idCall[c].id
  OBVIOUS
<1>2. /\ idCall[c].kind = "signIn" /\ idCall[c].step = "linking"
      /\ doc' = [doc EXCEPT ![a].ids = @ \cup {i}, ![a].version = @ + 1]
      /\ End(c) /\ temp' = temp /\ mailed' = mailed /\ overlapped' = overlapped
      /\ mixed' = mixed /\ crossed' = crossed /\ disturbed' = disturbed
  BY <1>1 DEF LinkIdentity, Stands, idHistory
<1>3. /\ c \in DOMAIN idCall /\ a \in Stored /\ i \in Ids
      /\ doc \in Seq(UserDocs) /\ Len(doc) \in Nat /\ DOMAIN doc = Stored /\ Len(doc) <= MaxDocs
      /\ doc[a] \in UserDocs
  BY <1>1, <1>2, Lengths DEF IdentitiesInv, IdentitiesTypeOK, CallSound
<1>4. PICK d : d = [doc[a] EXCEPT !.ids = @ \cup {i}, !.version = @ + 1]
  OBVIOUS
<1>5. /\ d \in UserDocs /\ d.ids = doc[a].ids \cup {i} /\ d.email = doc[a].email
      /\ d.local = doc[a].local /\ d.password = doc[a].password
      /\ d.banned = doc[a].banned /\ d.deleted = doc[a].deleted
  <2>1. doc[a].version + 1 \in Nat /\ doc[a].ids \cup {i} \in SUBSET Ids
    BY <1>3 DEF UserDocs
  <2> QED
    BY <1>3, <1>4, <2>1 DEF UserDocs
<1>6. /\ doc' \in Seq(UserDocs) /\ Len(doc') = Len(doc)
      /\ doc'[a] = d /\ \A b \in Stored \ {a} : doc'[b] = doc[b]
  <2>1. doc' = [doc EXCEPT ![a] = d]
    BY <1>2, <1>3, <1>4
  <2> QED
    BY <1>3, <1>5, <2>1, ExceptSeq
<1>7. Stored' = Stored /\ IdCallStates' = IdCallStates
  BY <1>6 DEF Stored, IdCallStates
<1>8. DocsKept(c)
  BY <1>2, <1>5, <1>6, <1>7 DEF DocsKept
<1>9. PICK k \in IdCallStates :
          /\ idCall' = [idCall EXCEPT ![c] = k] /\ k.step = "ended"
          /\ k.kind = idCall[c].kind /\ k.id = idCall[c].id
  BY <1>2, EndedCall
<1>10. CallSound(c)'
  BY <1>2, EndedCall
<1>11. c \notin InFlight'
  <2>1. idCall'[c] = k
    BY <1>3, <1>9
  <2> QED
    BY <1>9, <2>1 DEF InFlight
<1>12. IdsKept(c)
  <2>1. \A b \in Stored' : \A j \in doc'[b].ids :
            (b \in Stored /\ j \in doc[b].ids) \/ (b = a /\ j = i)
    BY <1>5, <1>6, <1>7
  <2> QED
    BY <1>1, <1>2, <1>11, <2>1 DEF IdsKept
<1>13. \A b \in Stored' : HashListed(b)'
  <2>1. \A b \in Stored : HashListed(b)
    BY DEF IdentitiesInv
  <2> QED
    BY <1>5, <1>6, <1>7, <2>1 DEF HashListed
<1>14. ASSUME NEW b \in Stored' \ crossed'
       PROVE  doc'[b].deleted => LetsGo(doc'[b]) /\ b \in Stored /\ doc[b].deleted
  <2>1. CASE b = a
    BY <1>1, <1>2, <1>3, <1>5, <1>6, <1>14, <2>1, NotDeleted
  <2>2. CASE b # a
    BY <1>2, <1>6, <1>7, <1>14, <2>2 DEF IdentitiesInv, DeletedLetsGo, LetsGo
  <2> QED
    BY <2>1, <2>2
<1>15. /\ crossed \subseteq crossed' /\ crossed' \subseteq Stored /\ temp' \in {0, temp}
       /\ mailed' \subseteq mailed /\ disturbed' \subseteq Callers /\ Len(doc') <= MaxDocs
  BY <1>2, <1>3, <1>6 DEF IdentitiesInv, IdentitiesTypeOK
<1> QED
  BY <1>2, <1>6, <1>7, <1>8, <1>9, <1>10, <1>12, <1>13, <1>14, <1>15, StepKeeps

\* The account that a call adds.
LEMMA Added ==
    ASSUME IdentitiesInv, NEW c, NEW d \in UserDocs, doc' = Append(doc, d),
           Len(doc) < MaxDocs, disturbed' = disturbed,
           d.ids = {} \/ (d.ids = {idCall[c].id} /\ idCall[c].kind = "signIn" /\ c \notin InFlight')
    PROVE  \E a : /\ a = Len(doc) + 1 /\ a = Len(doc') /\ doc'[a] = d
                  /\ a \notin Stored /\ Stored' = Stored \cup {a}
                  /\ \A b \in Stored : doc'[b] = doc[b]
                  /\ doc' \in Seq(UserDocs) /\ Len(doc') <= MaxDocs
                  /\ DocsKept(c) /\ IdsKept(c)
<1>1. /\ doc \in Seq(UserDocs) /\ Len(doc) \in Nat /\ DOMAIN doc = Stored
  BY Lengths DEF IdentitiesInv, IdentitiesTypeOK
<1>2. PICK a : a = Len(doc) + 1
  OBVIOUS
<1>3. /\ doc' \in Seq(UserDocs) /\ Len(doc') = a /\ doc'[a] = d
      /\ \A b \in Stored : doc'[b] = doc[b]
  BY <1>1, <1>2, AppendProperties
<1>4. Stored' = Stored \cup {a} /\ a \notin Stored
  BY <1>1, <1>2, <1>3 DEF Stored
<1>5. Len(doc') <= MaxDocs
  BY <1>1, <1>2, <1>3, IdentitiesAssumption
<1>6. DocsKept(c)
  BY <1>3, <1>4 DEF DocsKept
<1>7. IdsKept(c)
  BY <1>3, <1>4 DEF IdsKept
<1> QED
  BY <1>2, <1>3, <1>4, <1>5, <1>6, <1>7

LEMMA CreateKeeps ==
    ASSUME IdentitiesInv, NEW c \in InFlight, Create(c)
    PROVE  IdentitiesInv'
<1>1. PICK e, i, picture :
          e = idCall[c].email /\ i = idCall[c].id /\ picture = idCall[c].picture
  OBVIOUS
<1>2. /\ idCall[c].kind \in {"register", "signIn", "appoint"}
      /\ temp' = temp /\ mailed' = mailed /\ overlapped' = overlapped
      /\ mixed' = mixed /\ crossed' = crossed /\ disturbed' = disturbed
  BY DEF Create, Stands, idHistory
<1>3. /\ c \in DOMAIN idCall /\ c \in Callers /\ idCall[c] \in IdCallStates
      /\ e \in Emails /\ (idCall[c].kind = "signIn" => i \in Ids)
      /\ picture \in {0} \cup Callers /\ (picture \in {0, c} \/ c \in mixed)
  BY <1>1, <1>2, Lengths DEF IdentitiesInv, CallSound, IdCallStates
<1>4. \/ End(c) /\ doc' = doc
      \/ /\ Len(doc) < MaxDocs /\ idCall[c].kind = "signIn" /\ End(c)
         /\ doc' = Append(doc, NewDoc(e, {i}, Nothing, 0))
      \/ /\ Len(doc) < MaxDocs /\ idCall[c].kind # "signIn" /\ Accept(c, e, Len(doc'))
         /\ doc' = Append(doc, NewDoc(e, {}, [by |-> c, hashed |-> TRUE], picture))
  BY <1>1 DEF Create
<1>5. ASSUME NEW a, NEW d, a \notin Stored, ~ d.deleted, d.password # Nothing => d.local,
             doc'[a] = d, Stored' = Stored \cup {a}, \A b \in Stored : doc'[b] = doc[b]
      PROVE  /\ \A b \in Stored' : HashListed(b)'
             /\ \A b \in Stored' \ crossed' :
                    doc'[b].deleted => LetsGo(doc'[b]) /\ b \in Stored /\ doc[b].deleted
  <2>1. /\ \A b \in Stored : HashListed(b)
        /\ \A b \in Stored \ crossed : doc[b].deleted => LetsGo(doc[b])
    BY DEF IdentitiesInv, DeletedLetsGo, LetsGo
  <2>2. \A b \in Stored' : HashListed(b)'
    BY <1>5, <2>1 DEF HashListed
  <2>3. \A b \in Stored' \ crossed' :
            doc'[b].deleted => LetsGo(doc'[b]) /\ b \in Stored /\ doc[b].deleted
    BY <1>2, <1>5, <2>1
  <2> QED
    BY <2>2, <2>3
<1>6. /\ crossed \subseteq crossed' /\ crossed' \subseteq Stored /\ temp' \in {0, temp}
      /\ mailed' \subseteq mailed /\ disturbed' \subseteq Callers
  BY <1>2 DEF IdentitiesInv, IdentitiesTypeOK
<1>7. CASE End(c) /\ doc' = doc
  BY <1>2, <1>7, EndKeeps DEF idHistory
<1>8. CASE /\ Len(doc) < MaxDocs /\ idCall[c].kind = "signIn" /\ End(c)
           /\ doc' = Append(doc, NewDoc(e, {i}, Nothing, 0))
  <2>1. PICK d : d = NewDoc(e, {i}, Nothing, 0)
    OBVIOUS
  <2>2. d \in UserDocs /\ d.ids = {i} /\ ~ d.deleted /\ d.password = Nothing
    BY <1>3, <1>8, <2>1 DEF NewDoc, UserDocs
  <2>3. PICK k \in IdCallStates :
            /\ idCall' = [idCall EXCEPT ![c] = k] /\ k.step = "ended"
            /\ k.kind = idCall[c].kind /\ k.id = idCall[c].id
    BY <1>2, <1>8, EndedCall
  <2>4. CallSound(c)'
    BY <1>2, <1>8, EndedCall
  <2>5. c \notin InFlight'
    <3>1. idCall'[c] = k
      BY <1>3, <2>3
    <3> QED
      BY <2>3, <3>1 DEF InFlight
  <2>6. PICK a : /\ doc'[a] = d /\ a \notin Stored /\ Stored' = Stored \cup {a}
                 /\ \A b \in Stored : doc'[b] = doc[b]
                 /\ doc' \in Seq(UserDocs) /\ Len(doc') <= MaxDocs
                 /\ DocsKept(c) /\ IdsKept(c)
    BY <1>1, <1>2, <1>8, <2>1, <2>2, <2>5, Added
  <2>7. k \in IdCallStates'
    BY <2>6, StatesGrow
  <2>8. /\ \A b \in Stored' : HashListed(b)'
        /\ \A b \in Stored' \ crossed' :
               doc'[b].deleted => LetsGo(doc'[b]) /\ b \in Stored /\ doc[b].deleted
    BY <1>5, <2>2, <2>6
  <2> QED
    BY <1>2, <1>6, <2>3, <2>4, <2>6, <2>7, <2>8, StepKeeps
<1>9. CASE /\ Len(doc) < MaxDocs /\ idCall[c].kind # "signIn" /\ Accept(c, e, Len(doc'))
           /\ doc' = Append(doc, NewDoc(e, {}, [by |-> c, hashed |-> TRUE], picture))
  <2>1. PICK d : d = NewDoc(e, {}, [by |-> c, hashed |-> TRUE], picture)
    OBVIOUS
  <2>2. /\ d \in UserDocs /\ d.ids = {} /\ d.deleted = FALSE /\ d.banned = FALSE
        /\ d.email = e /\ d.password = [by |-> c, hashed |-> TRUE]
        /\ d.password # Nothing => d.local
    <3>1. [by |-> c, hashed |-> TRUE] \in [by : {0} \cup Callers, hashed : BOOLEAN]
      BY <1>3
    <3>2. PICK p : p = [by |-> c, hashed |-> TRUE]
      OBVIOUS
    <3>3. d = [email |-> e, ids |-> {}, local |-> p # Nothing, password |-> p,
               avatar |-> picture, banned |-> FALSE, deleted |-> FALSE, version |-> 0]
      BY <2>1, <3>2 DEF NewDoc
    <3> QED
      BY <1>3, <3>1, <3>2, <3>3 DEF UserDocs
  <2>3. PICK a : /\ a = Len(doc') /\ doc'[a] = d /\ a \notin Stored /\ Stored' = Stored \cup {a}
                 /\ \A b \in Stored : doc'[b] = doc[b]
                 /\ doc' \in Seq(UserDocs) /\ Len(doc') <= MaxDocs
                 /\ DocsKept(c) /\ IdsKept(c)
    BY <1>2, <1>9, <2>1, <2>2, Added
  <2>4. PICK k \in IdCallStates' :
             /\ idCall' = [idCall EXCEPT ![c] = k] /\ idCall'[c] = k
             /\ k.kind = idCall[c].kind /\ k.id = idCall[c].id
             /\ k.picture = picture
             /\ k.step = "accepted" /\ k.email = e /\ k.target = a
    BY <1>1, <1>3, <1>9, <2>3, AcceptedCall
  <2>5. Works(c)'
    BY <2>2, <2>3, <2>4 DEF Works, Shut
  <2>6. CallSound(c)'
    BY <1>2, <1>3, <1>9, <2>3, <2>4, <2>5 DEF CallSound
  <2>7. /\ \A b \in Stored' : HashListed(b)'
        /\ \A b \in Stored' \ crossed' :
               doc'[b].deleted => LetsGo(doc'[b]) /\ b \in Stored /\ doc[b].deleted
    BY <1>5, <2>2, <2>3
  <2> QED
    BY <1>2, <1>6, <2>3, <2>4, <2>6, <2>7, StepKeeps
<1> QED
  BY <1>4, <1>7, <1>8, <1>9

\* banUser is no call: nobody is at the account for it.
LEMMA BanKeeps ==
    ASSUME IdentitiesInv, NEW a \in Stored, Ban(a)
    PROVE  IdentitiesInv'
<1>1. PICK d : d = [doc[a] EXCEPT !.banned = ~ @]
  OBVIOUS
<1>2. /\ ~ doc[a].deleted /\ Write(0, a, d) /\ idCall' = idCall
      /\ temp' = temp /\ mailed' = mailed /\ overlapped' = overlapped
      /\ mixed' = mixed /\ crossed' = crossed
  BY <1>1 DEF Ban
<1>3. doc[a] \in UserDocs
  BY Lengths DEF IdentitiesInv
<1>4. /\ d \in UserDocs /\ d.ids = doc[a].ids /\ d.local = doc[a].local
      /\ d.password = doc[a].password /\ d.deleted = doc[a].deleted
  BY <1>1, <1>3 DEF UserDocs
<1>5. /\ doc' \in Seq(UserDocs) /\ Len(doc') <= MaxDocs
      /\ Stored' = Stored /\ IdCallStates' = IdCallStates
      /\ doc'[a] = d /\ \A b \in Stored \ {a} : doc'[b] = doc[b]
      /\ DocsKept(0) /\ disturbed' \subseteq Callers
  BY <1>2, <1>4, Written
<1>6. /\ \A b \in Stored : doc'[b].ids = doc[b].ids /\ doc'[b].local = doc[b].local
            /\ doc'[b].password = doc[b].password /\ doc'[b].deleted = doc[b].deleted
      /\ \A b \in Stored : doc[b].deleted => doc'[b] = doc[b]
  BY <1>2, <1>4, <1>5
<1>7. InFlight' = InFlight /\ \A i : (Known(i))' = Known(i)
  BY <1>2, <1>5, <1>6 DEF InFlight, Known
<1>8. IdentitiesTypeOK'
  BY <1>2, <1>5 DEF IdentitiesInv, IdentitiesTypeOK
<1>9. ASSUME NEW c \in DOMAIN idCall PROVE CallSound(c)' /\ SignInAlone(c)'
  <2>1. CallSound(c)'
    <3>1. c # 0 /\ (idCall[c].step \in {"received", "uploading"} /\ c \notin mixed => temp \in {0, c})
      BY Lengths DEF IdentitiesInv, CallSound
    <3> QED
      BY <1>2, <1>5, <3>1, OthersKept
  <2>2. SignInAlone(c)'
    BY <1>2, <1>7 DEF IdentitiesInv, SignInAlone
  <2> QED
    BY <2>1, <2>2
<1>10. ASSUME NEW b \in Stored PROVE DeletionAlone(b)' /\ HashListed(b)'
  <2>1. DeletionAlone(b) /\ HashListed(b)
    BY DEF IdentitiesInv
  <2> QED
    BY <1>2, <1>6, <1>7, <2>1 DEF DeletionAlone, HashListed
<1>11. IdentityIsOnes'
  BY <1>2, <1>5, <1>6 DEF IdentitiesInv, IdentityIsOnes
<1>12. DeletedLetsGo'
  BY <1>2, <1>5, <1>6 DEF IdentitiesInv, DeletedLetsGo
<1> QED
  BY <1>2, <1>5, <1>8, <1>9, <1>10, <1>11, <1>12 DEF IdentitiesInv

\* An account of the start.
Started(d) == d \in UserDocs /\ ~ d.deleted /\ (d.password # Nothing => d.local)

LEMMA NewDocIsStarted ==
    ASSUME NEW e \in Emails, NEW ids \in SUBSET Ids,
           NEW p \in [by : {0} \cup Callers, hashed : BOOLEAN] \cup {Nothing}
    PROVE  Started(NewDoc(e, ids, p, 0))
<1>1. PICK l \in BOOLEAN : l = (p # Nothing)
  OBVIOUS
<1>2. PICK d : d = [email |-> e, ids |-> ids, local |-> l, password |-> p,
                    avatar |-> 0, banned |-> FALSE, deleted |-> FALSE, version |-> 0]
  OBVIOUS
<1>3. d = NewDoc(e, ids, p, 0)
  BY <1>1, <1>2 DEF NewDoc
<1>4. d \in UserDocs
  BY <1>2 DEF UserDocs
<1>5. d.password = p /\ d.local = l /\ d.deleted = FALSE
  BY <1>2
<1>6. Started(d)
  BY <1>1, <1>4, <1>5 DEF Started
<1> QED
  BY <1>3, <1>6

LEMMA IdentitiesInvInit == IdentitiesInit => IdentitiesInv
<1> SUFFICES ASSUME IdentitiesInit PROVE IdentitiesInv
  OBVIOUS
<1>1. /\ temp = 0 /\ mailed = {} /\ idCall = <<>>
      /\ overlapped = {} /\ mixed = {} /\ crossed = {} /\ disturbed = {}
      /\ MaxDocs \in Nat /\ MaxIdCalls \in Nat
  BY IdentitiesAssumption DEF IdentitiesInit
<1>2. \A d \in FirstDocs : Started(d)
  <2>1. [by |-> 0, hashed |-> TRUE] \in [by : {0} \cup Callers, hashed : BOOLEAN]
    OBVIOUS
  <2>2. PICK hash \in [by : {0} \cup Callers, hashed : BOOLEAN] :
            hash = [by |-> 0, hashed |-> TRUE]
    BY <2>1
  <2>3. FirstDocs =
            {NewDoc(e, ids, p, 0) : e \in Emails, ids \in SUBSET Ids, p \in {Nothing, hash}}
    BY <2>2 DEF FirstDocs
  <2>4. ASSUME NEW e \in Emails, NEW ids \in SUBSET Ids, NEW p \in {Nothing, hash}
        PROVE  Started(NewDoc(e, ids, p, 0))
    <3>1. p \in [by : {0} \cup Callers, hashed : BOOLEAN] \cup {Nothing}
      OBVIOUS
    <3> QED
      BY <3>1, NewDocIsStarted
  <2> QED
    BY <2>3, <2>4
<1>3. doc = <<>> \/ \E d \in FirstDocs : doc = <<d>>
  BY DEF IdentitiesInit
<1>4. /\ doc \in Seq(UserDocs) /\ (Len(doc) = 0 \/ Len(doc) = 1)
      /\ \A a \in Stored : a = 1 /\ Started(doc[a])
  <2>1. CASE doc = <<>>
    BY <2>1 DEF Stored
  <2>2. ASSUME NEW d \in FirstDocs, doc = <<d>>
        PROVE  /\ doc \in Seq(UserDocs) /\ Len(doc) = 1 /\ Stored = {1} /\ Started(doc[1])
    <3>1. d \in UserDocs /\ Started(d)
      BY <1>2 DEF Started
    <3> QED
      BY <2>2, <3>1 DEF Stored
  <2> QED
    BY <1>3, <2>1, <2>2
<1>5. DOMAIN idCall = {} /\ InFlight = {}
  BY <1>1 DEF InFlight
<1>7. Len(idCall) = 0
  BY <1>1
<1>6. IdentitiesTypeOK
  <2>1. Len(doc) <= MaxDocs /\ Len(idCall) <= MaxIdCalls
    <3>1. Len(doc) = 0 \/ Len(doc) = 1
      BY <1>4
    <3>2. MaxDocs >= 1 /\ MaxIdCalls >= 0 /\ MaxDocs \in Nat /\ MaxIdCalls \in Nat
      BY IdentitiesAssumption
    <3> QED
      BY <1>7, <3>1, <3>2
  <2>2. idCall \in Seq(IdCallStates)
    BY <1>1
  <2> QED
    BY <1>1, <1>4, <2>1, <2>2 DEF IdentitiesTypeOK
<1> QED
  BY <1>4, <1>5, <1>6
     DEF IdentitiesInv, DeletionAlone, HashListed, IdentityIsOnes, DeletedLetsGo, Started

LEMMA IdentitiesInvStep == IdentitiesInv /\ [IdentitiesNext]_idVars => IdentitiesInv'
<1> SUFFICES ASSUME IdentitiesInv, [IdentitiesNext]_idVars PROVE IdentitiesInv'
  OBVIOUS
<1>1. CASE UNCHANGED idVars
  BY <1>1, Quiet DEF idVars, IdentitiesInv, IdentitiesTypeOK
<1>2. ASSUME NEW c \in InFlight,
             \/ FindToRegister(c) \/ LinkPassword(c) \/ Upload(c) \/ Unlink(c)
             \/ FindByEmail(c) \/ LinkIdentity(c) \/ Create(c)
             \/ Rename(c) \/ LoadToChange(c) \/ SavePassword(c) \/ SaveDeletion(c)
             \/ FailIdCall(c)
      PROVE  IdentitiesInv'
  <2>1. CASE FailIdCall(c)
    BY <2>1, EndKeeps DEF FailIdCall
  <2> QED
    BY <1>2, <2>1, FindToRegisterKeeps, LinkPasswordKeeps, UploadKeeps, UnlinkKeeps,
       FindByEmailKeeps, LinkIdentityKeeps, CreateKeeps, RenameKeeps, LoadToChangeKeeps,
       SavePasswordKeeps, SaveDeletionKeeps
<1>3. ASSUME NEW a \in Stored, Forgot(a) \/ Lapse(a) PROVE IdentitiesInv'
  BY <1>3, Quiet DEF Forgot, Lapse, IdentitiesInv, IdentitiesTypeOK
<1>4. ASSUME NEW a \in Stored, Ban(a) PROVE IdentitiesInv'
  BY <1>4, BanKeeps
<1>5. CASE \/ \E e \in Emails :
                \/ Register(e) \/ Appoint(e)
                \/ \E i \in Ids : SignInWith(i, e)
                \/ \E a \in Stored : Authenticate(a, "rename", e)
           \/ \E a \in Stored :
                Authenticate(a, "change", Nothing) \/ LoadToReset(a) \/ LoadToDelete(a)
  BY <1>5, BeginSteps
<1> QED
  BY <1>1, <1>2, <1>3, <1>4, <1>5 DEF IdentitiesNext

\* Whatever calls of registration, sign-in, reset and deletion overlap, and wherever
\* they fail: two accounts list one identity, and a deleted account keeps its address or
\* an identity, and an account shows the picture of another, only when two calls met.
THEOREM IdentitiesConsistentHolds == IdentitiesSpec => []IdentitiesConsistent
<1>1. IdentitiesInv => IdentitiesConsistent
  <2> SUFFICES ASSUME IdentitiesInv PROVE PictureIsOwn
    BY DEF IdentitiesInv, IdentitiesConsistent
  <2> QED
    BY Lengths DEF IdentitiesInv, CallSound, PictureIsOwn
<1> QED
  BY <1>1, IdentitiesInvInit, IdentitiesInvStep, PTL DEF IdentitiesSpec

\* Whoever is told that an account has the password he gave can sign in with it, until
\* another call writes the account.
THEOREM PasswordsWorkHolds == IdentitiesSpec => []PasswordsWork
<1>1. IdentitiesInv => PasswordsWork
  <2> SUFFICES ASSUME IdentitiesInv, NEW c \in 1..Len(idCall),
                      idCall[c].step = "accepted", c \notin disturbed
               PROVE  \/ CanSignIn(idCall[c].email, c)
                      \/ /\ idCall[c].seen # Nothing
                         /\ \/ Shut(idCall[c].seen)
                            \/ idCall[c].kind = "reset" /\ ~ idCall[c].seen.local
    BY DEF PasswordsWork
  <2>1. idCall[c].target \in Stored /\ Works(c)
    BY Lengths DEF IdentitiesInv, CallSound
  <2> QED
    BY <2>1 DEF Works, CanSignIn, WithEmail
<1> QED
  BY <1>1, IdentitiesInvInit, IdentitiesInvStep, PTL DEF IdentitiesSpec
=============================================================================
