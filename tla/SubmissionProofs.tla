--------------------------- MODULE SubmissionProofs ---------------------------
(***************************************************************************)
(* Theorems about Submission for any number of players, teams, challenges, *)
(* calls, crashes and deletions.                                           *)
(***************************************************************************)
EXTENDS Submission, FiniteSetTheorems, TLAPS

Handlers == Requests \cup Deletions

Stages == RequestStages \cup DeletionStages

\* A deletion that is past its lookup has loaded a submission.
VictimLoaded ==
    \A d \in Deletions :
        /\ pc[d] \in {"remove", "fanout", "clamp"} => victim[d].id \in Requests
        /\ pc[d] \in {"fanout", "clamp"} => victim[d].doc \in Submissions

\* The inductive strengthening of TypeOK.
TypeInv == TypeOK /\ VictimLoaded

USE DEF Handlers, Stages

------------------------------------------------------------------------------
(* The documents the handlers build have their types *)

\* A value is a natural number, whatever solve count a save or a deletion left in the
\* challenge, negative ones included.
LEMMA PointsAreNatural ==
    ASSUME NEW s \in Scorings, NEW n \in Int
    PROVE  CurrentPoints(s, n) \in Nat
<1>1. s.points \in Nat /\ s.minPoints \in Nat
  BY DEF Scorings
<1>2. Decaying(n) \in 0..MaxDecay
  BY DecayAssumption DEF Decaying
<1>3. Decay[Decaying(n)] \in Nat
  <2>1. Decay[Decaying(n)] \in 0..One
    BY <1>2, DecayAssumption
  <2>2. One \in Nat
    BY SMT DEF One
  <2> QED
    BY <2>1, <2>2
<1>4. Factor(n) \in Nat
  <2>1. \A d \in Nat : (One + d) \div 2 \in Nat
    BY SMT DEF One
  <2> QED
    BY <1>3, <2>1 DEF Factor
<1>5. s.points * Factor(n) \in Nat
  BY <1>1, <1>4
<1>6. Decayed(s.points, n) \in Nat
  BY <1>5, SMT DEF Decayed, One
<1> QED
  BY <1>1, <1>6 DEF CurrentPoints

LEMMA NewSubmissionType ==
    ASSUME TypeOK, NEW r \in Requests, NEW ok \in BOOLEAN
    PROVE  NewSubmission(r, ok) \in Submissions
<1> DEFINE q == req[r]
<1>1. q.user \in Users /\ q.challenge \in Challenges
  BY DEF TypeOK
<1>2. TeamOf[q.user] \in Teams \cup {NoTeam}
  BY <1>1, SubmissionAssumption
<1>3. snap[r].solveCount \in Int /\ Scoring[q.challenge] \in Scorings
  BY <1>1, SubmissionAssumption DEF TypeOK, ChallengeDocs
<1>4. CurrentPoints(Scoring[q.challenge], snap[r].solveCount) \in Nat
  BY <1>3, PointsAreNatural
<1>5. (IF ok THEN CurrentPoints(Scoring[q.challenge], snap[r].solveCount)
             ELSE 0) \in Nat
  BY <1>4
<1>6. (ok /\ snap[r].firstBlood = NoUser) \in BOOLEAN
  OBVIOUS
<1> QED
  BY <1>1, <1>2, <1>5, <1>6 DEF NewSubmission, Submissions

LEMMA LastOfType ==
    ASSUME NEW S, NEW seq \in Seq(S), NEW n \in Nat
    PROVE  LastOf(seq, n) \in Seq(S)
<1>1. CASE Len(seq) <= n
  BY <1>1 DEF LastOf
<1>2. CASE ~(Len(seq) <= n)
  <2>1. Len(seq) \in Nat /\ Len(seq) - n + 1 \in 1..(Len(seq) + 1)
    BY <1>2
  <2>2. SubSeq(seq, Len(seq) - n + 1, Len(seq)) \in Seq(S)
    BY <2>1
  <2> QED
    BY <1>2, <2>2 DEF LastOf
<1> QED
  BY <1>1, <1>2

LEMMA SavedSolveType ==
    ASSUME TypeOK, NEW r \in Requests, NEW d \in ChallengeDocs
    PROVE  SavedSolve(r, d) \in ChallengeDocs
<1>1. /\ snap[r].solveCount \in Int /\ snap[r].totalAttempts \in Int
      /\ snap[r].recentSolves \in Seq(Solvers)
      /\ req[r].user \in Users
  BY DEF TypeOK, ChallengeDocs
<1>2. d.firstBlood \in Users \cup {NoUser} /\ d.recentSolves \in Seq(Solvers)
      /\ d.version \in Nat
  BY DEF ChallengeDocs
<1>3. Entry(r) \in Solvers
  <2>1. NewSubmission(r, TRUE) \in Submissions
    BY NewSubmissionType
  <2> QED
    BY <2>1 DEF Entry, Mine, Submissions, Solvers
<1>4. Extended(r) \in Seq(Solvers)
  BY <1>1, <1>3 DEF Extended
<1>5. LastOf(Extended(r), RecentCap) \in Seq(Solvers)
  BY <1>4, LastOfType, SubmissionAssumption
<1>6. Append(d.recentSolves, Entry(r)) \in Seq(Solvers)
  BY <1>2, <1>3
<1> QED
  BY <1>1, <1>2, <1>5, <1>6 DEF SavedSolve, ChallengeDocs

------------------------------------------------------------------------------
(* Type correctness *)

LEMMA StageType ==
    ASSUME TypeOK, NEW h \in Handlers, NEW s \in Stages, GoTo(h, s)
    PROVE  pc' \in [Handlers -> Stages]
BY DEF TypeOK, GoTo

LEMMA LandType ==
    ASSUME TypeOK, NEW h \in Handlers,
           NEW w \in {"submission", "user", "challenge", "team"}, Land(h, w)
    PROVE  landed' \in [Handlers -> SUBSET {"submission", "user", "challenge", "team"}]
BY DEF TypeOK, Land

LEMMA DispatchType ==
    ASSUME TypeOK, NEW h \in Handlers,
           NEW calls \in SUBSET {"global_user", "global_team", "story"},
           Dispatch(h, calls)
    PROVE  dispatched' \subseteq Handlers \X {"global_user", "global_team", "story"}
<1>1. \A call \in calls : <<h, call>> \in Handlers \X {"global_user", "global_team", "story"}
  OBVIOUS
<1>2. {<<h, call>> : call \in calls} \subseteq
          Handlers \X {"global_user", "global_team", "story"}
  BY <1>1
<1> QED
  BY <1>2 DEF TypeOK, Dispatch

\* Every call starts out waiting, or over with no effect.
LEMMA StagesAtFirst ==
    ASSUME Init
    PROVE  /\ pc \in [Requests \cup Deletions -> {"idle", "done"}]
           /\ \A h \in Requests \cup Deletions : pc[h] \in {"idle", "done"}
<1>1. PICK batch \in Batches : pc = Waiting(batch)
  BY DEF Init
<1> QED
  BY <1>1 DEF Waiting

LEMMA TypeInit == Init => TypeInv
<1> SUFFICES ASSUME Init PROVE TypeInv
  OBVIOUS
<1>1. NewChallenge \in ChallengeDocs
  BY DEF NewChallenge, ChallengeDocs
<1>2. NoTally \in Tallies
  BY DEF NoTally, Tallies
<1>3. pc \in [Handlers -> Stages]
  BY StagesAtFirst DEF RequestStages
<1>4. req \in [Requests -> [user : Users, challenge : Challenges]]
  BY SubmissionAssumption DEF Init
<1>5. snap \in [Requests -> ChallengeDocs] /\ chal \in [Challenges -> ChallengeDocs]
  BY <1>1 DEF Init
<1>6. userDoc \in [Users -> Tallies] /\ teamDoc \in [Teams -> Tallies]
  BY <1>2 DEF Init
<1>7. /\ attempts \in [Users -> [Challenges -> Nat]]
      /\ expiring \in [Users -> [Challenges -> BOOLEAN]]
  BY DEF Init
<1>8. dispatched = {} /\ crashes \in 0..MaxCrashes
  BY SubmissionAssumption DEF Init
<1>9. VictimLoaded
  BY StagesAtFirst DEF VictimLoaded
<1> QED
  BY <1>3, <1>4, <1>5, <1>6, <1>7, <1>8, <1>9 DEF Init, TypeInv, TypeOK

LEMMA TypeSubmit ==
    ASSUME TypeInv, NEW r \in Requests, SubmitStep(r)
    PROVE  TypeInv'
<1> USE DEF TypeInv, RequestStages, DeletionStages
<1>1. r \in Handlers /\ r \notin Deletions
  BY SubmissionAssumption
<1>2. /\ req[r].user \in Users /\ req[r].challenge \in Challenges
      /\ attempts[req[r].user][req[r].challenge] \in Nat
  BY DEF TypeOK
<1>a. CASE CheckRate(r)
  <2>1. pc' \in [Handlers -> Stages]
    BY <1>a, <1>1, StageType DEF CheckRate
  <2>2. VictimLoaded'
    BY <1>a, <1>1 DEF CheckRate, VictimLoaded, GoTo, TypeOK
  <2> QED
    BY <1>a, <2>1, <2>2 DEF CheckRate, TypeOK, scoreVars, redisVars
<1>b. CASE LoadChallenge(r)
  <2>1. pc' \in [Handlers -> Stages]
    BY <1>b, <1>1, StageType DEF LoadChallenge
  <2>2. VictimLoaded'
    BY <1>b, <1>1 DEF LoadChallenge, VictimLoaded, GoTo, TypeOK
  <2>3. snap' \in [Requests -> ChallengeDocs]
    BY <1>b, <1>2 DEF LoadChallenge, TypeOK
  <2> QED
    BY <1>b, <2>1, <2>2, <2>3 DEF LoadChallenge, TypeOK, scoreVars, redisVars
<1>c. CASE CheckUserSolve(r)
  <2>1. pc' \in [Handlers -> Stages]
    BY <1>c, <1>1, StageType DEF CheckUserSolve
  <2>2. VictimLoaded'
    BY <1>c, <1>1 DEF CheckUserSolve, VictimLoaded, GoTo, TypeOK
  <2> QED
    BY <1>c, <2>1, <2>2 DEF CheckUserSolve, TypeOK, scoreVars, redisVars
<1>d. CASE CheckTeamSolve(r)
  <2>1. pc' \in [Handlers -> Stages]
    BY <1>d, <1>1, StageType DEF CheckTeamSolve
  <2>2. VictimLoaded'
    BY <1>d, <1>1 DEF CheckTeamSolve, VictimLoaded, GoTo, TypeOK
  <2> QED
    BY <1>d, <2>1, <2>2 DEF CheckTeamSolve, TypeOK, scoreVars, redisVars
<1>e. CASE InsertSubmission(r)
  <2> PICK ok \in BOOLEAN :
        LET s == NewSubmission(r, ok) IN
        IF DuplicateKey(s)
        THEN GoTo(r, "failed") /\ UNCHANGED subs
        ELSE /\ subs' = [subs EXCEPT ![r] = s]
             /\ GoTo(r, IF ok THEN "fanout" ELSE "saveAttempt")
    BY <1>e DEF InsertSubmission
  <2>1. pc' \in [Handlers -> Stages]
    BY <1>1, StageType
  <2>2. subs' \in [Requests -> Submissions \cup {NoSubmission}]
    <3>1. NewSubmission(r, ok) \in Submissions
      BY NewSubmissionType
    <3>2. CASE DuplicateKey(NewSubmission(r, ok))
      BY <3>2 DEF TypeOK
    <3>3. CASE ~DuplicateKey(NewSubmission(r, ok))
      BY <3>1, <3>3 DEF TypeOK
    <3> QED
      BY <3>2, <3>3
  <2>3. VictimLoaded'
    BY <1>e, <1>1 DEF InsertSubmission, VictimLoaded, GoTo, TypeOK
  <2> QED
    BY <1>e, <2>1, <2>2, <2>3 DEF InsertSubmission, TypeOK, scoreVars, redisVars
<1>f. CASE SaveAttempt(r)
  <2>1. pc' \in [Handlers -> Stages]
    BY <1>f, <1>1, StageType DEF SaveAttempt
  <2>2. VictimLoaded'
    BY <1>f, <1>1 DEF SaveAttempt, VictimLoaded, GoTo, TypeOK
  <2>3. chal' \in [Challenges -> ChallengeDocs]
    <3> DEFINE doc == [chal[req[r].challenge] EXCEPT
                          !.totalAttempts = snap[r].totalAttempts + 1]
    <3>1. chal[req[r].challenge] \in ChallengeDocs /\ snap[r].totalAttempts \in Int
      BY <1>2 DEF TypeOK, ChallengeDocs
    <3>2. doc \in ChallengeDocs
      BY <3>1 DEF ChallengeDocs
    <3>3. chal' = [chal EXCEPT ![req[r].challenge] = doc]
      BY <1>f DEF SaveAttempt
    <3> QED
      BY <3>2, <3>3 DEF TypeOK
  <2> QED
    BY <1>f, <2>1, <2>2, <2>3 DEF SaveAttempt, TypeOK, scoreVars, redisVars
<1>g. CASE IncrAttempts(r)
  <2>1. pc' \in [Handlers -> Stages]
    BY <1>g, <1>1, StageType DEF IncrAttempts
  <2>2. VictimLoaded'
    BY <1>g, <1>1 DEF IncrAttempts, VictimLoaded, GoTo, TypeOK
  <2>3. attempts' \in [Users -> [Challenges -> Nat]]
    BY <1>g, <1>2 DEF IncrAttempts, TypeOK
  <2> QED
    BY <1>g, <2>1, <2>2, <2>3 DEF IncrAttempts, TypeOK, scoreVars
<1>h. CASE ExpireAttempts(r)
  <2>1. pc' \in [Handlers -> Stages]
    BY <1>h, <1>1, StageType DEF ExpireAttempts
  <2>2. VictimLoaded'
    BY <1>h, <1>1 DEF ExpireAttempts, VictimLoaded, GoTo, TypeOK
  <2>3. expiring' \in [Users -> [Challenges -> BOOLEAN]]
    BY <1>h, <1>2 DEF ExpireAttempts, TypeOK
  <2> QED
    BY <1>h, <2>1, <2>2, <2>3 DEF ExpireAttempts, TypeOK, scoreVars
<1>i. CASE CreditUser(r)
  <2>1. landed' \in [Handlers -> SUBSET {"submission", "user", "challenge", "team"}]
    BY <1>i, <1>1, LandType DEF CreditUser
  <2>2. Mine(r) \in Submissions
    BY NewSubmissionType DEF Mine
  <2>3. userDoc' \in [Users -> Tallies]
    BY <1>i, <2>2 DEF CreditUser, TypeOK, Tallies, Submissions
  <2>4. VictimLoaded'
    BY <1>i DEF CreditUser, VictimLoaded
  <2> QED
    BY <1>i, <2>1, <2>3, <2>4 DEF CreditUser, TypeOK, redisVars
<1>j. CASE CreditTeam(r)
  <2>1. landed' \in [Handlers -> SUBSET {"submission", "user", "challenge", "team"}]
    BY <1>j, <1>1, LandType DEF CreditTeam
  <2>2. Mine(r) \in Submissions /\ Mine(r).team \in Teams
    <3>1. Mine(r) \in Submissions
      BY NewSubmissionType DEF Mine
    <3>2. Mine(r).team # NoTeam
      BY <1>j DEF CreditTeam, InFlight, SolveWrites, Mine, NewSubmission
    <3> QED
      BY <3>1, <3>2 DEF Submissions
  <2>3. teamDoc' \in [Teams -> Tallies]
    BY <1>j, <2>2 DEF CreditTeam, TypeOK, Tallies, Submissions
  <2>4. VictimLoaded'
    BY <1>j DEF CreditTeam, VictimLoaded
  <2> QED
    BY <1>j, <2>1, <2>3, <2>4 DEF CreditTeam, TypeOK, redisVars
<1>k. CASE RecordSolve(r)
  <2>1. /\ pc' \in [Handlers -> Stages]
        /\ chal' \in [Challenges -> ChallengeDocs]
        /\ landed' \in [Handlers -> SUBSET {"submission", "user", "challenge", "team"}]
    <3>1. CASE VersionConflict(r)
      BY <1>k, <3>1, <1>1, StageType DEF RecordSolve, TypeOK
    <3>2. CASE ~VersionConflict(r)
      <4>1. chal[req[r].challenge] \in ChallengeDocs
        BY <1>2 DEF TypeOK
      <4>2. SavedSolve(r, chal[req[r].challenge]) \in ChallengeDocs
        BY <4>1, SavedSolveType
      <4>3. chal' = [chal EXCEPT ![req[r].challenge] =
                        SavedSolve(r, chal[req[r].challenge])]
        BY <1>k, <3>2 DEF RecordSolve
      <4>4. chal' \in [Challenges -> ChallengeDocs]
        BY <4>2, <4>3 DEF TypeOK
      <4> QED
        BY <1>k, <3>2, <4>4, <1>1, LandType DEF RecordSolve, TypeOK
    <3> QED
      BY <3>1, <3>2
  <2>2. VictimLoaded'
    BY <1>k, <1>1 DEF RecordSolve, VictimLoaded, GoTo, TypeOK
  <2> QED
    BY <1>k, <2>1, <2>2 DEF RecordSolve, TypeOK, scoreVars, redisVars
<1>l. CASE FinishSolve(r)
  <2>1. pc' \in [Handlers -> Stages]
    BY <1>l, <1>1, StageType DEF FinishSolve
  <2>2. VictimLoaded'
    BY <1>l, <1>1 DEF FinishSolve, VictimLoaded, GoTo, TypeOK
  <2>3. dispatched' \subseteq Handlers \X {"global_user", "global_team", "story"}
    BY <1>l, <1>1, DispatchType DEF FinishSolve
  <2> QED
    BY <1>l, <2>1, <2>2, <2>3 DEF FinishSolve, TypeOK, scoreVars, redisVars
<1>m. CASE ResetAttempts(r)
  <2>1. pc' \in [Handlers -> Stages]
    BY <1>m, <1>1, StageType DEF ResetAttempts
  <2>2. VictimLoaded'
    BY <1>m, <1>1 DEF ResetAttempts, VictimLoaded, GoTo, TypeOK
  <2>3. dispatched' \subseteq Handlers \X {"global_user", "global_team", "story"}
    BY <1>m, <1>1, DispatchType DEF ResetAttempts
  <2>4. /\ attempts' \in [Users -> [Challenges -> Nat]]
        /\ expiring' \in [Users -> [Challenges -> BOOLEAN]]
    BY <1>m, <1>2 DEF ResetAttempts, TypeOK
  <2> QED
    BY <1>m, <2>1, <2>2, <2>3, <2>4 DEF ResetAttempts, TypeOK, scoreVars
<1> QED
  BY <1>a, <1>b, <1>c, <1>d, <1>e, <1>f, <1>g, <1>h, <1>i, <1>j, <1>k, <1>l, <1>m
     DEF SubmitStep

LEMMA TypeDelete ==
    ASSUME TypeInv, NEW d \in Deletions, DeleteStep(d)
    PROVE  TypeInv'
<1> USE DEF TypeInv, RequestStages, DeletionStages
<1>1. d \in Handlers
  OBVIOUS
<1>2. pc[d] \in {"fanout", "clamp"} =>
        /\ victim[d].doc \in Submissions
        /\ victim[d].doc.user \in Users /\ victim[d].doc.challenge \in Challenges
        /\ victim[d].doc.points \in Nat
  BY DEF VictimLoaded, Submissions
<1>a. CASE FindSubmission(d)
  <2> PICK r \in Requests :
        /\ victim' = [victim EXCEPT ![d] = [id |-> r, doc |-> subs[r]]]
        /\ GoTo(d, IF subs[r] = NoSubmission THEN "rejected"
                   ELSE IF subs[r].isCorrect THEN "fanout" ELSE "remove")
    BY <1>a DEF FindSubmission
  <2>1. pc' \in [Handlers -> Stages]
    BY <1>1, StageType
  <2>2. subs[r] \in Submissions \cup {NoSubmission}
    BY DEF TypeOK
  <2>3. victim' \in [Deletions -> [id : Requests, doc : Submissions \cup {NoSubmission}]
                                  \cup {NoVictim}]
    BY <2>2 DEF TypeOK
  <2>4. VictimLoaded'
    <3> SUFFICES ASSUME NEW e \in Deletions
                 PROVE  /\ pc'[e] \in {"remove", "fanout", "clamp"} =>
                               victim'[e].id \in Requests
                        /\ pc'[e] \in {"fanout", "clamp"} =>
                               victim'[e].doc \in Submissions
      BY DEF VictimLoaded
    <3>1. CASE e = d
      <4>1. victim'[e] = [id |-> r, doc |-> subs[r]]
        BY <3>1 DEF TypeOK
      <4>2. pc'[e] \in {"fanout", "clamp"} => subs[r] # NoSubmission
        BY <3>1, <1>1 DEF GoTo, TypeOK
      <4> QED
        BY <4>1, <4>2, <2>2
    <3>2. CASE e # d
      BY <3>2 DEF GoTo, TypeOK, VictimLoaded
    <3> QED
      BY <3>1, <3>2
  <2> QED
    BY <1>a, <2>1, <2>3, <2>4 DEF FindSubmission, TypeOK, scoreVars, redisVars
<1>b. CASE RemoveIncorrect(d)
  <2>1. pc' \in [Handlers -> Stages]
    BY <1>b, <1>1, StageType DEF RemoveIncorrect
  <2>2. subs' \in [Requests -> Submissions \cup {NoSubmission}]
    BY <1>b DEF RemoveIncorrect, TypeOK
  <2>3. VictimLoaded'
    BY <1>b, <1>1 DEF RemoveIncorrect, VictimLoaded, GoTo, TypeOK
  <2> QED
    BY <1>b, <2>1, <2>2, <2>3 DEF RemoveIncorrect, TypeOK, scoreVars, redisVars
<1>c. CASE RemoveSubmission(d)
  <2>1. landed' \in [Handlers -> SUBSET {"submission", "user", "challenge", "team"}]
    BY <1>c, <1>1, LandType DEF RemoveSubmission
  <2>2. subs' \in [Requests -> Submissions \cup {NoSubmission}]
    BY <1>c DEF RemoveSubmission, TypeOK
  <2>3. VictimLoaded'
    BY <1>c DEF RemoveSubmission, VictimLoaded
  <2> QED
    BY <1>c, <2>1, <2>2, <2>3 DEF RemoveSubmission, TypeOK, scoreVars, redisVars
<1>d. CASE DebitUser(d)
  <2>1. landed' \in [Handlers -> SUBSET {"submission", "user", "challenge", "team"}]
    BY <1>d, <1>1, LandType DEF DebitUser
  <2>2. userDoc' \in [Users -> Tallies]
    BY <1>d, <1>2 DEF DebitUser, Undoing, TypeOK, Tallies
  <2>3. VictimLoaded'
    BY <1>d DEF DebitUser, VictimLoaded
  <2> QED
    BY <1>d, <2>1, <2>2, <2>3 DEF DebitUser, TypeOK, redisVars
<1>e. CASE DebitTeam(d)
  <2>1. landed' \in [Handlers -> SUBSET {"submission", "user", "challenge", "team"}]
    BY <1>e, <1>1, LandType DEF DebitTeam
  <2>2. victim[d].doc.team \in Teams
    BY <1>e, <1>2 DEF DebitTeam, Undoing, DeleteWrites, Submissions
  <2>3. teamDoc' \in [Teams -> Tallies]
    BY <1>e, <1>2, <2>2 DEF DebitTeam, Undoing, TypeOK, Tallies
  <2>4. VictimLoaded'
    BY <1>e DEF DebitTeam, VictimLoaded
  <2> QED
    BY <1>e, <2>1, <2>3, <2>4 DEF DebitTeam, TypeOK, redisVars
<1>f. CASE UncountSolve(d)
  <2>1. landed' \in [Handlers -> SUBSET {"submission", "user", "challenge", "team"}]
    BY <1>f, <1>1, LandType DEF UncountSolve
  <2>2. chal' \in [Challenges -> ChallengeDocs]
    <3> DEFINE v == victim[d].doc
               old == chal[v.challenge]
               blood == IF v.isFirstBlood THEN NoUser ELSE old.firstBlood
               doc == [old EXCEPT !.solveCount = old.solveCount - 1,
                                  !.totalAttempts = old.totalAttempts - 1,
                                  !.firstBlood = blood]
    <3>1. old \in ChallengeDocs
      BY <1>f, <1>2 DEF UncountSolve, Undoing, TypeOK
    <3>4. /\ old.solveCount - 1 \in Int /\ old.totalAttempts - 1 \in Int
          /\ blood \in Users \cup {NoUser}
      BY <3>1 DEF ChallengeDocs
    <3>2. doc \in ChallengeDocs
      <4> HIDE DEF blood, old
      <4> QED BY <3>1, <3>4 DEF ChallengeDocs
    <3>3. chal' = [chal EXCEPT ![v.challenge] = doc]
      BY <1>f, <1>2, <3>1 DEF UncountSolve, Undoing, TypeOK, ChallengeDocs
    <3> QED
      BY <3>2, <3>3 DEF TypeOK
  <2>3. VictimLoaded'
    BY <1>f DEF UncountSolve, VictimLoaded
  <2> QED
    BY <1>f, <2>1, <2>2, <2>3 DEF UncountSolve, TypeOK, scoreVars, redisVars
<1>g. CASE FinishDelete(d)
  <2>1. pc' \in [Handlers -> Stages]
    BY <1>g, <1>1, StageType DEF FinishDelete
  <2>2. dispatched' \subseteq Handlers \X {"global_user", "global_team", "story"}
    BY <1>g, <1>1, DispatchType DEF FinishDelete
  <2>3. VictimLoaded'
    BY <1>g, <1>1 DEF FinishDelete, VictimLoaded, GoTo, TypeOK
  <2> QED
    BY <1>g, <2>1, <2>2, <2>3 DEF FinishDelete, TypeOK, scoreVars, redisVars
<1>h. CASE ClampScore(d)
  <2>1. pc' \in [Handlers -> Stages]
    BY <1>h, <1>1, StageType DEF ClampScore
  <2>2. userDoc' \in [Users -> Tallies]
    <3> DEFINE u == victim[d].doc.user
               score == IF userDoc[u].score < 0 THEN 0 ELSE userDoc[u].score
    <3>1. u \in Users /\ userDoc[u] \in Tallies
      BY <1>h, <1>2 DEF ClampScore, TypeOK
    <3>2. score \in Int
      BY <3>1 DEF Tallies
    <3>3. [userDoc[u] EXCEPT !.score = score] \in Tallies
      BY <3>1, <3>2 DEF Tallies
    <3>4. userDoc' = [userDoc EXCEPT ![u] = [userDoc[u] EXCEPT !.score = score]]
      BY <1>h DEF ClampScore
    <3> QED
      BY <3>1, <3>3, <3>4 DEF TypeOK
  <2>3. VictimLoaded'
    BY <1>h, <1>1 DEF ClampScore, VictimLoaded, GoTo, TypeOK
  <2> QED
    BY <1>h, <2>1, <2>2, <2>3 DEF ClampScore, TypeOK, redisVars
<1> QED
  BY <1>a, <1>b, <1>c, <1>d, <1>e, <1>f, <1>g, <1>h DEF DeleteStep

LEMMA TypeEnvironment ==
    ASSUME TypeInv,
           \/ \E u \in Users, c \in Challenges : AttemptsExpire(u, c)
           \/ \E c \in Challenges : ToggleOpen(c)
           \/ Crash
           \/ UNCHANGED vars
    PROVE  TypeInv'
<1> USE DEF TypeInv
<1>a. CASE \E u \in Users, c \in Challenges : AttemptsExpire(u, c)
  <2> PICK u \in Users, c \in Challenges : AttemptsExpire(u, c)
    BY <1>a
  <2>1. /\ attempts' \in [Users -> [Challenges -> Nat]]
        /\ expiring' \in [Users -> [Challenges -> BOOLEAN]]
    BY DEF AttemptsExpire, TypeOK
  <2> QED
    BY <2>1 DEF AttemptsExpire, TypeOK, VictimLoaded, handlerVars, scoreVars
<1>b. CASE \E c \in Challenges : ToggleOpen(c)
  BY <1>b DEF ToggleOpen, TypeOK, VictimLoaded, handlerVars, scoreVars, redisVars
<1>c. CASE Crash
  <2>1. pc' \in [Handlers -> Stages]
    BY <1>c DEF Crash, Stopped, TypeOK, RequestStages
  <2>2. crashes' \in 0..MaxCrashes
    BY <1>c, SubmissionAssumption DEF Crash, TypeOK
  <2>3. VictimLoaded'
    BY <1>c DEF Crash, Stopped, TypeOK, VictimLoaded
  <2> QED
    BY <1>c, <2>1, <2>2, <2>3 DEF Crash, TypeOK, scoreVars, redisVars
<1>d. CASE UNCHANGED vars
  BY <1>d DEF vars, TypeOK, VictimLoaded
<1> QED
  BY <1>a, <1>b, <1>c, <1>d

LEMMA TypeStep == TypeInv /\ [Next]_vars => TypeInv'
BY TypeSubmit, TypeDelete, TypeEnvironment DEF Next

\* Every variable keeps its type, whatever calls and crashes interleave.
THEOREM TypeCorrect == Spec => []TypeOK
<1>1. Spec => []TypeInv
  BY TypeInit, TypeStep, PTL DEF Spec
<1>2. TypeInv => TypeOK
  BY DEF TypeInv
<1> QED
  BY <1>1, <1>2, PTL

------------------------------------------------------------------------------
(* One solve per player *)

\* A step stores at most one new document, and only past the unique index.
LEMMA StoredStep ==
    ASSUME TypeOK, [Next]_vars
    PROVE  \/ \A r \in Requests : subs'[r] \in {subs[r], NoSubmission}
           \/ \E r \in Requests : \E ok \in BOOLEAN :
                /\ InsertSubmission(r)
                /\ ~DuplicateKey(NewSubmission(r, ok))
                /\ subs' = [subs EXCEPT ![r] = NewSubmission(r, ok)]
                /\ pc' = [pc EXCEPT ![r] = IF ok THEN "fanout" ELSE "saveAttempt"]
<1>1. CASE \E r \in Requests : InsertSubmission(r)
  BY <1>1 DEF InsertSubmission, GoTo
<1>2. CASE \E r \in Requests : SubmitStep(r) /\ ~InsertSubmission(r)
  BY <1>2 DEF SubmitStep, CheckRate, LoadChallenge, CheckUserSolve, CheckTeamSolve,
              SaveAttempt, IncrAttempts, ExpireAttempts, CreditUser, CreditTeam,
              RecordSolve, FinishSolve, ResetAttempts
<1>3. CASE \E d \in Deletions : DeleteStep(d)
  BY <1>3 DEF DeleteStep, FindSubmission, RemoveIncorrect, RemoveSubmission, DebitUser,
              DebitTeam, UncountSolve, FinishDelete, ClampScore, TypeOK
<1>4. CASE \/ \E u \in Users, c \in Challenges : AttemptsExpire(u, c)
           \/ \E c \in Challenges : ToggleOpen(c)
           \/ Crash
           \/ UNCHANGED vars
  BY <1>4 DEF AttemptsExpire, ToggleOpen, Crash, vars
<1> QED
  BY <1>1, <1>2, <1>3, <1>4 DEF Next

LEMMA OneSolveStep ==
    ASSUME TypeOK, TypeOK', OneSolvePerUser, [Next]_vars
    PROVE  OneSolvePerUser'
<1>1. CASE \A r \in Requests : subs'[r] \in {subs[r], NoSubmission}
  BY <1>1 DEF OneSolvePerUser, Correct, Stored
<1>2. ASSUME NEW n \in Requests, NEW ok \in BOOLEAN,
             ~DuplicateKey(NewSubmission(n, ok)),
             subs' = [subs EXCEPT ![n] = NewSubmission(n, ok)]
      PROVE  OneSolvePerUser'
  <2> DEFINE new == NewSubmission(n, ok)
  <2>1. new \in Submissions
    BY NewSubmissionType
  <2>2. \A r \in Requests : subs'[r] = IF r = n THEN new ELSE subs[r]
    BY <1>2 DEF TypeOK
  <2>3. new.isCorrect => ~UserSolved(new.user, new.challenge)
    BY <1>2 DEF DuplicateKey
  <2> HIDE DEF new
  <2>4. \A r \in Correct' : (r = n /\ new.isCorrect) \/ (r # n /\ r \in Correct)
    BY <2>2 DEF Correct, Stored
  <2>5. \A r \in Correct : r # n /\ new.isCorrect =>
            ~(subs'[r].user = new.user /\ subs'[r].challenge = new.challenge)
    BY <2>2, <2>3 DEF UserSolved, Correct, Stored
  <2> SUFFICES ASSUME NEW r \in Correct', NEW q \in Correct',
                      subs'[r].user = subs'[q].user,
                      subs'[r].challenge = subs'[q].challenge,
                      r # q
               PROVE  FALSE
    BY DEF OneSolvePerUser
  <2>6. r \in Requests /\ q \in Requests
    BY DEF Correct, Stored
  <2>7. CASE r = n
    BY <2>7, <2>2, <2>4, <2>5, <2>6
  <2>8. CASE q = n
    BY <2>8, <2>2, <2>4, <2>5, <2>6
  <2>9. CASE r # n /\ q # n
    BY <2>9, <2>2, <2>4, <2>6 DEF OneSolvePerUser
  <2> QED
    BY <2>7, <2>8, <2>9
<1> QED
  BY <1>1, <1>2, StoredStep

\* No interleaving of submissions, deletions and crashes leaves a player two
\* correct submissions for one challenge.
THEOREM OneSolvePerUserHolds == Spec => []OneSolvePerUser
<1>1. Init => OneSolvePerUser
  BY DEF Init, OneSolvePerUser, Correct, Stored
<1>2. TypeOK /\ TypeOK' /\ OneSolvePerUser /\ [Next]_vars => OneSolvePerUser'
  BY OneSolveStep
<1> QED
  BY <1>1, <1>2, TypeCorrect, PTL DEF Spec

------------------------------------------------------------------------------
(* The ledger, while nothing is deleted *)

\* Before its insert a call has no document; while its writes are in flight it
\* has the one it inserted.
Inserted ==
    \A r \in Requests :
        /\ pc[r] \in {"idle", "load", "userCheck", "teamCheck", "insert"} =>
               subs[r] = NoSubmission
        /\ pc[r] \in {"fanout", "conflict"} => subs[r] = Mine(r)

LEMMA InsertedStep ==
    ASSUME TypeOK, Inserted, Deletions = {}, [Next]_vars
    PROVE  Inserted'
<1>1. ASSUME NEW r \in Requests, SubmitStep(r)
      PROVE  Inserted'
  <2> SUFFICES ASSUME NEW q \in Requests
               PROVE  /\ pc'[q] \in {"idle", "load", "userCheck", "teamCheck", "insert"} =>
                             subs'[q] = NoSubmission
                      /\ pc'[q] \in {"fanout", "conflict"} => subs'[q] = Mine(q)'
    BY DEF Inserted
  <2>1. CASE q # r
    <3>1. /\ pc'[q] = pc[q] /\ snap'[q] = snap[q] /\ req' = req /\ subs'[q] = subs[q]
      BY <1>1, <2>1 DEF SubmitStep, CheckRate, LoadChallenge, CheckUserSolve,
         CheckTeamSolve, InsertSubmission, SaveAttempt, IncrAttempts, ExpireAttempts,
         CreditUser, CreditTeam, RecordSolve, FinishSolve, ResetAttempts, GoTo, TypeOK
    <3>2. Mine(q)' = Mine(q)
      BY <3>1 DEF Mine, NewSubmission
    <3> QED
      BY <3>1, <3>2 DEF Inserted
  <2>2. CASE q = r /\ (CheckRate(r) \/ LoadChallenge(r) \/ CheckUserSolve(r)
                       \/ CheckTeamSolve(r))
    BY <2>2 DEF CheckRate, LoadChallenge, CheckUserSolve, CheckTeamSolve, GoTo, TypeOK,
                Inserted
  <2>3. CASE q = r /\ InsertSubmission(r)
    <3> PICK ok \in BOOLEAN :
          LET s == NewSubmission(r, ok) IN
          IF DuplicateKey(s)
          THEN GoTo(r, "failed") /\ UNCHANGED subs
          ELSE /\ subs' = [subs EXCEPT ![r] = s]
               /\ GoTo(r, IF ok THEN "fanout" ELSE "saveAttempt")
      BY <2>3 DEF InsertSubmission
    <3>1. Mine(r)' = Mine(r)
      BY <2>3 DEF InsertSubmission, Mine, NewSubmission
    <3>2. CASE DuplicateKey(NewSubmission(r, ok))
      BY <2>3, <3>2 DEF GoTo, TypeOK
    <3>3. CASE ~DuplicateKey(NewSubmission(r, ok))
      <4>1. subs'[r] = NewSubmission(r, ok)
        BY <3>3 DEF TypeOK
      <4>2. pc'[r] = IF ok THEN "fanout" ELSE "saveAttempt"
        BY <3>3 DEF GoTo, TypeOK
      <4> QED
        BY <2>3, <3>1, <4>1, <4>2 DEF Mine
    <3> QED
      BY <3>2, <3>3
  <2>4. CASE q = r /\ (SaveAttempt(r) \/ IncrAttempts(r) \/ ExpireAttempts(r)
                       \/ FinishSolve(r) \/ ResetAttempts(r))
    BY <2>4 DEF SaveAttempt, IncrAttempts, ExpireAttempts, FinishSolve, ResetAttempts,
                GoTo, TypeOK
  <2>5. CASE q = r /\ (CreditUser(r) \/ CreditTeam(r) \/ RecordSolve(r))
    <3>1. pc[r] \in {"fanout", "conflict"} /\ pc'[r] \in {"fanout", "conflict"}
      BY <2>5 DEF CreditUser, CreditTeam, RecordSolve, InFlight, GoTo, TypeOK
    <3>2. Mine(r)' = Mine(r) /\ subs' = subs
      BY <2>5 DEF CreditUser, CreditTeam, RecordSolve, Mine, NewSubmission
    <3> QED
      BY <2>5, <3>1, <3>2 DEF Inserted
  <2> QED
    BY <1>1, <2>1, <2>2, <2>3, <2>4, <2>5 DEF SubmitStep
<1>2. CASE \/ \E u \in Users, c \in Challenges : AttemptsExpire(u, c)
           \/ \E c \in Challenges : ToggleOpen(c)
           \/ UNCHANGED vars
  <2>1. pc' = pc /\ subs' = subs /\ snap' = snap /\ req' = req
    BY <1>2 DEF AttemptsExpire, ToggleOpen, vars, handlerVars
  <2> QED
    BY <2>1 DEF Inserted, Mine, NewSubmission
<1>3. CASE Crash
  <2>1. subs' = subs /\ snap' = snap /\ req' = req
    BY <1>3 DEF Crash
  <2>2. \A r \in Requests : \/ pc'[r] \in {pc[r], "crashed"}
                            \/ pc[r] = "expire" /\ pc'[r] = "cutOff"
    BY <1>3 DEF Crash, Stopped, TypeOK
  <2> QED
    BY <2>1, <2>2 DEF Inserted, Mine, NewSubmission
<1> QED
  BY <1>1, <1>2, <1>3 DEF Next

\* What a step may do to submissions, scores and credits.
LEMMA PaidStep ==
    ASSUME TypeOK, Inserted, Deletions = {}, [Next]_vars
    PROVE  \/ /\ UNCHANGED <<subs, userDoc, teamDoc>>
              /\ \A r \in Requests : landed'[r] \in {landed[r], landed[r] \cup {"challenge"}}
           \/ \E r \in Requests : CreditUser(r) \/ CreditTeam(r)
           \/ \E r \in Requests : \E ok \in BOOLEAN :
                /\ subs[r] = NoSubmission /\ UNCHANGED <<userDoc, teamDoc, landed>>
                /\ ~DuplicateKey(NewSubmission(r, ok))
                /\ subs' = [subs EXCEPT ![r] = NewSubmission(r, ok)]
<1>1. ASSUME NEW r \in Requests, InsertSubmission(r)
      PROVE  \/ UNCHANGED <<subs, userDoc, teamDoc, landed>>
             \/ \E ok \in BOOLEAN :
                  /\ subs[r] = NoSubmission /\ UNCHANGED <<userDoc, teamDoc, landed>>
                  /\ ~DuplicateKey(NewSubmission(r, ok))
                /\ ~DuplicateKey(NewSubmission(r, ok))
                  /\ subs' = [subs EXCEPT ![r] = NewSubmission(r, ok)]
  BY <1>1 DEF InsertSubmission, Inserted, scoreVars
<1>2. ASSUME NEW r \in Requests, RecordSolve(r)
      PROVE  /\ UNCHANGED <<subs, userDoc, teamDoc>>
             /\ \A q \in Requests : landed'[q] \in {landed[q], landed[q] \cup {"challenge"}}
  BY <1>2 DEF RecordSolve, Land, scoreVars, TypeOK
<1>3. ASSUME NEW r \in Requests, SubmitStep(r), ~InsertSubmission(r), ~CreditUser(r),
             ~CreditTeam(r), ~RecordSolve(r)
      PROVE  UNCHANGED <<subs, userDoc, teamDoc, landed>>
  BY <1>3 DEF SubmitStep, CheckRate, LoadChallenge, CheckUserSolve, CheckTeamSolve,
              SaveAttempt, IncrAttempts, ExpireAttempts, FinishSolve, ResetAttempts,
              scoreVars
<1>4. CASE \/ \E u \in Users, c \in Challenges : AttemptsExpire(u, c)
           \/ \E c \in Challenges : ToggleOpen(c)
           \/ Crash
           \/ UNCHANGED vars
  BY <1>4 DEF AttemptsExpire, ToggleOpen, Crash, vars, scoreVars, handlerVars
<1> QED
  BY <1>1, <1>2, <1>3, <1>4 DEF Next

LEMMA CorrectAfterInsert ==
    ASSUME TypeOK, NEW n \in Requests, NEW ok \in BOOLEAN, subs[n] = NoSubmission,
           subs' = [subs EXCEPT ![n] = NewSubmission(n, ok)]
    PROVE  /\ \A r \in Correct : r # n /\ subs'[r] = subs[r]
           /\ Correct' = IF ok THEN Correct \cup {n} ELSE Correct
           /\ subs'[n] = NewSubmission(n, ok)
<1>1. NewSubmission(n, ok) \in Submissions /\ NewSubmission(n, ok).isCorrect = ok
  BY NewSubmissionType DEF NewSubmission
<1>2. NewSubmission(n, ok) # NoSubmission
  BY <1>1, NoSubmissionAssumption
<1>3. subs'[n] = NewSubmission(n, ok)
      /\ \A r \in Requests : r # n => subs'[r] = subs[r]
  BY DEF TypeOK
<1>4. \A r \in Correct : r # n /\ subs'[r] = subs[r]
  BY <1>3 DEF Correct, Stored
<1>5. \A r \in Requests : r # n => (r \in Correct' <=> r \in Correct)
  BY <1>3 DEF Correct, Stored
<1>6. n \in Correct' <=> ok
  BY <1>1, <1>2, <1>3 DEF Correct, Stored
<1>7. n \notin Correct
  BY DEF Correct, Stored
<1>8. Correct \subseteq Requests /\ Correct' \subseteq Requests
  BY DEF Correct, Stored
<1> QED
  BY <1>3, <1>4, <1>5, <1>6, <1>7, <1>8

LEMMA InsertedHolds ==
    ASSUME Deletions = {}
    PROVE  Spec => [](TypeOK /\ OneSolvePerUser /\ Inserted)
<1>1. Init => Inserted
  BY StagesAtFirst DEF Init, Inserted
<1>2. TypeOK /\ Inserted /\ [Next]_vars => Inserted'
  BY InsertedStep
<1> QED
  BY <1>1, <1>2, TypeCorrect, OneSolvePerUserHolds, PTL DEF Spec

\* A call that credits one side has its correct submission, has not credited that
\* side before, and leaves the submissions and the other side as they were.
LEMMA CreditFacts ==
    ASSUME TypeOK, Inserted, NEW r \in Requests, NEW side \in {"user", "team"},
           InFlight(r, side), Land(r, side), subs' = subs
    PROVE  /\ r \in Correct /\ subs[r] = Mine(r)
           /\ subs[r].user \in Users /\ subs[r].challenge \in Challenges
           /\ side = "team" => subs[r].team \in Teams
           /\ Entries' = Entries
           /\ <<r, side>> \notin Credited
           /\ Credited' = Credited \cup {<<r, side>>}
<1>1. subs[r] = Mine(r) /\ Mine(r) \in Submissions
  BY NewSubmissionType DEF InFlight, Inserted, Mine
<1>2. r \in Correct
  BY <1>1, NoSubmissionAssumption DEF Mine, NewSubmission, Correct, Stored
<1>3. subs[r].user \in Users /\ subs[r].challenge \in Challenges
  BY <1>1 DEF Submissions
<1>4. side = "team" => subs[r].team \in Teams
  BY <1>1, SubmissionAssumption DEF InFlight, SolveWrites, Mine, NewSubmission, TypeOK
<1>5. Entries' = Entries
  BY DEF Entries, LedgerEntry, Correct, Stored
<1>6. \A q \in Requests : \A w \in {"user", "team"} :
        w \in landed'[q] <=> w \in landed[q] \/ (q = r /\ w = side)
  <2> SUFFICES ASSUME NEW q \in Requests, NEW w \in {"user", "team"}
               PROVE  w \in landed'[q] <=> w \in landed[q] \/ (q = r /\ w = side)
    OBVIOUS
  <2>1. landed'[q] = IF q = r THEN landed[q] \cup {side} ELSE landed[q]
    BY DEF Land, TypeOK
  <2> QED
    BY <2>1
<1>7. Credited' = Credited \cup {<<r, side>>}
  <2>1. ASSUME NEW p \in Requests \X {"user", "team"}
        PROVE  p \in Credited' <=> p \in Credited \cup {<<r, side>>}
    <3>1. p[1] \in Requests /\ p[2] \in {"user", "team"} /\ p = <<p[1], p[2]>>
      OBVIOUS
    <3>2. p[2] \in landed'[p[1]] <=> p[2] \in landed[p[1]] \/ p = <<r, side>>
      BY <1>6, <3>1
    <3> QED
      BY <3>2 DEF Credited
  <2> QED
    BY <2>1 DEF Credited
<1>8. <<r, side>> \notin Credited
  BY DEF InFlight, Credited
<1> QED
  BY <1>1, <1>2, <1>3, <1>4, <1>5, <1>7, <1>8

\* A step that the ledger allows, or that it does not see.
LedgerAllows == [Ledger!Next]_Ledger!vars

LEMMA CreditUserMaps ==
    ASSUME TypeOK, Inserted, NEW r \in Requests, CreditUser(r)
    PROVE  LedgerAllows
<1>1. InFlight(r, "user") /\ Land(r, "user") /\ subs' = subs /\ teamDoc' = teamDoc
  BY DEF CreditUser
<1>2. /\ r \in Correct /\ subs[r] = Mine(r)
      /\ Entries' = Entries
      /\ <<r, "user">> \notin Credited
      /\ Credited' = Credited \cup {<<r, "user">>}
  BY <1>1, CreditFacts
<1>3. Entries[r] = LedgerEntry(r) /\ r \in DOMAIN Entries
  BY <1>2 DEF Entries
<1>4. userDoc' = [userDoc EXCEPT ![Entries[r].user] = Ledger!Plus(@, Entries[r])]
  BY <1>2, <1>3 DEF CreditUser, LedgerEntry, Ledger!Plus
<1>5. Ledger!CreditPlayer(r)
  BY <1>1, <1>2, <1>3, <1>4 DEF Ledger!CreditPlayer, Ledger!Reaches, Entries
<1> QED
  BY <1>3, <1>5 DEF LedgerAllows, Ledger!Next, Entries

LEMMA CreditTeamMaps ==
    ASSUME TypeOK, Inserted, NEW r \in Requests, CreditTeam(r)
    PROVE  LedgerAllows
<1>1. InFlight(r, "team") /\ Land(r, "team") /\ subs' = subs /\ userDoc' = userDoc
  BY DEF CreditTeam
<1>2. /\ r \in Correct /\ subs[r] = Mine(r) /\ subs[r].team \in Teams
      /\ Entries' = Entries
      /\ <<r, "team">> \notin Credited
      /\ Credited' = Credited \cup {<<r, "team">>}
  BY <1>1, CreditFacts
<1>3. Entries[r] = LedgerEntry(r) /\ r \in DOMAIN Entries /\ Entries[r].team # NoTeam
  BY <1>2, SubmissionAssumption DEF Entries, LedgerEntry
<1>4. teamDoc' = [teamDoc EXCEPT ![Entries[r].team] = Ledger!Plus(@, Entries[r])]
  BY <1>2, <1>3 DEF CreditTeam, LedgerEntry, Ledger!Plus
<1>5. Ledger!CreditTeam(r)
  BY <1>1, <1>2, <1>3, <1>4 DEF Ledger!CreditTeam, Ledger!Reaches, Entries
<1> QED
  BY <1>3, <1>5 DEF LedgerAllows, Ledger!Next, Entries

LEMMA InsertMaps ==
    ASSUME TypeOK, NEW n \in Requests, NEW ok \in BOOLEAN, subs[n] = NoSubmission,
           UNCHANGED <<userDoc, teamDoc, landed>>,
           ~DuplicateKey(NewSubmission(n, ok)),
           subs' = [subs EXCEPT ![n] = NewSubmission(n, ok)]
    PROVE  LedgerAllows
<1> DEFINE new == NewSubmission(n, ok)
           s == [user |-> new.user, team |-> new.team, challenge |-> new.challenge,
                 points |-> new.points]
<1>1. /\ \A r \in Correct : r # n /\ subs'[r] = subs[r]
      /\ Correct' = IF ok THEN Correct \cup {n} ELSE Correct
      /\ subs'[n] = new
  BY CorrectAfterInsert
<1>2. /\ new \in Submissions
      /\ ok => ~UserSolved(new.user, new.challenge)
  BY NewSubmissionType DEF DuplicateKey, NewSubmission
<1>3. Credited' = Credited
  BY DEF Credited
<1> HIDE DEF new
<1>4. \A r \in Correct : LedgerEntry(r)' = LedgerEntry(r)
  BY <1>1 DEF LedgerEntry
<1>5. LedgerEntry(n)' = s
  BY <1>1 DEF LedgerEntry
<1>6. CASE ~ok
  <2>1. Entries' = Entries
    BY <1>1, <1>4, <1>6 DEF Entries
  <2> QED
    BY <1>3, <2>1 DEF LedgerAllows, Ledger!vars, Entries
<1>7. CASE ok
  <2>1. Entries' = [j \in DOMAIN Entries \cup {n} |-> IF j = n THEN s ELSE Entries[j]]
    BY <1>1, <1>4, <1>5, <1>7 DEF Entries
  <2>2. n \in Requests \ DOMAIN Entries /\ n \in DOMAIN Entries' /\ Entries'[n] = s
    BY <1>1, <2>1 DEF Entries
  <2>3. s \in Ledger!Solve
    BY <1>2 DEF Ledger!Solve, Submissions
  <2>4. \A i \in Correct : ~(LedgerEntry(i).user = new.user
                             /\ LedgerEntry(i).challenge = new.challenge)
    BY <1>2, <1>7 DEF UserSolved, LedgerEntry
  <2>5. ~Ledger!SolvedBefore(s.user, s.challenge)
    BY <2>4 DEF Ledger!SolvedBefore, Entries
  <2>6. Ledger!Record(n, s)
    BY <1>3, <2>1, <2>2, <2>3, <2>5 DEF Ledger!Record, Entries
  <2> QED
    BY <2>2, <2>6 DEF LedgerAllows, Ledger!Next, Entries
<1> QED
  BY <1>6, <1>7

LEMMA LedgerStep ==
    ASSUME TypeOK, Inserted, Deletions = {}, [Next]_vars
    PROVE  LedgerAllows
<1>1. CASE /\ UNCHANGED <<subs, userDoc, teamDoc>>
           /\ \A r \in Requests : landed'[r] \in {landed[r], landed[r] \cup {"challenge"}}
  <2>1. Entries' = Entries
    BY <1>1 DEF Entries, LedgerEntry, Correct, Stored
  <2>2. \A q \in Requests : \A w \in {"user", "team"} : w \in landed'[q] <=> w \in landed[q]
    BY <1>1
  <2>3. Credited' = Credited
    BY <2>2 DEF Credited
  <2> QED
    BY <1>1, <2>1, <2>3 DEF LedgerAllows, Ledger!vars, Entries
<1> QED
  BY <1>1, CreditUserMaps, CreditTeamMaps, InsertMaps, PaidStep

\* As long as nothing is deleted, flag submission implements the ledger, for any
\* number of overlapping calls, teams and crashes: each solve is recorded once,
\* under its own identity, and each account takes its recorded points at most
\* once and changes in no other way.
THEOREM SubmissionImplementsLedger ==
    ASSUME Deletions = {}
    PROVE  Spec => ImplementsLedger
<1>1. Init => Ledger!Init
  <2> SUFFICES ASSUME Init PROVE Ledger!Init
    OBVIOUS
  <2>1. Correct = {} /\ Credited = {}
    BY DEF Init, Correct, Stored, Credited
  <2>2. Entries = [i \in {} |-> Ledger!Empty]
    BY <2>1 DEF Entries
  <2> QED
    BY <2>1, <2>2 DEF Init, Ledger!Init, Ledger!Empty, NoTally, Entries
<1>2. TypeOK /\ Inserted /\ [Next]_vars => [Ledger!Next]_Ledger!vars
  BY LedgerStep DEF LedgerAllows
<1> QED
  BY <1>1, <1>2, InsertedHolds, PTL DEF Spec, ImplementsLedger, Ledger!Spec

------------------------------------------------------------------------------
(* First blood, while nothing is deleted *)

LEMMA CorrectGrows ==
    ASSUME TypeOK, Inserted, Deletions = {}, [Next]_vars
    PROVE  \A r \in Correct : r \in Correct' /\ subs'[r] = subs[r]
<1>1. CASE UNCHANGED subs
  BY <1>1 DEF Correct, Stored
<1>2. ASSUME NEW r \in Requests, CreditUser(r) \/ CreditTeam(r)
      PROVE  UNCHANGED subs
  BY <1>2 DEF CreditUser, CreditTeam
<1>3. ASSUME NEW n \in Requests, NEW ok \in BOOLEAN, subs[n] = NoSubmission,
             subs' = [subs EXCEPT ![n] = NewSubmission(n, ok)]
      PROVE  \A r \in Correct : r \in Correct' /\ subs'[r] = subs[r]
  BY <1>3, CorrectAfterInsert
<1> QED
  BY <1>1, <1>2, <1>3, PaidStep

\* A challenge has a submission that is flagged as first blood.
Flagged(c) == \E r \in SolvesOf(c) : subs[r].isFirstBlood

\* A call that has seen a first blood loaded it after it was flagged.
SeenBloodIsFlagged ==
    \A r \in Requests :
        pc[r] \in {"userCheck", "teamCheck", "insert"}
        /\ snap[r].firstBlood # NoUser => Flagged(req[r].challenge)

BloodInv == FirstBloodIsFlagged /\ SeenBloodIsFlagged /\ SomeoneDrewFirstBlood

LEMMA FlaggedStays ==
    ASSUME TypeOK, Inserted, Deletions = {}, [Next]_vars, NEW c, Flagged(c)
    PROVE  Flagged(c)'
BY CorrectGrows DEF Flagged, SolvesOf

\* Only recordSolve, on a snapshot without one, sets a first blood.
LEMMA FirstBloodStep ==
    ASSUME TypeOK, Deletions = {}, [Next]_vars, NEW c \in Challenges
    PROVE  \/ chal'[c].firstBlood = chal[c].firstBlood
           \/ \E r \in Requests :
                /\ pc[r] = "fanout" /\ req[r].challenge = c
                /\ snap[r].firstBlood = NoUser
                /\ chal'[c].firstBlood = req[r].user
<1>1. ASSUME NEW r \in Requests, RecordSolve(r)
      PROVE  \/ chal'[c].firstBlood = chal[c].firstBlood
             \/ /\ pc[r] = "fanout" /\ req[r].challenge = c
                /\ snap[r].firstBlood = NoUser
                /\ chal'[c].firstBlood = req[r].user
  BY <1>1 DEF RecordSolve, SavedSolve, TypeOK
<1>2. ASSUME NEW r \in Requests, SaveAttempt(r)
      PROVE  chal'[c].firstBlood = chal[c].firstBlood
  <2>1. chal[c] \in ChallengeDocs
    BY DEF TypeOK
  <2> QED
    BY <1>2, <2>1 DEF SaveAttempt, TypeOK, ChallengeDocs
<1>3. ASSUME NEW r \in Requests, SubmitStep(r), ~RecordSolve(r), ~SaveAttempt(r)
      PROVE  chal' = chal
  BY <1>3 DEF SubmitStep, CheckRate, LoadChallenge, CheckUserSolve, CheckTeamSolve,
              InsertSubmission, IncrAttempts, ExpireAttempts, CreditUser, CreditTeam,
              FinishSolve, ResetAttempts
<1>4. CASE \/ \E u \in Users, d \in Challenges : AttemptsExpire(u, d)
           \/ \E d \in Challenges : ToggleOpen(d)
           \/ Crash
           \/ UNCHANGED vars
  BY <1>4 DEF AttemptsExpire, ToggleOpen, Crash, vars
<1> QED
  BY <1>1, <1>2, <1>3, <1>4 DEF Next

\* A call works on the snapshot it loaded; it reaches a stage between the load
\* and the insert from the stage before it.
LEMMA SnapshotStep ==
    ASSUME TypeOK, Deletions = {}, [Next]_vars, NEW r \in Requests
    PROVE  /\ req' = req
           /\ \/ snap'[r] = snap[r]
              \/ snap'[r] = chal[req[r].challenge] /\ pc[r] = "load"
           /\ pc'[r] \in {"userCheck", "teamCheck", "insert"} =>
                \/ pc[r] \in {"userCheck", "teamCheck", "insert"} /\ snap'[r] = snap[r]
                \/ snap'[r] = chal[req[r].challenge]
           /\ pc'[r] = "fanout" => pc[r] \in {"insert", "fanout"} /\ snap'[r] = snap[r]
<1>1. ASSUME NEW q \in Requests, SubmitStep(q), q # r
      PROVE  req' = req /\ pc'[r] = pc[r] /\ snap'[r] = snap[r]
  BY <1>1 DEF SubmitStep, CheckRate, LoadChallenge, CheckUserSolve, CheckTeamSolve,
     InsertSubmission, SaveAttempt, IncrAttempts, ExpireAttempts, CreditUser,
     CreditTeam, RecordSolve, FinishSolve, ResetAttempts, GoTo, TypeOK
<1>2. CASE LoadChallenge(r)
  BY <1>2 DEF LoadChallenge, GoTo, TypeOK
<1>3. CASE SubmitStep(r) /\ ~LoadChallenge(r)
  <2>1. req' = req /\ snap' = snap
    BY <1>3 DEF SubmitStep, CheckRate, CheckUserSolve, CheckTeamSolve,
       InsertSubmission, SaveAttempt, IncrAttempts, ExpireAttempts, CreditUser,
       CreditTeam, RecordSolve, FinishSolve, ResetAttempts
  <2>2. /\ pc'[r] \in {"userCheck", "teamCheck", "insert"} =>
              pc[r] \in {"userCheck", "teamCheck", "insert"}
        /\ pc'[r] = "fanout" => pc[r] \in {"insert", "fanout"}
    BY <1>3 DEF SubmitStep, CheckRate, CheckUserSolve, CheckTeamSolve,
       InsertSubmission, SaveAttempt, IncrAttempts, ExpireAttempts, CreditUser,
       CreditTeam, RecordSolve, FinishSolve, ResetAttempts, InFlight, GoTo, TypeOK
  <2> QED
    BY <2>1, <2>2
<1>4. CASE \/ \E u \in Users, d \in Challenges : AttemptsExpire(u, d)
           \/ \E d \in Challenges : ToggleOpen(d)
           \/ UNCHANGED vars
  BY <1>4 DEF AttemptsExpire, ToggleOpen, vars, handlerVars
<1>5. CASE Crash
  BY <1>5 DEF Crash, Stopped, TypeOK
<1> QED
  BY <1>1, <1>2, <1>3, <1>4, <1>5 DEF Next

\* The submissions change only by the insert of a call that had none.
LEMMA InsertStep ==
    ASSUME TypeOK, Inserted, Deletions = {}, [Next]_vars
    PROVE  \/ subs' = subs
           \/ \E n \in Requests : \E ok \in BOOLEAN :
                /\ InsertSubmission(n) /\ subs[n] = NoSubmission
                /\ subs' = [subs EXCEPT ![n] = NewSubmission(n, ok)]
<1>1. ASSUME NEW r \in Requests, InsertSubmission(r)
      PROVE  \/ subs' = subs
             \/ \E ok \in BOOLEAN :
                  /\ subs[r] = NoSubmission
                  /\ subs' = [subs EXCEPT ![r] = NewSubmission(r, ok)]
  BY <1>1 DEF InsertSubmission, Inserted
<1>2. ASSUME NEW r \in Requests, SubmitStep(r), ~InsertSubmission(r)
      PROVE  subs' = subs
  BY <1>2 DEF SubmitStep, CheckRate, LoadChallenge, CheckUserSolve, CheckTeamSolve,
              SaveAttempt, IncrAttempts, ExpireAttempts, CreditUser, CreditTeam,
              RecordSolve, FinishSolve, ResetAttempts
<1>3. CASE \/ \E u \in Users, c \in Challenges : AttemptsExpire(u, c)
           \/ \E c \in Challenges : ToggleOpen(c)
           \/ Crash
           \/ UNCHANGED vars
  BY <1>3 DEF AttemptsExpire, ToggleOpen, Crash, vars
<1> QED
  BY <1>1, <1>2, <1>3 DEF Next

LEMMA BloodStep ==
    ASSUME TypeOK, Inserted, BloodInv, Deletions = {}, [Next]_vars
    PROVE  BloodInv'
<1> USE DEF BloodInv
<1>1. FirstBloodIsFlagged'
  <2> SUFFICES ASSUME NEW c \in Challenges, chal'[c].firstBlood # NoUser
               PROVE  \E r \in SolvesOf(c)' : subs'[r].user = chal'[c].firstBlood
                                              /\ subs'[r].isFirstBlood
    BY DEF FirstBloodIsFlagged
  <2>1. CASE chal'[c].firstBlood = chal[c].firstBlood
    <3>1. PICK r \in SolvesOf(c) :
            subs[r].user = chal[c].firstBlood /\ subs[r].isFirstBlood
      BY <2>1 DEF FirstBloodIsFlagged
    <3> QED
      BY <2>1, <3>1, CorrectGrows DEF SolvesOf
  <2>2. ASSUME NEW r \in Requests, pc[r] = "fanout", req[r].challenge = c,
               snap[r].firstBlood = NoUser, chal'[c].firstBlood = req[r].user
        PROVE  \E q \in SolvesOf(c)' : subs'[q].user = chal'[c].firstBlood
                                       /\ subs'[q].isFirstBlood
    <3>1. subs[r] = Mine(r) /\ Mine(r) \in Submissions
      BY <2>2, NewSubmissionType DEF Inserted, Mine
    <3>2. /\ Mine(r).isCorrect /\ Mine(r).isFirstBlood
          /\ Mine(r).user = req[r].user /\ Mine(r).challenge = c
      BY <2>2 DEF Mine, NewSubmission
    <3>3. r \in Correct
      BY <3>1, <3>2, NoSubmissionAssumption DEF Correct, Stored
    <3> QED
      BY <2>2, <3>1, <3>2, <3>3, CorrectGrows DEF SolvesOf
  <2> QED
    BY <2>1, <2>2, FirstBloodStep
<1>2. SeenBloodIsFlagged'
  <2> SUFFICES ASSUME NEW r \in Requests,
                      pc'[r] \in {"userCheck", "teamCheck", "insert"},
                      snap'[r].firstBlood # NoUser
               PROVE  Flagged(req[r].challenge)'
    BY SnapshotStep DEF SeenBloodIsFlagged
  <2> PICK c \in Challenges : c = req[r].challenge
    BY DEF TypeOK
  <2>1. Flagged(c)
    <3>1. CASE pc[r] \in {"userCheck", "teamCheck", "insert"} /\ snap'[r] = snap[r]
      BY <3>1 DEF SeenBloodIsFlagged
    <3>2. CASE snap'[r] = chal[c]
      BY <3>2 DEF FirstBloodIsFlagged, Flagged
    <3> QED
      BY <3>1, <3>2, SnapshotStep
  <2>2. Flagged(c)'
    BY <2>1, FlaggedStays
  <2>3. req' = req
    BY SnapshotStep
  <2> QED
    BY <2>2, <2>3 DEF Flagged, SolvesOf
<1>3. SomeoneDrewFirstBlood'
  <2> SUFFICES ASSUME NEW c \in Challenges, SolvesOf(c)' # {}
               PROVE  Flagged(c)'
    BY DEF SomeoneDrewFirstBlood, Flagged
  <2>1. CASE SolvesOf(c) # {}
    BY <2>1, FlaggedStays DEF SomeoneDrewFirstBlood, Flagged
  <2>2. CASE SolvesOf(c) = {}
    <3>1. CASE subs' = subs
      BY <2>2, <3>1 DEF SolvesOf, Correct, Stored
    <3>2. ASSUME NEW n \in Requests, NEW ok \in BOOLEAN, InsertSubmission(n),
                 subs[n] = NoSubmission,
                 subs' = [subs EXCEPT ![n] = NewSubmission(n, ok)]
          PROVE  Flagged(c)'
      <4> DEFINE new == NewSubmission(n, ok)
      <4>1. /\ \A r \in Correct : r # n /\ subs'[r] = subs[r]
            /\ Correct' = IF ok THEN Correct \cup {n} ELSE Correct
            /\ subs'[n] = new
        BY <3>2, CorrectAfterInsert
      <4>2. /\ new.challenge = req[n].challenge
            /\ new.isFirstBlood = (ok /\ snap[n].firstBlood = NoUser)
        BY DEF NewSubmission
      <4> HIDE DEF new
      <4>3. ok /\ req[n].challenge = c
        BY <2>2, <4>1, <4>2 DEF SolvesOf
      <4>4. n \in SolvesOf(c)'
        BY <4>1, <4>2, <4>3 DEF SolvesOf
      <4>5. CASE snap[n].firstBlood = NoUser
        BY <4>1, <4>2, <4>3, <4>4, <4>5 DEF Flagged
      <4>6. CASE snap[n].firstBlood # NoUser
        BY <3>2, <4>3, <4>6, FlaggedStays DEF InsertSubmission, SeenBloodIsFlagged
      <4> QED
        BY <4>5, <4>6
    <3> QED
      BY <3>1, <3>2, InsertStep
  <2> QED
    BY <2>1, <2>2
<1> QED
  BY <1>1, <1>2, <1>3

\* As long as nothing is deleted, the first blood of a challenge is a player
\* with a flagged correct submission for it.
LEMMA FirstBloodHolds ==
    ASSUME Deletions = {}
    PROVE  Spec => []FirstBloodIsFlagged
<1>1. Init => BloodInv
  BY DEF Init, BloodInv, FirstBloodIsFlagged, SeenBloodIsFlagged, SomeoneDrewFirstBlood,
         NewChallenge, SolvesOf, Correct, Stored
<1>2. TypeOK /\ Inserted /\ BloodInv /\ [Next]_vars => BloodInv'
  BY BloodStep
<1>3. BloodInv => FirstBloodIsFlagged
  BY DEF BloodInv
<1> QED
  BY <1>1, <1>2, <1>3, InsertedHolds, PTL DEF Spec

\* As long as nothing is deleted, concurrent first solvers cannot all miss the
\* first blood.
LEMMA SomeoneDrawsFirstBlood ==
    ASSUME Deletions = {}
    PROVE  Spec => []SomeoneDrewFirstBlood
<1>1. Init => BloodInv
  BY DEF Init, BloodInv, FirstBloodIsFlagged, SeenBloodIsFlagged, SomeoneDrewFirstBlood,
         NewChallenge, SolvesOf, Correct, Stored
<1>2. TypeOK /\ Inserted /\ BloodInv /\ [Next]_vars => BloodInv'
  BY BloodStep
<1>3. BloodInv => SomeoneDrewFirstBlood
  BY DEF BloodInv
<1> QED
  BY <1>1, <1>2, <1>3, InsertedHolds, PTL DEF Spec

------------------------------------------------------------------------------
(* The solve count, while nothing is deleted *)

\* What a call saw, and what it is about to save, is not ahead of the solves.
SnapshotNotAhead ==
    \A r \in Requests :
        /\ pc[r] \in {"userCheck", "teamCheck", "insert"} =>
               snap[r].solveCount <= Cardinality(SolvesOf(req[r].challenge))
        /\ pc[r] = "fanout" =>
               snap[r].solveCount + 1 <= Cardinality(SolvesOf(req[r].challenge))

CountInv == SolveCountNotAhead /\ SnapshotNotAhead

LEMMA SolvesFinite ==
    ASSUME NEW c
    PROVE  IsFiniteSet(SolvesOf(c)) /\ Cardinality(SolvesOf(c)) \in Nat
<1>1. SolvesOf(c) \subseteq Requests
  BY DEF SolvesOf, Correct, Stored
<1>2. IsFiniteSet(Requests)
  BY SubmissionAssumption
<1> QED
  BY <1>1, <1>2, FS_Subset, FS_CardinalityType

LEMMA SolvesFiniteNext ==
    ASSUME NEW c
    PROVE  IsFiniteSet(SolvesOf(c)') /\ Cardinality(SolvesOf(c)') \in Nat
<1>1. SolvesOf(c)' \subseteq Requests
  BY DEF SolvesOf, Correct, Stored
<1>2. IsFiniteSet(Requests)
  BY SubmissionAssumption
<1> QED
  BY <1>1, <1>2, FS_Subset, FS_CardinalityType

LEMMA SolvesGrow ==
    ASSUME TypeOK, Inserted, Deletions = {}, [Next]_vars, NEW c
    PROVE  Cardinality(SolvesOf(c)) <= Cardinality(SolvesOf(c)')
<1>1. SolvesOf(c) \subseteq SolvesOf(c)'
  BY CorrectGrows DEF SolvesOf
<1> QED
  BY <1>1, SolvesFinite, SolvesFiniteNext, FS_Subset

\* Only recordSolve changes a solve count, to its snapshot's plus one.
LEMMA SolveCountStep ==
    ASSUME TypeOK, Deletions = {}, [Next]_vars, NEW c \in Challenges
    PROVE  \/ chal'[c].solveCount = chal[c].solveCount
           \/ \E r \in Requests :
                /\ pc[r] = "fanout" /\ req[r].challenge = c
                /\ chal'[c].solveCount = snap[r].solveCount + 1
<1>1. ASSUME NEW r \in Requests, RecordSolve(r)
      PROVE  \/ chal'[c].solveCount = chal[c].solveCount
             \/ /\ pc[r] = "fanout" /\ req[r].challenge = c
                /\ chal'[c].solveCount = snap[r].solveCount + 1
  BY <1>1 DEF RecordSolve, SavedSolve, TypeOK
<1>2. ASSUME NEW r \in Requests, SaveAttempt(r)
      PROVE  chal'[c].solveCount = chal[c].solveCount
  <2>1. chal[c] \in ChallengeDocs
    BY DEF TypeOK
  <2> QED
    BY <1>2, <2>1 DEF SaveAttempt, TypeOK, ChallengeDocs
<1>3. ASSUME NEW r \in Requests, SubmitStep(r), ~RecordSolve(r), ~SaveAttempt(r)
      PROVE  chal' = chal
  BY <1>3 DEF SubmitStep, CheckRate, LoadChallenge, CheckUserSolve, CheckTeamSolve,
              InsertSubmission, IncrAttempts, ExpireAttempts, CreditUser, CreditTeam,
              FinishSolve, ResetAttempts
<1>4. CASE \/ \E u \in Users, d \in Challenges : AttemptsExpire(u, d)
           \/ \E d \in Challenges : ToggleOpen(d)
           \/ Crash
           \/ UNCHANGED vars
  BY <1>4 DEF AttemptsExpire, ToggleOpen, Crash, vars
<1> QED
  BY <1>1, <1>2, <1>3, <1>4 DEF Next

\* The insert that takes a call to its writes adds one solve.
LEMMA InsertAddsSolve ==
    ASSUME TypeOK, Inserted, Deletions = {}, [Next]_vars,
           NEW r \in Requests, pc[r] = "insert", pc'[r] = "fanout",
           NEW c, c = req[r].challenge
    PROVE  Cardinality(SolvesOf(c)') = Cardinality(SolvesOf(c)) + 1
<1>1. PICK n \in Requests : SubmitStep(n) /\ pc'[n] # pc[n]
  BY DEF Next, Stopped, AttemptsExpire, ToggleOpen, Crash, vars, handlerVars, TypeOK, SubmitStep,
     CheckRate, LoadChallenge, CheckUserSolve, CheckTeamSolve, InsertSubmission,
     SaveAttempt, IncrAttempts, ExpireAttempts, CreditUser, CreditTeam, RecordSolve,
     FinishSolve, ResetAttempts, GoTo
<1>2. InsertSubmission(r)
  BY <1>1 DEF SubmitStep, CheckRate, LoadChallenge, CheckUserSolve, CheckTeamSolve,
     InsertSubmission, SaveAttempt, IncrAttempts, ExpireAttempts, CreditUser,
     CreditTeam, RecordSolve, FinishSolve, ResetAttempts, InFlight, GoTo, TypeOK
<1>3. PICK ok \in BOOLEAN :
        /\ subs' = [subs EXCEPT ![r] = NewSubmission(r, ok)]
        /\ pc'[r] = IF ok THEN "fanout" ELSE "saveAttempt"
  BY <1>2 DEF InsertSubmission, GoTo, TypeOK
<1>4. ok /\ subs[r] = NoSubmission
  BY <1>2, <1>3 DEF InsertSubmission, Inserted
<1>5. /\ \A q \in Correct : q # r /\ subs'[q] = subs[q]
      /\ Correct' = Correct \cup {r}
      /\ subs'[r] = NewSubmission(r, ok)
  BY <1>3, <1>4, CorrectAfterInsert
<1>6. NewSubmission(r, ok).challenge = c
  BY DEF NewSubmission
<1>7. SolvesOf(c)' = SolvesOf(c) \cup {r} /\ r \notin SolvesOf(c)
  BY <1>5, <1>6 DEF SolvesOf
<1> QED
  BY <1>7, SolvesFinite, FS_AddElement

LEMMA CountStep ==
    ASSUME TypeOK, TypeOK', Inserted, CountInv, Deletions = {}, [Next]_vars
    PROVE  CountInv'
<1> USE DEF CountInv
<1>1. SolveCountNotAhead'
  <2> SUFFICES ASSUME NEW c \in Challenges
               PROVE  chal'[c].solveCount <= Cardinality(SolvesOf(c)')
    BY DEF SolveCountNotAhead
  <2>1. /\ chal[c].solveCount \in Int /\ chal'[c].solveCount \in Int
        /\ \A r \in Requests : snap[r].solveCount \in Int
        /\ Cardinality(SolvesOf(c)) \in Nat /\ Cardinality(SolvesOf(c)') \in Nat
    BY SolvesFinite, SolvesFiniteNext DEF TypeOK, ChallengeDocs
  <2>2. chal'[c].solveCount <= Cardinality(SolvesOf(c))
    BY SolveCountStep DEF SolveCountNotAhead, SnapshotNotAhead
  <2> QED
    BY <2>1, <2>2, SolvesGrow
<1>2. SnapshotNotAhead'
  <2> SUFFICES ASSUME NEW r \in Requests
               PROVE  /\ pc'[r] \in {"userCheck", "teamCheck", "insert"} =>
                             snap'[r].solveCount <=
                             Cardinality(SolvesOf(req[r].challenge)')
                      /\ pc'[r] = "fanout" =>
                             snap'[r].solveCount + 1 <=
                             Cardinality(SolvesOf(req[r].challenge)')
    BY SnapshotStep DEF SnapshotNotAhead
  <2> PICK c \in Challenges : c = req[r].challenge
    BY DEF TypeOK
  <2>1. req' = req /\ SolvesOf(req[r].challenge)' = SolvesOf(c)'
    BY SnapshotStep DEF SolvesOf
  <2>2. /\ snap[r].solveCount \in Int /\ snap'[r].solveCount \in Int
        /\ chal[c].solveCount \in Int
        /\ Cardinality(SolvesOf(c)) \in Nat /\ Cardinality(SolvesOf(c)') \in Nat
    BY SolvesFinite, SolvesFiniteNext DEF TypeOK, ChallengeDocs
  <2>3. Cardinality(SolvesOf(c)) <= Cardinality(SolvesOf(c)')
    BY SolvesGrow
  <2>4. ASSUME pc'[r] \in {"userCheck", "teamCheck", "insert"}
        PROVE  snap'[r].solveCount <= Cardinality(SolvesOf(c))
    BY <2>4, SnapshotStep DEF SnapshotNotAhead, SolveCountNotAhead
  <2>5. ASSUME pc'[r] = "fanout"
        PROVE  snap'[r].solveCount + 1 <= Cardinality(SolvesOf(c)')
    <3>1. CASE pc[r] = "fanout"
      <4>1. snap[r].solveCount + 1 <= Cardinality(SolvesOf(c)) /\ snap'[r] = snap[r]
        BY <2>5, <3>1, SnapshotStep DEF SnapshotNotAhead
      <4> QED
        BY <4>1, <2>2, <2>3
    <3>2. CASE pc[r] = "insert"
      <4>1. snap[r].solveCount <= Cardinality(SolvesOf(c)) /\ snap'[r] = snap[r]
        BY <2>5, <3>2, SnapshotStep DEF SnapshotNotAhead
      <4>2. Cardinality(SolvesOf(c)') = Cardinality(SolvesOf(c)) + 1
        BY <2>5, <3>2, InsertAddsSolve
      <4> QED
        BY <4>1, <4>2, <2>2
    <3> QED
      BY <2>5, <3>1, <3>2, SnapshotStep
  <2> QED
    BY <2>1, <2>2, <2>3, <2>4, <2>5
<1> QED
  BY <1>1, <1>2

\* As long as nothing is deleted, a challenge never counts more solves than
\* were made, although every save writes a number from an older read.
LEMMA SolveCountHolds ==
    ASSUME Deletions = {}
    PROVE  Spec => []SolveCountNotAhead
<1>1. Init => CountInv
  <2> SUFFICES ASSUME Init PROVE CountInv
    OBVIOUS
  <2>1. \A c : Cardinality(SolvesOf(c)) \in Nat
    BY SolvesFinite
  <2> QED
    BY <2>1, StagesAtFirst DEF Init, CountInv, SolveCountNotAhead, SnapshotNotAhead,
                               NewChallenge
<1>2. TypeOK /\ TypeOK' /\ Inserted /\ CountInv /\ [Next]_vars => CountInv'
  BY CountStep
<1>3. CountInv => SolveCountNotAhead
  BY DEF CountInv
<1> QED
  BY <1>1, <1>2, <1>3, InsertedHolds, PTL DEF Spec

\* While nothing is deleted, what recordSolve keeps on a challenge follows the
\* submissions, for any number of concurrent submissions and crashes.
THEOREM ChallengeFollowsSolvesHolds ==
    ASSUME Deletions = {}
    PROVE  Spec => []ChallengeFollowsSolves
<1>1. SolveCountNotAhead /\ FirstBloodIsFlagged /\ SomeoneDrewFirstBlood =>
          ChallengeFollowsSolves
  BY DEF ChallengeFollowsSolves
<1>2. /\ Spec => []SolveCountNotAhead
      /\ Spec => []FirstBloodIsFlagged
      /\ Spec => []SomeoneDrewFirstBlood
  BY SolveCountHolds, FirstBloodHolds, SomeoneDrawsFirstBlood
<1> QED
  BY <1>1, <1>2, PTL

------------------------------------------------------------------------------
(* Sums over finite sets: the points of the community module's fold *)

\* g is the sum of w over each subset of S, whatever the order.
IsTotal(g, w, S) ==
    /\ g \in [SUBSET S -> Int]
    /\ g[{}] = 0
    /\ \A T \in SUBSET S : \A x \in T : g[T] = w[x] + g[T \ {x}]

Pick(T) == CHOOSE x \in T : TRUE

\* g satisfies the recursive definition that SumFunctionOnSet unfolds to.
IsFold(g, w, S) ==
    g = [T \in SUBSET S |-> IF T = {} THEN 0 ELSE w[Pick(T)] + g[T \ {Pick(T)}]]

\* Induction over the subsets of a finite set, as a smallest counterexample.
LEMMA SmallestSubset ==
    ASSUME NEW S, IsFiniteSet(S), NEW Bad \in SUBSET (SUBSET S), Bad # {}
    PROVE  \E T \in Bad : \A U \in Bad : U \subseteq T => U = T
<1>1. FiniteSubsetsOf(S) = SUBSET S
  BY FS_FiniteSubsetsOfFinite
<1>2. IsWellFoundedOn(StrictSubsetOrdering(S), SUBSET S)
  BY <1>1, FS_StrictSubsetOrderingWellFounded
<1>3. \E T \in Bad : \A U \in Bad : ~ (<<U, T>> \in StrictSubsetOrdering(S))
  BY <1>2, WFMin
<1>4. PICK T \in Bad : \A U \in Bad : ~ (<<U, T>> \in StrictSubsetOrdering(S))
  BY <1>3
<1>5. ASSUME NEW U \in Bad, U \subseteq T, U # T
      PROVE  FALSE
  <2>1. <<U, T>> \in (SUBSET S) \X (SUBSET S)
    OBVIOUS
  <2>2. <<U, T>> \in StrictSubsetOrdering(S)
    BY <1>5, <2>1 DEF StrictSubsetOrdering
  <2> QED
    BY <1>4, <2>2
<1> QED
  BY <1>5

\* A total over all but one element extends to that element.
LEMMA TotalGrows ==
    ASSUME NEW S, NEW x \in S, NEW w, \A y \in S : w[y] \in Int,
           NEW g, IsTotal(g, w, S \ {x})
    PROVE  \E h : IsTotal(h, w, S)
<1> DEFINE R == S \ {x}
           h == [T \in SUBSET S |-> IF x \in T THEN w[x] + g[T \ {x}] ELSE g[T]]
<1>1. \A T \in SUBSET S : T \ {x} \in SUBSET R /\ (x \notin T => T \in SUBSET R)
  OBVIOUS
<1>2. /\ \A T \in SUBSET R : g[T] \in Int
      /\ g[{}] = 0
      /\ \A T \in SUBSET R : \A y \in T : g[T] = w[y] + g[T \ {y}]
  BY DEF IsTotal
<1>3. h \in [SUBSET S -> Int]
  BY <1>1, <1>2
<1>4. h[{}] = 0
  BY <1>2
<1>5. ASSUME NEW T \in SUBSET S, NEW y \in T
      PROVE  h[T] = w[y] + h[T \ {y}]
  <2>1. T \ {y} \in SUBSET S
    OBVIOUS
  <2>2. CASE x \notin T
    <3>1. T \in SUBSET R /\ h[T] = g[T] /\ h[T \ {y}] = g[T \ {y}]
      BY <2>1, <2>2
    <3> QED
      BY <1>2, <3>1
  <2>3. CASE y = x
    <3>1. h[T] = w[x] + g[T \ {x}] /\ h[T \ {y}] = g[T \ {x}]
      BY <2>1, <2>3
    <3> QED
      BY <2>3, <3>1
  <2>4. CASE x \in T /\ y # x
    <3>1. h[T] = w[x] + g[T \ {x}] /\ h[T \ {y}] = w[x] + g[(T \ {y}) \ {x}]
      BY <2>1, <2>4
    <3>2. T \ {x} \in SUBSET R /\ y \in T \ {x}
      BY <2>4
    <3>3. g[T \ {x}] = w[y] + g[(T \ {x}) \ {y}]
      BY <1>2, <3>2
    <3>4. (T \ {x}) \ {y} = (T \ {y}) \ {x} /\ (T \ {y}) \ {x} \in SUBSET R
      BY <2>4
    <3>5. w[x] \in Int /\ w[y] \in Int /\ g[(T \ {y}) \ {x}] \in Int
      BY <1>2, <3>4
    <3>6. \A a, b, c \in Int : a + (b + c) = b + (a + c)
      OBVIOUS
    <3>7. w[x] + (w[y] + g[(T \ {y}) \ {x}]) = w[y] + (w[x] + g[(T \ {y}) \ {x}])
      BY <3>5, <3>6
    <3> HIDE DEF h, R
    <3> QED
      BY <3>1, <3>3, <3>4, <3>7
  <2> QED
    BY <2>2, <2>3, <2>4
<1> HIDE DEF h
<1> QED
  BY <1>3, <1>4, <1>5 DEF IsTotal

\* Every finite set has a total.
LEMMA TotalExists ==
    ASSUME NEW S, IsFiniteSet(S), NEW w, \A y \in S : w[y] \in Int
    PROVE  \E g : IsTotal(g, w, S)
<1> DEFINE Bad == {T \in SUBSET S : ~ \E g : IsTotal(g, w, T)}
<1> SUFFICES ASSUME Bad # {} PROVE FALSE
  OBVIOUS
<1>1. Bad \in SUBSET (SUBSET S)
  OBVIOUS
<1> HIDE DEF Bad
<1>2. PICK T \in Bad : \A U \in Bad : U \subseteq T => U = T
  BY <1>1, SmallestSubset
<1> USE DEF Bad
<1>3. CASE T = {}
  <2> DEFINE g == [U \in {{}} |-> 0]
  <2>1. g \in [SUBSET {} -> Int] /\ g[{}] = 0
    OBVIOUS
  <2>2. IsTotal(g, w, {})
    BY <2>1 DEF IsTotal
  <2> QED
    BY <1>3, <2>2
<1>4. CASE T # {}
  <2> PICK x \in T : TRUE
    BY <1>4
  <2>1. T \ {x} \notin Bad
    BY <1>2
  <2>2. PICK g : IsTotal(g, w, T \ {x})
    BY <2>1
  <2>3. \A y \in T : w[y] \in Int
    OBVIOUS
  <2> QED
    BY <2>2, <2>3, TotalGrows
<1> QED
  BY <1>3, <1>4

\* Totals do not depend on the order, so they satisfy the recursive definition.
LEMMA TotalIsFold ==
    ASSUME NEW S, NEW w, NEW g, IsTotal(g, w, S)
    PROVE  IsFold(g, w, S)
<1>1. ASSUME NEW T \in SUBSET S
      PROVE  g[T] = IF T = {} THEN 0 ELSE w[Pick(T)] + g[T \ {Pick(T)}]
  <2>1. T # {} => Pick(T) \in T
    BY DEF Pick
  <2> QED
    BY <2>1 DEF IsTotal
<1> QED
  BY <1>1 DEF IsTotal, IsFold

\* The recursive definition has one solution.
LEMMA FoldIsUnique ==
    ASSUME NEW S, IsFiniteSet(S), NEW w, NEW g, NEW h,
           IsFold(g, w, S), IsFold(h, w, S)
    PROVE  g = h
<1> DEFINE Bad == {T \in SUBSET S : g[T] # h[T]}
<1>1. CASE Bad = {}
  BY <1>1 DEF IsFold
<1>2. ASSUME Bad # {} PROVE FALSE
  <2>1. Bad \in SUBSET (SUBSET S)
    OBVIOUS
  <2> HIDE DEF Bad
  <2>2. PICK T \in Bad : \A U \in Bad : U \subseteq T => U = T
    BY <1>2, <2>1, SmallestSubset
  <2> USE DEF Bad
  <2>3. /\ g[T] = IF T = {} THEN 0 ELSE w[Pick(T)] + g[T \ {Pick(T)}]
        /\ h[T] = IF T = {} THEN 0 ELSE w[Pick(T)] + h[T \ {Pick(T)}]
    BY DEF IsFold
  <2>4. T # {} => Pick(T) \in T
    BY DEF Pick
  <2>5. T # {} => g[T \ {Pick(T)}] = h[T \ {Pick(T)}]
    BY <2>2, <2>4
  <2> QED
    BY <2>3, <2>5
<1> QED
  BY <1>1, <1>2

\* What SumFunctionOnSet computes is the total.
LEMMA SumIsTotal ==
    ASSUME NEW S, IsFiniteSet(S), NEW w, NEW g, IsTotal(g, w, S)
    PROVE  SumFunctionOnSet(w, S) = g[S]
<1> DEFINE f == CHOOSE h : IsFold(h, w, S)
<1>1. IsFold(g, w, S)
  BY TotalIsFold
<1>2. IsFold(f, w, S)
  BY <1>1
<1>3. f = g
  BY <1>1, <1>2, FoldIsUnique
<1>4. SumFunctionOnSet(w, S) = f[S]
  BY DEF SumFunctionOnSet, FoldFunctionOnSet, MapThenFoldSet, IsFold, Pick
<1> QED
  BY <1>3, <1>4

\* The total over a set holds the totals over its subsets.
LEMMA TotalOnSubset ==
    ASSUME NEW S, NEW T \in SUBSET S, NEW w, NEW v, \A x \in T : v[x] = w[x],
           NEW g, IsTotal(g, w, S)
    PROVE  \E h : IsTotal(h, v, T) /\ h[T] = g[T]
<1> DEFINE h == [U \in SUBSET T |-> g[U]]
<1>1. h \in [SUBSET T -> Int] /\ h[{}] = 0 /\ h[T] = g[T]
  BY DEF IsTotal
<1>2. ASSUME NEW U \in SUBSET T, NEW x \in U
      PROVE  h[U] = v[x] + h[U \ {x}]
  <2>1. g[U] = w[x] + g[U \ {x}]
    BY DEF IsTotal
  <2> QED
    BY <2>1
<1> HIDE DEF h
<1> QED
  BY <1>1, <1>2 DEF IsTotal

\* The sum over no element.
LEMMA SumOfNone == ASSUME NEW w PROVE SumFunctionOnSet(w, {}) = 0
<1>1. IsFiniteSet({})
  BY FS_EmptySet
<1>2. PICK g : IsTotal(g, w, {})
  BY <1>1, TotalExists
<1> QED
  BY <1>1, <1>2, SumIsTotal DEF IsTotal

\* The sum after one more element.
LEMMA SumAfterAdd ==
    ASSUME NEW S, IsFiniteSet(S), NEW x, x \notin S, NEW w, NEW v,
           \A y \in S : w[y] \in Int /\ v[y] = w[y], v[x] \in Int
    PROVE  SumFunctionOnSet(v, S \cup {x}) = SumFunctionOnSet(w, S) + v[x]
<1> DEFINE T == S \cup {x}
<1>1. IsFiniteSet(T) /\ \A y \in T : v[y] \in Int
  BY FS_AddElement
<1>2. PICK g : IsTotal(g, v, T)
  BY <1>1, TotalExists
<1>3. PICK h : IsTotal(h, w, S) /\ h[S] = g[S]
  <2>1. S \in SUBSET T /\ \A y \in S : w[y] = v[y]
    OBVIOUS
  <2> HIDE DEF T
  <2> QED
    BY <1>2, <2>1, TotalOnSubset
<1>4. SumFunctionOnSet(v, T) = g[T] /\ SumFunctionOnSet(w, S) = g[S]
  BY <1>1, <1>2, <1>3, SumIsTotal
<1>5. g[T] = v[x] + g[S] /\ g[S] \in Int
  <2>1. T \ {x} = S /\ x \in T /\ T \in SUBSET T /\ S \in SUBSET T
    OBVIOUS
  <2> HIDE DEF T
  <2> QED
    BY <1>2, <2>1 DEF IsTotal
<1>6. \A a \in Int : v[x] + a = a + v[x]
  OBVIOUS
<1> QED
  BY <1>4, <1>5, <1>6

\* The sum of weights that agree.
LEMMA SumOfSame ==
    ASSUME NEW S, IsFiniteSet(S), NEW w, NEW v,
           \A y \in S : w[y] \in Int /\ v[y] = w[y]
    PROVE  SumFunctionOnSet(v, S) = SumFunctionOnSet(w, S) /\ SumFunctionOnSet(w, S) \in Int
<1>1. PICK g : IsTotal(g, w, S)
  BY TotalExists
<1>2. PICK h : IsTotal(h, v, S) /\ h[S] = g[S]
  BY <1>1, TotalOnSubset
<1>3. g[S] \in Int
  BY <1>1 DEF IsTotal
<1> QED
  BY <1>1, <1>2, <1>3, SumIsTotal

\* The sets of solves that are added up are finite, and what they weigh counts.
LEMMA PaidFinite ==
    ASSUME TypeOK, NEW S \in SUBSET Correct
    PROVE  /\ IsFiniteSet(S)
           /\ \A r \in S : subs[r].points \in Int /\ subs[r].points >= 0
<1>1. S \subseteq Requests /\ IsFiniteSet(Requests)
  BY SubmissionAssumption DEF Correct, Stored
<1>2. IsFiniteSet(S)
  BY <1>1, FS_Subset
<1>3. \A r \in S : subs[r] \in Submissions
  BY DEF TypeOK, Correct, Stored
<1> QED
  BY <1>2, <1>3 DEF Submissions

LEMMA PointsKept ==
    ASSUME TypeOK, NEW S \in SUBSET Correct, \A r \in S : subs'[r] = subs[r]
    PROVE  /\ SumFunctionOnSet([r \in S |-> subs'[r].points], S) = PointsOf(S)
           /\ {subs'[r].challenge : r \in S} = ChallengesOf(S)
<1>1. [r \in S |-> subs'[r].points] = [r \in S |-> subs[r].points]
  OBVIOUS
<1> QED
  BY <1>1 DEF PointsOf, ChallengesOf

LEMMA PointsAdded ==
    ASSUME TypeOK, NEW S \in SUBSET Correct, NEW r \in Correct, r \notin S
    PROVE  PointsOf(S \cup {r}) = PointsOf(S) + subs[r].points
<1> DEFINE w == [q \in S |-> subs[q].points]
           v == [q \in S \cup {r} |-> subs[q].points]
<1>1. /\ IsFiniteSet(S)
      /\ \A q \in S \cup {r} : subs[q].points \in Int
  BY PaidFinite
<1>2. /\ \A q \in S : w[q] \in Int /\ v[q] = w[q]
      /\ v[r] = subs[r].points /\ v[r] \in Int
  BY <1>1
<1>3. PointsOf(S) = SumFunctionOnSet(w, S)
      /\ PointsOf(S \cup {r}) = SumFunctionOnSet(v, S \cup {r})
  BY DEF PointsOf
<1> HIDE DEF w, v
<1>4. SumFunctionOnSet(v, S \cup {r}) = SumFunctionOnSet(w, S) + v[r]
  <2>1. /\ IsFiniteSet(S) /\ r \notin S /\ v[r] \in Int
        /\ \A q \in S : w[q] \in Int /\ v[q] = w[q]
    BY <1>1, <1>2
  <2> QED
    BY <2>1, SumAfterAdd
<1> QED
  BY <1>2, <1>3, <1>4

------------------------------------------------------------------------------
(* The scores, while nothing is deleted *)

\* A correct submission's call is at its writes or past them, past them only
\* with its player credited, and no other call has written a score.
PaidInOrder ==
    \A r \in Requests :
        /\ r \in Correct =>
              pc[r] \in {"fanout", "conflict", "reset", "done", "crashed"}
        /\ r \in Correct /\ pc[r] \in {"reset", "done"} => "user" \in landed[r]
        /\ landed[r] # {} => r \in Correct

ScoreInv == UserScoreIsLedger /\ TeamScoreIsLedger /\ PaidInOrder

LEMMA PaidInOrderStep ==
    ASSUME TypeOK, TypeOK', Inserted, PaidInOrder, Deletions = {}, [Next]_vars
    PROVE  PaidInOrder'
<1>1. ASSUME NEW r \in Requests, SubmitStep(r)
      PROVE  PaidInOrder'
  <2> SUFFICES ASSUME NEW q \in Requests
               PROVE  /\ q \in Correct' =>
                           pc'[q] \in {"fanout", "conflict", "reset", "done", "crashed"}
                      /\ q \in Correct' /\ pc'[q] \in {"reset", "done"} =>
                           "user" \in landed'[q]
                      /\ landed'[q] # {} => q \in Correct'
    BY DEF PaidInOrder
  <2>1. CASE q # r
    <3>1. pc'[q] = pc[q] /\ subs'[q] = subs[q] /\ landed'[q] = landed[q]
      BY <1>1, <2>1 DEF SubmitStep, CheckRate, LoadChallenge, CheckUserSolve,
         CheckTeamSolve, InsertSubmission, SaveAttempt, IncrAttempts, ExpireAttempts,
         CreditUser, CreditTeam, RecordSolve, FinishSolve, ResetAttempts, GoTo, Land,
         TypeOK
    <3> QED
      BY <3>1 DEF PaidInOrder, Correct, Stored
  <2>2. CASE q = r /\ (CheckRate(r) \/ LoadChallenge(r) \/ CheckUserSolve(r)
                       \/ CheckTeamSolve(r))
    <3>1. /\ subs[r] = NoSubmission /\ subs' = subs /\ landed' = landed
      BY <2>2 DEF CheckRate, LoadChallenge, CheckUserSolve, CheckTeamSolve, Inserted
    <3> QED
      BY <2>2, <3>1 DEF PaidInOrder, Correct, Stored
  <2>3. CASE q = r /\ InsertSubmission(r)
    <3> PICK ok \in BOOLEAN :
          LET s == NewSubmission(r, ok) IN
          IF DuplicateKey(s)
          THEN GoTo(r, "failed") /\ UNCHANGED subs
          ELSE /\ subs' = [subs EXCEPT ![r] = s]
               /\ GoTo(r, IF ok THEN "fanout" ELSE "saveAttempt")
      BY <2>3 DEF InsertSubmission
    <3>1. subs[r] = NoSubmission /\ landed'[r] = {}
      BY <2>3 DEF InsertSubmission, Inserted, PaidInOrder, Correct, Stored
    <3>2. CASE DuplicateKey(NewSubmission(r, ok))
      BY <2>3, <3>1, <3>2 DEF Correct, Stored
    <3>3. CASE ~DuplicateKey(NewSubmission(r, ok))
      <4>1. subs'[r] = NewSubmission(r, ok)
        BY <3>3 DEF TypeOK
      <4>2. pc'[r] = IF ok THEN "fanout" ELSE "saveAttempt"
        BY <3>3 DEF GoTo, TypeOK
      <4>3. r \in Correct' => ok
        BY <4>1 DEF Correct, Stored, NewSubmission
      <4> QED
        BY <2>3, <3>1, <4>2, <4>3
    <3> QED
      BY <3>2, <3>3
  <2>4. CASE q = r /\ (SaveAttempt(r) \/ IncrAttempts(r) \/ ExpireAttempts(r))
    <3>1. subs' = subs /\ landed' = landed /\ r \notin Correct
      BY <2>4 DEF SaveAttempt, IncrAttempts, ExpireAttempts, PaidInOrder
    <3> QED
      BY <2>4, <3>1 DEF PaidInOrder, Correct, Stored
  <2>5. CASE q = r /\ (FinishSolve(r) \/ ResetAttempts(r))
    <3>1. subs' = subs /\ landed' = landed /\ pc'[r] \in {"reset", "done"}
      BY <2>5 DEF FinishSolve, ResetAttempts, GoTo, TypeOK
    <3>2. r \in Correct => "user" \in landed[r]
      BY <2>5 DEF FinishSolve, ResetAttempts, SolveWrites, PaidInOrder
    <3> QED
      BY <2>5, <3>1, <3>2 DEF PaidInOrder, Correct, Stored
  <2>6. CASE q = r /\ (CreditUser(r) \/ CreditTeam(r) \/ RecordSolve(r))
    <3>1. /\ pc[r] \in {"fanout", "conflict"} /\ pc'[r] \in {"fanout", "conflict"}
          /\ subs' = subs
      BY <2>6 DEF CreditUser, CreditTeam, RecordSolve, InFlight, GoTo, TypeOK
    <3>2. subs[r] = NewSubmission(r, TRUE) /\ NewSubmission(r, TRUE) \in Submissions
      BY <3>1, NewSubmissionType DEF Inserted, Mine
    <3>3. r \in Correct'
      BY <3>1, <3>2, NoSubmissionAssumption DEF Correct, Stored, NewSubmission
    <3> QED
      BY <2>6, <3>1, <3>3
  <2> QED
    BY <1>1, <2>1, <2>2, <2>3, <2>4, <2>5, <2>6 DEF SubmitStep
<1>2. CASE \/ \E u \in Users, c \in Challenges : AttemptsExpire(u, c)
           \/ \E c \in Challenges : ToggleOpen(c)
           \/ UNCHANGED vars
  <2>1. pc' = pc /\ subs' = subs /\ landed' = landed
    BY <1>2 DEF AttemptsExpire, ToggleOpen, vars, handlerVars
  <2> QED
    BY <2>1 DEF PaidInOrder, Correct, Stored
<1>3. CASE Crash
  <2>1. subs' = subs /\ landed' = landed
    BY <1>3 DEF Crash
  <2>2. \A r \in Requests : \/ pc'[r] \in {pc[r], "crashed"}
                            \/ pc[r] = "expire" /\ pc'[r] = "cutOff"
    BY <1>3 DEF Crash, Stopped, TypeOK
  <2> QED
    BY <2>1, <2>2 DEF PaidInOrder, Correct, Stored
<1> QED
  BY <1>1, <1>2, <1>3 DEF Next

\* CreditUser adds its submission to what its user was paid, and its points to the score.
LEMMA CreditUserStep ==
    ASSUME TypeOK, Inserted, NEW r \in Requests, CreditUser(r), UserScoreIsLedger
    PROVE  /\ UserScoreIsLedger'
           /\ subs' = subs
           /\ \A q \in Requests : "team" \in landed'[q] <=> "team" \in landed[q]
<1>1. subs[r] = Mine(r) /\ Mine(r) \in Submissions /\ "user" \notin landed[r]
  BY NewSubmissionType DEF CreditUser, InFlight, Inserted, Mine
<1>2. r \in Correct
  BY <1>1, NoSubmissionAssumption DEF Mine, NewSubmission, Correct, Stored
<1>3. /\ subs' = subs /\ Correct' = Correct
      /\ \A q \in Requests : landed'[q] =
           IF q = r THEN landed[q] \cup {"user"} ELSE landed[q]
  BY DEF CreditUser, Land, TypeOK, Correct, Stored
<1>4. ASSUME NEW u \in Users
      PROVE  /\ userDoc'[u].score = PointsOf(PaidToUser(u))'
             /\ userDoc'[u].solved = ChallengesOf(PaidToUser(u))'
  <2> DEFINE S == PaidToUser(u)
  <2>1. S \in SUBSET Correct /\ userDoc[u].score = PointsOf(S)
        /\ userDoc[u].solved = ChallengesOf(S)
    BY DEF PaidToUser, UserScoreIsLedger
  <2>2. CASE u # subs[r].user
    <3>1. userDoc'[u] = userDoc[u]
      BY <1>1, <2>2 DEF CreditUser, TypeOK
    <3>2. PaidToUser(u)' = S
      BY <1>3, <2>2 DEF PaidToUser, Correct, Stored
    <3> HIDE DEF S
    <3> QED
      BY <1>3, <2>1, <3>1, <3>2 DEF PointsOf, ChallengesOf
  <2>3. CASE u = subs[r].user
    <3>1. /\ userDoc'[u].score = userDoc[u].score + subs[r].points
          /\ userDoc'[u].solved = userDoc[u].solved \cup {subs[r].challenge}
      BY <1>1, <2>3 DEF CreditUser, TypeOK
    <3>2. PaidToUser(u)' = S \cup {r} /\ r \notin S
      BY <1>1, <1>2, <1>3, <2>3 DEF PaidToUser, Correct, Stored
    <3> HIDE DEF S
    <3>3. PointsOf(S \cup {r}) = PointsOf(S) + subs[r].points
      BY <1>2, <2>1, <3>2, PointsAdded
    <3>4. ChallengesOf(S \cup {r}) = ChallengesOf(S) \cup {subs[r].challenge}
      BY DEF ChallengesOf
    <3>5. PointsOf(PaidToUser(u))' = PointsOf(S \cup {r})
          /\ ChallengesOf(PaidToUser(u))' = ChallengesOf(S \cup {r})
      BY <1>3, <3>2 DEF PointsOf, ChallengesOf
    <3> QED
      BY <2>1, <3>1, <3>3, <3>4, <3>5
  <2> QED
    BY <2>2, <2>3
<1>5. ASSUME NEW q \in Requests
      PROVE  "team" \in landed'[q] <=> "team" \in landed[q]
  <2>1. CASE q = r
    <3>1. landed'[q] = landed[q] \cup {"user"}
      BY <1>3, <2>1
    <3> QED
      BY <3>1
  <2>2. CASE q # r
    BY <1>3, <2>2
  <2> QED
    BY <2>1, <2>2
<1> QED
  BY <1>3, <1>4, <1>5 DEF UserScoreIsLedger

\* CreditTeam adds its submission to what its team was paid, and its points to the score.
LEMMA CreditTeamStep ==
    ASSUME TypeOK, Inserted, NEW r \in Requests, CreditTeam(r), TeamScoreIsLedger
    PROVE  /\ TeamScoreIsLedger'
           /\ subs' = subs
           /\ \A q \in Requests : "user" \in landed'[q] <=> "user" \in landed[q]
<1>1. subs[r] = Mine(r) /\ Mine(r) \in Submissions /\ "team" \notin landed[r]
  BY NewSubmissionType DEF CreditTeam, InFlight, Inserted, Mine
<1>2. r \in Correct
  BY <1>1, NoSubmissionAssumption DEF Mine, NewSubmission, Correct, Stored
<1>3. /\ subs' = subs /\ Correct' = Correct
      /\ \A q \in Requests : landed'[q] =
           IF q = r THEN landed[q] \cup {"team"} ELSE landed[q]
  BY DEF CreditTeam, Land, TypeOK, Correct, Stored
<1>4. ASSUME NEW t \in Teams
      PROVE  /\ teamDoc'[t].score = PointsOf(PaidToTeam(t))'
             /\ teamDoc'[t].solved = ChallengesOf(PaidToTeam(t))'
  <2> DEFINE S == PaidToTeam(t)
  <2>1. S \in SUBSET Correct /\ teamDoc[t].score = PointsOf(S)
        /\ teamDoc[t].solved = ChallengesOf(S)
    BY DEF PaidToTeam, TeamScoreIsLedger
  <2>2. CASE t # subs[r].team
    <3>1. teamDoc'[t] = teamDoc[t]
      BY <1>1, <2>2 DEF CreditTeam, TypeOK
    <3>2. PaidToTeam(t)' = S
      BY <1>3, <2>2 DEF PaidToTeam, Correct, Stored
    <3> HIDE DEF S
    <3> QED
      BY <1>3, <2>1, <3>1, <3>2 DEF PointsOf, ChallengesOf
  <2>3. CASE t = subs[r].team
    <3>1. /\ teamDoc'[t].score = teamDoc[t].score + subs[r].points
          /\ teamDoc'[t].solved = teamDoc[t].solved \cup {subs[r].challenge}
      BY <1>1, <2>3 DEF CreditTeam, TypeOK
    <3>2. PaidToTeam(t)' = S \cup {r} /\ r \notin S
      BY <1>1, <1>2, <1>3, <2>3 DEF PaidToTeam, Correct, Stored
    <3> HIDE DEF S
    <3>3. PointsOf(S \cup {r}) = PointsOf(S) + subs[r].points
      BY <1>2, <2>1, <3>2, PointsAdded
    <3>4. ChallengesOf(S \cup {r}) = ChallengesOf(S) \cup {subs[r].challenge}
      BY DEF ChallengesOf
    <3>5. PointsOf(PaidToTeam(t))' = PointsOf(S \cup {r})
          /\ ChallengesOf(PaidToTeam(t))' = ChallengesOf(S \cup {r})
      BY <1>3, <3>2 DEF PointsOf, ChallengesOf
    <3> QED
      BY <2>1, <3>1, <3>3, <3>4, <3>5
  <2> QED
    BY <2>2, <2>3
<1>5. ASSUME NEW q \in Requests
      PROVE  "user" \in landed'[q] <=> "user" \in landed[q]
  <2>1. CASE q = r
    <3>1. landed'[q] = landed[q] \cup {"team"}
      BY <1>3, <2>1
    <3> QED
      BY <3>1
  <2>2. CASE q # r
    BY <1>3, <2>2
  <2> QED
    BY <2>1, <2>2
<1> QED
  BY <1>3, <1>4, <1>5 DEF TeamScoreIsLedger

\* A step that leaves documents and paid solves as they were keeps the sums.
LEMMA UnpaidStep ==
    ASSUME TypeOK, UserScoreIsLedger, TeamScoreIsLedger, userDoc' = userDoc,
           teamDoc' = teamDoc,
           \A r \in Correct : subs'[r] = subs[r],
           \A u \in Users : PaidToUser(u)' = PaidToUser(u),
           \A t \in Teams : PaidToTeam(t)' = PaidToTeam(t)
    PROVE  UserScoreIsLedger' /\ TeamScoreIsLedger'
<1>1. ASSUME NEW S \in SUBSET Correct, NEW T, T = S
      PROVE  /\ SumFunctionOnSet([r \in T |-> subs'[r].points], T) = PointsOf(S)
             /\ {subs'[r].challenge : r \in T} = ChallengesOf(S)
  BY <1>1, PointsKept
<1>2. ASSUME NEW u \in Users
      PROVE  /\ userDoc'[u].score = PointsOf(PaidToUser(u))'
             /\ userDoc'[u].solved = ChallengesOf(PaidToUser(u))'
  <2>1. PaidToUser(u) \in SUBSET Correct
    BY DEF PaidToUser
  <2>2. /\ PointsOf(PaidToUser(u))' = PointsOf(PaidToUser(u))
        /\ ChallengesOf(PaidToUser(u))' = ChallengesOf(PaidToUser(u))
    BY <1>1, <2>1 DEF PointsOf, ChallengesOf
  <2> QED
    BY <2>2 DEF UserScoreIsLedger
<1>3. ASSUME NEW t \in Teams
      PROVE  /\ teamDoc'[t].score = PointsOf(PaidToTeam(t))'
             /\ teamDoc'[t].solved = ChallengesOf(PaidToTeam(t))'
  <2>1. PaidToTeam(t) \in SUBSET Correct
    BY DEF PaidToTeam
  <2>2. /\ PointsOf(PaidToTeam(t))' = PointsOf(PaidToTeam(t))
        /\ ChallengesOf(PaidToTeam(t))' = ChallengesOf(PaidToTeam(t))
    BY <1>1, <2>1 DEF PointsOf, ChallengesOf
  <2> QED
    BY <2>2 DEF TeamScoreIsLedger
<1> QED
  BY <1>2, <1>3 DEF UserScoreIsLedger, TeamScoreIsLedger

LEMMA ScoreStep ==
    ASSUME TypeOK, TypeOK', Inserted, ScoreInv, Deletions = {}, [Next]_vars
    PROVE  ScoreInv'
<1> USE DEF ScoreInv
<1>1. PaidInOrder'
  BY PaidInOrderStep
<1>2. CASE /\ UNCHANGED <<subs, userDoc, teamDoc>>
           /\ \A r \in Requests : landed'[r] \in {landed[r], landed[r] \cup {"challenge"}}
  <2>1. \A r \in Requests :
          /\ "user" \in landed'[r] <=> "user" \in landed[r]
          /\ "team" \in landed'[r] <=> "team" \in landed[r]
    BY <1>2
  <2>2. /\ \A r \in Correct : subs'[r] = subs[r]
        /\ Correct' = Correct /\ Correct \subseteq Requests
    BY <1>2 DEF Correct, Stored
  <2>3. /\ \A u \in Users : PaidToUser(u)' = PaidToUser(u)
        /\ \A t \in Teams : PaidToTeam(t)' = PaidToTeam(t)
    BY <2>1, <2>2 DEF PaidToUser, PaidToTeam
  <2> QED
    BY <1>1, <1>2, <2>2, <2>3, UnpaidStep
<1>3. ASSUME NEW r \in Requests, CreditUser(r)
      PROVE  ScoreInv'
  <2>1. /\ UserScoreIsLedger' /\ subs' = subs
        /\ \A q \in Requests : "team" \in landed'[q] <=> "team" \in landed[q]
    BY <1>3, CreditUserStep
  <2>2. teamDoc' = teamDoc /\ Correct' = Correct /\ Correct \subseteq Requests
    BY <1>3, <2>1 DEF CreditUser, Correct, Stored
  <2>3. \A t \in Teams : PaidToTeam(t)' = PaidToTeam(t)
    BY <2>1, <2>2 DEF PaidToTeam
  <2>4. TeamScoreIsLedger'
    BY <2>1, <2>2, <2>3 DEF TeamScoreIsLedger, PointsOf, ChallengesOf
  <2> QED
    BY <1>1, <2>1, <2>4
<1>4. ASSUME NEW r \in Requests, CreditTeam(r)
      PROVE  ScoreInv'
  <2>1. /\ TeamScoreIsLedger' /\ subs' = subs
        /\ \A q \in Requests : "user" \in landed'[q] <=> "user" \in landed[q]
    BY <1>4, CreditTeamStep
  <2>2. userDoc' = userDoc /\ Correct' = Correct /\ Correct \subseteq Requests
    BY <1>4, <2>1 DEF CreditTeam, Correct, Stored
  <2>3. \A u \in Users : PaidToUser(u)' = PaidToUser(u)
    BY <2>1, <2>2 DEF PaidToUser
  <2>4. UserScoreIsLedger'
    BY <2>1, <2>2, <2>3 DEF UserScoreIsLedger, PointsOf, ChallengesOf
  <2> QED
    BY <1>1, <2>1, <2>4
<1>5. ASSUME NEW n \in Requests, NEW ok \in BOOLEAN, subs[n] = NoSubmission,
             UNCHANGED <<userDoc, teamDoc, landed>>,
             subs' = [subs EXCEPT ![n] = NewSubmission(n, ok)]
      PROVE  ScoreInv'
  <2>1. /\ \A r \in Correct : r # n /\ subs'[r] = subs[r]
        /\ Correct' = IF ok THEN Correct \cup {n} ELSE Correct
    BY <1>5, CorrectAfterInsert
  <2>2. landed[n] = {}
    BY <2>1 DEF PaidInOrder
  <2>3. /\ \A u \in Users : PaidToUser(u)' = PaidToUser(u)
        /\ \A t \in Teams : PaidToTeam(t)' = PaidToTeam(t)
    BY <1>5, <2>1, <2>2 DEF PaidToUser, PaidToTeam
  <2> QED
    BY <1>1, <1>5, <2>1, <2>3, UnpaidStep
<1> QED
  BY <1>2, <1>3, <1>4, <1>5, PaidStep

LEMMA ScoreInit == Init => ScoreInv
<1> SUFFICES ASSUME Init PROVE ScoreInv
  OBVIOUS
<1>1. Correct = {}
  BY DEF Init, Correct, Stored
<1>2. /\ \A u : PaidToUser(u) = {}
      /\ \A t : PaidToTeam(t) = {}
  BY <1>1 DEF PaidToUser, PaidToTeam
<1>3. PointsOf({}) = 0 /\ ChallengesOf({}) = {}
  BY SumOfNone DEF PointsOf, ChallengesOf
<1>4. PaidInOrder
  BY <1>1 DEF Init, PaidInOrder
<1> QED
  BY <1>2, <1>3, <1>4 DEF Init, ScoreInv, UserScoreIsLedger, TeamScoreIsLedger, NoTally

\* A call at rest that made a correct submission has credited its player.
LEMMA RestIsPaid ==
    ASSUME PaidInOrder PROVE SolvesPaidAtRest
<1> SUFFICES ASSUME AtRest, NEW r \in Correct, pc[r] # "crashed"
             PROVE  "user" \in landed[r]
  BY DEF SolvesPaidAtRest
<1>1. r \in Requests /\ ~Running(r)
  BY DEF AtRest, Correct, Stored
<1>2. pc[r] \in {"conflict", "reset", "done"}
  BY <1>1 DEF PaidInOrder, Running
<1>3. CASE pc[r] = "conflict"
  BY <1>1, <1>3 DEF Running, InFlight, SolveWrites
<1> QED
  BY <1>1, <1>2, <1>3 DEF PaidInOrder

\* As long as nothing is deleted, the score of every player and of every team is
\* the sum of the points of the correct submissions whose credit has landed, for
\* any number of overlapping calls and crashes.
THEOREM ScoresAreLedgerHolds ==
    ASSUME Deletions = {}
    PROVE  Spec => []ScoresAreLedger
<1>1. Init => ScoreInv
  BY ScoreInit
<1>2. TypeOK /\ TypeOK' /\ Inserted /\ ScoreInv /\ [Next]_vars => ScoreInv'
  BY ScoreStep
<1>3. ScoreInv => ScoresAreLedger
  BY RestIsPaid DEF ScoreInv, ScoresAreLedger
<1> QED
  BY <1>1, <1>2, <1>3, InsertedHolds, PTL DEF Spec

------------------------------------------------------------------------------
(* Recent solves, while nothing is deleted *)

\* The entries of seq are among those of S, each player's at most once.
Shows(seq, S) ==
    \A i, j \in DOMAIN seq :
        /\ \E e \in S : seq[i].user = e.user /\ seq[i].points = e.points
        /\ seq[i].user = seq[j].user => i = j

LEMMA ShowsMore ==
    ASSUME NEW seq, NEW S, NEW T, S \subseteq T, Shows(seq, S)
    PROVE  Shows(seq, T)
BY DEF Shows

LEMMA ShowsAppended ==
    ASSUME NEW seq \in Seq(Solvers), NEW S, Shows(seq, S), NEW e \in S,
           NEW T, T \subseteq S, Shows(seq, T), \A x \in T : x.user # e.user
    PROVE  Shows(Append(seq, e), S)
<1> DEFINE new == Append(seq, e)
<1>1. /\ Len(seq) \in Nat /\ DOMAIN seq = 1..Len(seq)
      /\ DOMAIN new = 1..(Len(seq) + 1)
      /\ new[Len(seq) + 1] = e
      /\ \A i \in 1..Len(seq) : new[i] = seq[i]
  OBVIOUS
<1> HIDE DEF new
<1>2. \A i \in 1..Len(seq) : seq[i].user # e.user
  BY <1>1 DEF Shows
<1>3. ASSUME NEW i \in DOMAIN new
      PROVE  \E x \in S : new[i].user = x.user /\ new[i].points = x.points
  <2>1. CASE i = Len(seq) + 1
    BY <1>1, <2>1
  <2>2. CASE i \in 1..Len(seq)
    BY <1>1, <2>2 DEF Shows
  <2> QED
    BY <1>1, <2>1, <2>2
<1>4. ASSUME NEW i \in DOMAIN new, NEW j \in DOMAIN new, new[i].user = new[j].user
      PROVE  i = j
  <2>1. CASE i \in 1..Len(seq) /\ j \in 1..Len(seq)
    BY <1>1, <1>4, <2>1 DEF Shows
  <2>2. CASE i = Len(seq) + 1 /\ j \in 1..Len(seq)
    BY <1>1, <1>2, <1>4, <2>2
  <2>3. CASE j = Len(seq) + 1 /\ i \in 1..Len(seq)
    BY <1>1, <1>2, <1>4, <2>3
  <2> QED
    BY <1>1, <2>1, <2>2, <2>3
<1> QED
  BY <1>3, <1>4 DEF Shows, new

LEMMA ShowsLast ==
    ASSUME NEW seq \in Seq(Solvers), NEW S, Shows(seq, S), NEW n \in Nat
    PROVE  Shows(LastOf(seq, n), S)
<1>1. CASE Len(seq) <= n
  BY <1>1 DEF LastOf
<1>2. CASE ~(Len(seq) <= n)
  <2> DEFINE k == Len(seq) - n
             new == LastOf(seq, n)
  <2>1. Len(seq) \in Nat /\ DOMAIN seq = 1..Len(seq) /\ k \in Nat
    BY <1>2
  <2>2. /\ DOMAIN new = 1..n
        /\ \A i \in 1..n : new[i] = seq[i + k]
    BY <1>2, <2>1 DEF LastOf
  <2>3. \A i \in 1..n : i + k \in 1..Len(seq)
    BY <2>1
  <2>4. \A i, j \in 1..n : i + k = j + k => i = j
    BY <2>1
  <2> HIDE DEF new, k
  <2>5. /\ \A i \in DOMAIN seq : \E e \in S : seq[i].user = e.user /\ seq[i].points = e.points
        /\ \A i, j \in DOMAIN seq : seq[i].user = seq[j].user => i = j
    BY DEF Shows
  <2>6. ASSUME NEW i \in DOMAIN new
        PROVE  \E e \in S : new[i].user = e.user /\ new[i].points = e.points
    <3>1. new[i] = seq[i + k] /\ i + k \in DOMAIN seq
      BY <2>1, <2>2, <2>3
    <3> QED
      BY <2>5, <3>1
  <2>7. ASSUME NEW i \in DOMAIN new, NEW j \in DOMAIN new, new[i].user = new[j].user
        PROVE  i = j
    <3>1. /\ i \in 1..n /\ j \in 1..n
          /\ new[i] = seq[i + k] /\ i + k \in DOMAIN seq
          /\ new[j] = seq[j + k] /\ j + k \in DOMAIN seq
      BY <2>1, <2>2, <2>3
    <3>2. i + k = j + k
      BY <2>5, <2>7, <3>1
    <3> QED
      BY <2>4, <3>1, <3>2
  <2>8. Shows(new, S)
    BY <2>6, <2>7 DEF Shows
  <2> QED
    BY <2>8 DEF new
<1> QED
  BY <1>1, <1>2

\* The solves of a challenge whose call has saved it, as recentSolves has them.
SavedSolves(c) == {r \in SolvesOf(c) : "challenge" \in landed[r]}
SavedEntries(c) ==
    {[user |-> subs[r].user, points |-> subs[r].points] : r \in SavedSolves(c)}

\* The array shows saved solves, and a call whose snapshot has the version of
\* the challenge has its array: only such a snapshot may replace the array.
RecentInv ==
    /\ \A c \in Challenges : Shows(chal[c].recentSolves, SavedEntries(c))
    /\ \A r \in Requests :
         pc[r] \in {"userCheck", "teamCheck", "insert", "fanout"} =>
            LET c == req[r].challenge IN
            /\ snap[r].version <= chal[c].version
            /\ snap[r].version = chal[c].version =>
                   snap[r].recentSolves = chal[c].recentSolves

LEMMA EntriesGrow ==
    ASSUME TypeOK, Inserted, Deletions = {}, [Next]_vars, NEW c
    PROVE  SavedEntries(c) \subseteq SavedEntries(c)'
<1>1. \A r \in Requests : landed[r] \subseteq landed'[r]
  <2>1. ASSUME NEW r \in Requests, SubmitStep(r)
        PROVE  \A q \in Requests : landed[q] \subseteq landed'[q]
    <3>1. ASSUME NEW w \in {"user", "team", "challenge"}, Land(r, w)
          PROVE  \A q \in Requests : landed[q] \subseteq landed'[q]
      BY <3>1 DEF Land, TypeOK
    <3>2. \/ landed' = landed
          \/ \E w \in {"user", "team", "challenge"} : Land(r, w)
      BY <2>1 DEF SubmitStep, CheckRate, LoadChallenge, CheckUserSolve,
         CheckTeamSolve, InsertSubmission, SaveAttempt, IncrAttempts, ExpireAttempts,
         CreditUser, CreditTeam, RecordSolve, FinishSolve, ResetAttempts
    <3> QED
      BY <3>1, <3>2
  <2>2. CASE \/ \E u \in Users, d \in Challenges : AttemptsExpire(u, d)
             \/ \E d \in Challenges : ToggleOpen(d)
             \/ Crash
             \/ UNCHANGED vars
    BY <2>2 DEF AttemptsExpire, ToggleOpen, Crash, vars, handlerVars
  <2> QED
    BY <2>1, <2>2 DEF Next
<1>2. \A r \in SolvesOf(c) : r \in SolvesOf(c)' /\ subs'[r] = subs[r]
  BY CorrectGrows DEF SolvesOf
<1>3. SolvesOf(c) \subseteq Requests
  BY DEF SolvesOf, Correct, Stored
<1>4. \A r \in SavedSolves(c) : r \in SavedSolves(c)' /\ subs'[r] = subs[r]
  BY <1>1, <1>2, <1>3 DEF SavedSolves
<1> QED
  BY <1>4 DEF SavedEntries

\* Only a recordSolve without a VersionError changes the array or the version.
LEMMA RecentStep ==
    ASSUME TypeOK, Deletions = {}, [Next]_vars, NEW c \in Challenges
    PROVE  \/ /\ chal'[c].recentSolves = chal[c].recentSolves
              /\ chal'[c].version = chal[c].version
           \/ \E r \in Requests :
                /\ RecordSolve(r) /\ ~VersionConflict(r) /\ req[r].challenge = c
                /\ chal'[c] = SavedSolve(r, chal[c])
<1>1. ASSUME NEW r \in Requests, RecordSolve(r)
      PROVE  \/ chal'[c] = chal[c]
             \/ /\ ~VersionConflict(r) /\ req[r].challenge = c
                /\ chal'[c] = SavedSolve(r, chal[c])
  BY <1>1 DEF RecordSolve, TypeOK
<1>2. ASSUME NEW r \in Requests, SaveAttempt(r)
      PROVE  /\ chal'[c].recentSolves = chal[c].recentSolves
             /\ chal'[c].version = chal[c].version
  <2>1. chal[c] \in ChallengeDocs
    BY DEF TypeOK
  <2> QED
    BY <1>2, <2>1 DEF SaveAttempt, TypeOK, ChallengeDocs
<1>3. ASSUME NEW r \in Requests, SubmitStep(r), ~RecordSolve(r), ~SaveAttempt(r)
      PROVE  chal' = chal
  BY <1>3 DEF SubmitStep, CheckRate, LoadChallenge, CheckUserSolve, CheckTeamSolve,
              InsertSubmission, IncrAttempts, ExpireAttempts, CreditUser, CreditTeam,
              FinishSolve, ResetAttempts
<1>4. CASE \/ \E u \in Users, d \in Challenges : AttemptsExpire(u, d)
           \/ \E d \in Challenges : ToggleOpen(d)
           \/ Crash
           \/ UNCHANGED vars
  BY <1>4 DEF AttemptsExpire, ToggleOpen, Crash, vars
<1> QED
  BY <1>1, <1>2, <1>3, <1>4 DEF Next

\* The entry a save adds is of a solve that was not shown before.
LEMMA SaveShows ==
    ASSUME TypeOK, OneSolvePerUser, Inserted, RecentInv, Deletions = {}, [Next]_vars,
           NEW r \in Requests, RecordSolve(r), ~VersionConflict(r),
           NEW c \in Challenges, c = req[r].challenge
    PROVE  Shows(SavedSolve(r, chal[c]).recentSolves, SavedEntries(c)')
<1> DEFINE e == Entry(r)
           seq == chal[c].recentSolves
<1>1. /\ pc[r] = "fanout" /\ "challenge" \notin landed[r] /\ "challenge" \in landed'[r]
      /\ subs[r] = Mine(r) /\ Mine(r) \in Submissions /\ subs' = subs
  <2>1. /\ pc[r] = "fanout" /\ "challenge" \notin landed[r] /\ subs' = subs
        /\ Land(r, "challenge")
    BY DEF RecordSolve, InFlight
  <2>2. subs[r] = Mine(r) /\ Mine(r) \in Submissions
    BY <2>1, NewSubmissionType DEF Inserted, Mine
  <2> QED
    BY <2>1, <2>2 DEF Land, TypeOK
<1>2. r \in SolvesOf(c)
  BY <1>1, NoSubmissionAssumption DEF SolvesOf, Correct, Stored, Mine, NewSubmission
<1>3. r \in SavedSolves(c)' /\ r \notin SavedSolves(c)
  BY <1>1, <1>2 DEF SavedSolves, SolvesOf, Correct, Stored
<1>4. e = [user |-> subs[r].user, points |-> subs[r].points] /\ e \in Solvers
  BY <1>1 DEF Entry, Submissions, Solvers
<1>5. e \in SavedEntries(c)'
  BY <1>1, <1>3, <1>4 DEF SavedEntries
<1>6. \A x \in SavedEntries(c) : x.user # e.user
  <2> SUFFICES ASSUME NEW q \in SavedSolves(c), subs[q].user = subs[r].user
               PROVE  FALSE
    BY <1>4 DEF SavedEntries
  <2>1. q = r
    BY <1>2 DEF OneSolvePerUser, SavedSolves, SolvesOf
  <2> QED
    BY <1>3, <2>1
<1>7. /\ seq \in Seq(Solvers) /\ Shows(seq, SavedEntries(c))
      /\ SavedEntries(c) \subseteq SavedEntries(c)'
  BY EntriesGrow DEF TypeOK, ChallengeDocs, RecentInv
<1> HIDE DEF e
<1>8. Shows(Append(seq, e), SavedEntries(c)')
  <2>1. Shows(seq, SavedEntries(c)')
    BY <1>7, ShowsMore
  <2> HIDE DEF seq
  <2> QED
    BY <1>5, <1>6, <1>7, <2>1, ShowsAppended
<1>9. CASE ~ReplacesRecent(r)
  BY <1>8, <1>9 DEF SavedSolve, e
<1>10. CASE ReplacesRecent(r)
  <2>1. snap[r].recentSolves = seq
    BY <1>1, <1>10 DEF VersionConflict, RecentInv
  <2>2. Extended(r) = Append(seq, e)
    BY <2>1 DEF Extended, e
  <2>3. Append(seq, e) \in Seq(Solvers) /\ RecentCap \in Nat
    BY <1>4, <1>7, SubmissionAssumption
  <2>4. Shows(LastOf(Append(seq, e), RecentCap), SavedEntries(c)')
    <3> HIDE DEF seq
    <3> QED
      BY <1>8, <2>3, ShowsLast
  <2> QED
    BY <1>10, <2>2, <2>4 DEF SavedSolve
<1> QED
  BY <1>9, <1>10

LEMMA RecentInvStep ==
    ASSUME TypeOK, TypeOK', OneSolvePerUser, Inserted, RecentInv, Deletions = {},
           [Next]_vars
    PROVE  RecentInv'
<1>1. ASSUME NEW c \in Challenges
      PROVE  Shows(chal'[c].recentSolves, SavedEntries(c)')
  <2>1. CASE chal'[c].recentSolves = chal[c].recentSolves
    BY <2>1, EntriesGrow, ShowsMore DEF RecentInv
  <2>2. ASSUME NEW r \in Requests, RecordSolve(r), ~VersionConflict(r),
               req[r].challenge = c, chal'[c] = SavedSolve(r, chal[c])
        PROVE  Shows(chal'[c].recentSolves, SavedEntries(c)')
    BY <2>2, SaveShows
  <2> QED
    BY <2>1, <2>2, RecentStep
<1>2. ASSUME NEW r \in Requests,
             pc'[r] \in {"userCheck", "teamCheck", "insert", "fanout"},
             NEW c \in Challenges, c = req[r].challenge
      PROVE  /\ snap'[r].version <= chal'[c].version
             /\ snap'[r].version = chal'[c].version =>
                    snap'[r].recentSolves = chal'[c].recentSolves
  <2>1. /\ snap'[r].version <= chal[c].version
        /\ snap'[r].version = chal[c].version =>
               snap'[r].recentSolves = chal[c].recentSolves
    <3>1. CASE /\ pc[r] \in {"userCheck", "teamCheck", "insert", "fanout"}
               /\ snap'[r] = snap[r]
      BY <1>2, <3>1 DEF RecentInv
    <3>2. CASE snap'[r] = chal[c]
      BY <3>2 DEF TypeOK, ChallengeDocs
    <3> QED
      BY <1>2, <3>1, <3>2, SnapshotStep
  <2>2. snap'[r].version \in Nat /\ chal[c].version \in Nat
    BY DEF TypeOK, ChallengeDocs
  <2>3. CASE /\ chal'[c].recentSolves = chal[c].recentSolves
             /\ chal'[c].version = chal[c].version
    BY <2>1, <2>3
  <2>4. CASE chal'[c].version = chal[c].version + 1
    BY <2>1, <2>2, <2>4
  <2>5. \A q \in Requests : SavedSolve(q, chal[c]).version = chal[c].version + 1
    BY DEF SavedSolve
  <2> QED
    BY <2>3, <2>4, <2>5, RecentStep
<1>3. req' = req /\ \A r \in Requests : req[r].challenge \in Challenges
  <2>1. req' = req
    BY SnapshotStep DEF Next, AttemptsExpire, ToggleOpen, Crash, vars, handlerVars,
       SubmitStep, CheckRate, LoadChallenge, CheckUserSolve, CheckTeamSolve,
       InsertSubmission, SaveAttempt, IncrAttempts, ExpireAttempts, CreditUser,
       CreditTeam, RecordSolve, FinishSolve, ResetAttempts
  <2> QED
    BY <2>1 DEF TypeOK
<1> QED
  BY <1>1, <1>2, <1>3 DEF RecentInv

\* As long as nothing is deleted, recentSolves shows each solve at most once,
\* with its player and its points, whichever saves overlap.
THEOREM RecentSolvesHold ==
    ASSUME Deletions = {}
    PROVE  Spec => []RecentSolvesAreSolves
<1>1. Init => RecentInv
  <2> SUFFICES ASSUME Init PROVE RecentInv
    OBVIOUS
  <2>1. \A r \in Requests : pc[r] \in {"idle", "done"}
    BY StagesAtFirst
  <2> QED
    BY <2>1 DEF Init, RecentInv, Shows, NewChallenge
<1>2. TypeOK /\ TypeOK' /\ OneSolvePerUser /\ Inserted /\ RecentInv /\ [Next]_vars
          => RecentInv'
  BY RecentInvStep
<1>3. RecentInv => RecentSolvesAreSolves
  <2> SUFFICES ASSUME RecentInv, NEW c \in Challenges,
                      NEW i \in DOMAIN chal[c].recentSolves,
                      NEW j \in DOMAIN chal[c].recentSolves
               PROVE  /\ \E r \in SolvesOf(c) :
                           /\ chal[c].recentSolves[i].user = subs[r].user
                           /\ chal[c].recentSolves[i].points = subs[r].points
                      /\ chal[c].recentSolves[i].user = chal[c].recentSolves[j].user
                           => i = j
    BY DEF RecentSolvesAreSolves
  <2>1. Shows(chal[c].recentSolves, SavedEntries(c))
    BY DEF RecentInv
  <2>2. PICK e \in SavedEntries(c) :
          /\ chal[c].recentSolves[i].user = e.user
          /\ chal[c].recentSolves[i].points = e.points
    BY <2>1 DEF Shows
  <2>3. PICK r \in SavedSolves(c) :
          e = [user |-> subs[r].user, points |-> subs[r].points]
    BY DEF SavedEntries
  <2>4. r \in SolvesOf(c)
    BY DEF SavedSolves
  <2> QED
    BY <2>1, <2>2, <2>3, <2>4 DEF Shows
<1> QED
  BY <1>1, <1>2, <1>3, InsertedHolds, PTL DEF Spec

------------------------------------------------------------------------------
(* Negative scores, with any number of overlapping deletions *)

\* A deletion that has debited a player and has not come to its clamp.
Owes(d, u) ==
    /\ \/ pc[d] = "fanout" /\ "user" \in landed[d]
       \/ pc[d] = "clamp"
    /\ victim[d].doc.user = u

\* Without a crash, a negative score is that of a player some deletion has yet
\* to clamp.
NegativeIsOwed ==
    crashes = 0 =>
        \A u \in Users : userDoc[u].score < 0 => \E d \in Deletions : Owes(d, u)

\* The calls of submitFlag leave deletions alone and lower no score.
LEMMA SubmitLowersNothing ==
    ASSUME TypeOK, Requests \cap Deletions = {}, NEW r \in Requests, SubmitStep(r)
    PROVE  /\ crashes' = crashes
           /\ \A d \in Deletions : /\ pc'[d] = pc[d] /\ landed'[d] = landed[d]
                                    /\ victim'[d] = victim[d]
           /\ \A u \in Users : userDoc'[u].score >= userDoc[u].score
<1>1. \A d \in Deletions : d # r
  OBVIOUS
<1>2. crashes' = crashes /\ victim' = victim
  BY DEF SubmitStep, CheckRate, LoadChallenge, CheckUserSolve, CheckTeamSolve,
     InsertSubmission, SaveAttempt, IncrAttempts, ExpireAttempts, CreditUser,
     CreditTeam, RecordSolve, FinishSolve, ResetAttempts
<1>3. ASSUME NEW d \in Deletions
      PROVE  pc'[d] = pc[d] /\ landed'[d] = landed[d]
  <2>1. d # r /\ d \in Handlers
    BY <1>1
  <2> QED
    BY <2>1 DEF SubmitStep, CheckRate, LoadChallenge, CheckUserSolve, CheckTeamSolve,
       InsertSubmission, SaveAttempt, IncrAttempts, ExpireAttempts, CreditUser,
       CreditTeam, RecordSolve, FinishSolve, ResetAttempts, GoTo, Land, TypeOK
<1>4. \A u \in Users : userDoc[u].score \in Int
  BY DEF TypeOK, Tallies
<1>5. CASE CreditUser(r)
  <2>1. Mine(r) \in Submissions
    BY NewSubmissionType DEF Mine
  <2>2. Mine(r).points \in Nat /\ Mine(r).user \in Users
    BY <2>1 DEF Submissions
  <2>3. \A u \in Users :
          userDoc'[u].score = IF u = Mine(r).user THEN userDoc[u].score + Mine(r).points
                              ELSE userDoc[u].score
    BY <1>5, <2>2 DEF CreditUser, TypeOK
  <2> QED
    BY <1>2, <1>3, <1>4, <2>2, <2>3
<1>6. CASE ~CreditUser(r)
  <2>1. userDoc' = userDoc
    BY <1>6 DEF SubmitStep, CheckRate, LoadChallenge, CheckUserSolve, CheckTeamSolve,
       InsertSubmission, SaveAttempt, IncrAttempts, ExpireAttempts,
       CreditTeam, RecordSolve, FinishSolve, ResetAttempts, scoreVars
  <2> QED
    BY <1>2, <1>3, <1>4, <2>1
<1> QED
  BY <1>5, <1>6

\* A step of a deletion leaves the other deletions alone, owes what it debits
\* and settles what it owes by the clamp.
LEMMA DeleteOwes ==
    ASSUME TypeInv, NEW d \in Deletions, DeleteStep(d), NEW u \in Users,
           userDoc'[u].score < 0
    PROVE  /\ \A e \in Deletions : e # d /\ Owes(e, u) => Owes(e, u)'
           /\ Owes(d, u) \/ userDoc[u].score >= 0 => Owes(d, u)'
           /\ crashes' = crashes
<1> USE DEF TypeInv
<1>1. /\ crashes' = crashes
      /\ \A e \in Deletions : e # d =>
           pc'[e] = pc[e] /\ landed'[e] = landed[e] /\ victim'[e] = victim[e]
  BY DEF DeleteStep, FindSubmission, RemoveIncorrect, RemoveSubmission, DebitUser,
     DebitTeam, UncountSolve, FinishDelete, ClampScore, GoTo, Land, TypeOK
<1>2. \A e \in Deletions : e # d /\ Owes(e, u) => Owes(e, u)'
  BY <1>1 DEF Owes
<1>3. \A v \in Users : userDoc[v].score \in Int
  BY DEF TypeOK, Tallies
<1>4. CASE FindSubmission(d) \/ RemoveIncorrect(d)
  <2>1. userDoc' = userDoc /\ ~Owes(d, u)
    BY <1>4 DEF FindSubmission, RemoveIncorrect, scoreVars, Owes
  <2> QED
    BY <1>1, <1>2, <1>3, <2>1
<1>5. CASE RemoveSubmission(d) \/ DebitTeam(d) \/ UncountSolve(d)
  <2>1. /\ userDoc' = userDoc /\ pc' = pc /\ victim' = victim
        /\ landed[d] \subseteq landed'[d]
    BY <1>5 DEF RemoveSubmission, DebitTeam, UncountSolve, scoreVars, Land, TypeOK
  <2>2. Owes(d, u) => Owes(d, u)'
    BY <2>1 DEF Owes
  <2> QED
    BY <1>1, <1>2, <1>3, <2>1, <2>2
<1>6. CASE DebitUser(d)
  <2>1. /\ pc[d] = "fanout" /\ pc' = pc /\ victim' = victim /\ "user" \in landed'[d]
        /\ u # victim[d].doc.user => userDoc'[u] = userDoc[u]
    BY <1>6 DEF DebitUser, Undoing, Land, TypeOK
  <2>2. u = victim[d].doc.user => Owes(d, u)'
    BY <2>1 DEF Owes
  <2>3. u # victim[d].doc.user => ~Owes(d, u) /\ ~(userDoc[u].score >= 0)
    BY <1>3, <2>1 DEF Owes
  <2> QED
    BY <1>1, <1>2, <2>2, <2>3
<1>7. CASE FinishDelete(d)
  <2>1. /\ pc[d] = "fanout" /\ pc'[d] = "clamp" /\ victim' = victim
        /\ userDoc' = userDoc
    BY <1>7 DEF FinishDelete, GoTo, scoreVars, TypeOK
  <2>2. Owes(d, u) => Owes(d, u)'
    BY <2>1 DEF Owes
  <2> QED
    BY <1>1, <1>2, <1>3, <2>1, <2>2
<1>8. CASE ClampScore(d)
  <2>1. pc[d] = "clamp" /\ victim[d].doc \in Submissions
    BY <1>8 DEF ClampScore, VictimLoaded
  <2>2. victim[d].doc.user \in Users
    BY <2>1 DEF Submissions
  <2>3. /\ u = victim[d].doc.user =>
              userDoc'[u].score = IF userDoc[u].score < 0 THEN 0 ELSE userDoc[u].score
        /\ u # victim[d].doc.user => userDoc'[u] = userDoc[u]
    <3>1. userDoc[u] \in Tallies
      BY DEF TypeOK
    <3> QED
      BY <1>8, <3>1 DEF ClampScore, TypeOK, Tallies
  <2>4. u # victim[d].doc.user
    BY <1>3, <2>3
  <2>5. ~Owes(d, u) /\ ~(userDoc[u].score >= 0)
    BY <1>3, <2>3, <2>4 DEF Owes
  <2> QED
    BY <1>1, <1>2, <2>5
<1> QED
  BY <1>4, <1>5, <1>6, <1>7, <1>8 DEF DeleteStep

LEMMA NegativeIsOwedStep ==
    ASSUME TypeInv, TypeInv', NegativeIsOwed, [Next]_vars
    PROVE  NegativeIsOwed'
<1> SUFFICES ASSUME crashes' = 0, NEW u \in Users, userDoc'[u].score < 0
             PROVE  \E d \in Deletions : Owes(d, u)'
  BY DEF NegativeIsOwed
<1>1. userDoc[u].score \in Int /\ userDoc'[u].score \in Int /\ crashes \in Nat
  BY SubmissionAssumption DEF TypeInv, TypeOK, Tallies
<1>2. ASSUME NEW r \in Requests, SubmitStep(r)
      PROVE  \E d \in Deletions : Owes(d, u)'
  <2>1. /\ crashes' = crashes
        /\ \A d \in Deletions : /\ pc'[d] = pc[d] /\ landed'[d] = landed[d]
                                 /\ victim'[d] = victim[d]
        /\ userDoc'[u].score >= userDoc[u].score
    BY <1>2, SubmitLowersNothing, SubmissionAssumption DEF TypeInv
  <2>2. PICK d \in Deletions : Owes(d, u)
    BY <1>1, <2>1 DEF NegativeIsOwed
  <2> QED
    BY <2>1, <2>2 DEF Owes
<1>3. ASSUME NEW d \in Deletions, DeleteStep(d)
      PROVE  \E e \in Deletions : Owes(e, u)'
  <2>1. /\ \A e \in Deletions : e # d /\ Owes(e, u) => Owes(e, u)'
        /\ Owes(d, u) \/ userDoc[u].score >= 0 => Owes(d, u)'
        /\ crashes' = crashes
    BY <1>3, DeleteOwes
  <2>2. userDoc[u].score < 0 => \E e \in Deletions : Owes(e, u)
    BY <2>1 DEF NegativeIsOwed
  <2> QED
    BY <1>1, <2>1, <2>2
<1>4. CASE \/ \E v \in Users, c \in Challenges : AttemptsExpire(v, c)
           \/ \E c \in Challenges : ToggleOpen(c)
           \/ UNCHANGED vars
  <2>1. /\ crashes' = crashes /\ userDoc' = userDoc /\ pc' = pc /\ landed' = landed
        /\ victim' = victim
    BY <1>4 DEF AttemptsExpire, ToggleOpen, vars, handlerVars, scoreVars
  <2> QED
    BY <2>1 DEF NegativeIsOwed, Owes
<1>5. CASE Crash
  BY <1>1, <1>5 DEF Crash, Stopped
<1> QED
  BY <1>2, <1>3, <1>4, <1>5 DEF Next

\* Whatever deletions and submissions overlap, the clamp at the end of each
\* deletion is enough: no score is negative once every call has ended.
THEOREM ScoreNotNegativeHolds == Spec => []ScoreNotNegativeAtRest
<1>1. Init => NegativeIsOwed
  BY DEF Init, NegativeIsOwed, NoTally
<1>2. TypeInv /\ TypeInv' /\ NegativeIsOwed /\ [Next]_vars => NegativeIsOwed'
  BY NegativeIsOwedStep
<1>3. TypeInv /\ NegativeIsOwed => ScoreNotNegativeAtRest
  <2> SUFFICES ASSUME TypeInv, NegativeIsOwed, AtRest, crashes = 0, NEW u \in Users,
                      ~(userDoc[u].score >= 0)
               PROVE  FALSE
    BY DEF ScoreNotNegativeAtRest
  <2>1. userDoc[u].score \in Int
    BY DEF TypeInv, TypeOK, Tallies
  <2>2. PICK d \in Deletions : Owes(d, u)
    BY <2>1 DEF NegativeIsOwed
  <2> QED
    BY <2>2 DEF Owes, AtRest, Running
<1>4. Init => TypeInv
  BY TypeInit
<1>5. TypeInv /\ [Next]_vars => TypeInv'
  BY TypeStep
<1> QED
  BY <1>1, <1>2, <1>3, <1>4, <1>5, PTL DEF Spec
==============================================================================
