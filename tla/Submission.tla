----------------------------- MODULE Submission ------------------------------
(***************************************************************************)
(* Flag submission: submitFlag and deleteSubmission of                     *)
(* submission.service.ts, with the parts of challenge.model.ts             *)
(* (getCurrentPoints, recordSolve) and cacheService.ts (rateLimitCache)    *)
(* they call.                                                              *)
(*                                                                         *)
(* One handler invocation is an element of Requests or of Deletions; every *)
(* await is a place where other invocations run, so each database or Redis *)
(* command is one action and what a handler read earlier is kept in snap   *)
(* or victim.  MongoDB and Redis survive a crash of the API process, the   *)
(* handlers do not.  There are no transactions on this path.               *)
(*                                                                         *)
(* A loaded Mongoose document is saved as it is: $set of every number that *)
(* was assigned, from the value read at load time, $push of an appended    *)
(* array element, and, when an array was replaced, a condition on the      *)
(* version key __v that makes the save fail if another save came first.    *)
(***************************************************************************)
EXTENDS ChallengePoints, Sequences, FiniteSets, Functions

CONSTANTS
    Users, Teams, Challenges,
    NoUser, NoTeam, NoSubmission,
    TeamOf,          \* req.user.teamId, as verifyAuth loaded it
    Scoring,         \* the scoring fields of each challenge
    Requests,        \* bound: the calls of submitFlag
    Calls,           \* bound: the players and challenges they may be for
    Deletions,       \* bound: the calls of deleteSubmission
    Batches,         \* bound: the calls of either kind that one behaviour makes
    MaxAttempts,     \* MAX_FLAG_ATTEMPTS_PER_WINDOW, 5 in the code
    RecentCap,       \* length kept of recentSolves, 10 in the code
    TeamIndexBuilt,  \* did MongoDB accept the unique index on team solves
    MaxCrashes       \* bound: restarts of the API process

ASSUME SubmissionAssumption ==
    /\ NoUser \notin Users /\ NoTeam \notin Teams
    /\ TeamOf \in [Users -> Teams \cup {NoTeam}]
    /\ Scoring \in [Challenges -> Scorings]
    /\ Calls \subseteq [Requests -> [user : Users, challenge : Challenges]]
    /\ IsFiniteSet(Requests) /\ Requests \cap Deletions = {}
    /\ Batches \subseteq SUBSET (Requests \cup Deletions)
    /\ MaxAttempts \in Nat \ {0} /\ RecentCap \in Nat \ {0}
    /\ TeamIndexBuilt \in BOOLEAN /\ MaxCrashes \in Nat

Submissions ==
    [user : Users, challenge : Challenges, team : Teams \cup {NoTeam},
     isCorrect : BOOLEAN, points : Nat, isFirstBlood : BOOLEAN]

ASSUME NoSubmissionAssumption == NoSubmission \notin Submissions

VARIABLES
    pc,          \* stage of each handler invocation
    req,         \* the user and challenge of each submitFlag call
    snap,        \* the challenge document each submitFlag call loaded
    landed,      \* the writes of each call's Promise.all that took effect
    victim,      \* the submission document each deleteSubmission call loaded
    subs,        \* submissions collection, by the call that inserted
    chal,        \* challenges collection
    open,        \* is the challenge visible, active and not past closedAt
    userDoc,     \* users collection: score and solvedChallenges
    teamDoc,     \* teams collection: score and solvedChallenges
    attempts,    \* Redis rl:flag counters of wrong attempts, 0 = no key
    expiring,    \* does the counter's key carry a TTL
    dispatched,  \* fire-and-forget calls made after a solve was written
    crashes

handlerVars == <<pc, req, snap, landed, victim>>
redisVars == <<attempts, expiring>>
scoreVars == <<userDoc, teamDoc>>
vars == <<pc, req, snap, landed, victim, subs, chal, open, userDoc, teamDoc,
          attempts, expiring, dispatched, crashes>>

------------------------------------------------------------------------------
(* Documents *)

Solvers == [user : Users, points : Nat]

ChallengeDocs ==
    [solveCount : Int, totalAttempts : Int, firstBlood : Users \cup {NoUser},
     recentSolves : Seq(Solvers), version : Nat]

NewChallenge ==
    [solveCount |-> 0, totalAttempts |-> 0, firstBlood |-> NoUser,
     recentSolves |-> << >>, version |-> 0]

Tallies == [score : Int, solved : SUBSET Challenges]

NoTally == [score |-> 0, solved |-> {}]

\* The calls that have a document in the submissions collection.
Stored == {r \in Requests : subs[r] # NoSubmission}

\* Those whose document is a correct submission.
Correct == {r \in Stored : subs[r].isCorrect}

UserSolved(u, c) ==
    \E r \in Correct : subs[r].user = u /\ subs[r].challenge = c

TeamSolved(t, c) ==
    \E r \in Correct : subs[r].team = t /\ subs[r].challenge = c

NoVictim == [id |-> NoSubmission, doc |-> NoSubmission]

\* The three writes a correct submission starts together.
SolveWrites(r) ==
    {"user", "challenge"} \cup
    (IF TeamOf[req[r].user] # NoTeam THEN {"team"} ELSE {})

\* The four writes a deletion of a correct submission starts together.
DeleteWrites(d) ==
    {"submission", "user", "challenge"} \cup
    (IF victim[d].doc.team # NoTeam THEN {"team"} ELSE {})

RequestStages ==
    {"idle", "load", "userCheck", "teamCheck", "insert", "saveAttempt",
     "incr", "expire", "fanout", "reset", "done", "rejected", "failed",
     "conflict", "crashed", "cutOff"}

DeletionStages ==
    {"idle", "remove", "fanout", "clamp", "done", "rejected", "crashed"}

\* A call that is not in the batch is over before it began, with no effect.
Waiting(batch) ==
    [h \in Requests \cup Deletions |-> IF h \in batch THEN "idle" ELSE "done"]

Init ==
    /\ pc \in {Waiting(batch) : batch \in Batches}
    /\ req \in Calls
    /\ snap = [r \in Requests |-> NewChallenge]
    /\ landed = [h \in Requests \cup Deletions |-> {}]
    /\ victim = [d \in Deletions |-> NoVictim]
    /\ subs = [r \in Requests |-> NoSubmission]
    /\ chal = [c \in Challenges |-> NewChallenge]
    /\ open = [c \in Challenges |-> TRUE]
    /\ userDoc = [u \in Users |-> NoTally]
    /\ teamDoc = [t \in Teams |-> NoTally]
    /\ attempts = [u \in Users |-> [c \in Challenges |-> 0]]
    /\ expiring = [u \in Users |-> [c \in Challenges |-> FALSE]]
    /\ dispatched = {}
    /\ crashes = 0

GoTo(h, stage) == pc' = [pc EXCEPT ![h] = stage]

------------------------------------------------------------------------------
(* submitFlag *)

\* rateLimitCache.count; at the limit the call is refused with 429.
CheckRate(r) ==
    LET q == req[r] IN
    /\ pc[r] = "idle"
    /\ GoTo(r, IF attempts[q.user][q.challenge] >= MaxAttempts
               THEN "rejected" ELSE "load")
    /\ UNCHANGED <<req, snap, landed, victim, subs, chal, open, scoreVars,
                   redisVars, dispatched, crashes>>

\* Challenge.findOne of a visible and active challenge, and the closedAt check.
LoadChallenge(r) ==
    LET c == req[r].challenge IN
    /\ pc[r] = "load"
    /\ GoTo(r, IF open[c] THEN "userCheck" ELSE "rejected")
    /\ snap' = [snap EXCEPT ![r] = chal[c]]
    /\ UNCHANGED <<req, landed, victim, subs, chal, open, scoreVars,
                   redisVars, dispatched, crashes>>

\* Submission.exists for the user.
CheckUserSolve(r) ==
    LET q == req[r] IN
    /\ pc[r] = "userCheck"
    /\ GoTo(r, IF UserSolved(q.user, q.challenge) THEN "rejected"
               ELSE IF TeamOf[q.user] # NoTeam THEN "teamCheck" ELSE "insert")
    /\ UNCHANGED <<req, snap, landed, victim, subs, chal, open, scoreVars,
                   redisVars, dispatched, crashes>>

\* Submission.exists for the team.
CheckTeamSolve(r) ==
    LET q == req[r] IN
    /\ pc[r] = "teamCheck"
    /\ GoTo(r, IF TeamSolved(TeamOf[q.user], q.challenge)
               THEN "rejected" ELSE "insert")
    /\ UNCHANGED <<req, snap, landed, victim, subs, chal, open, scoreVars,
                   redisVars, dispatched, crashes>>

\* Mutant of NewSubmission: first blood is read again at insertion.
FreshFirstBlood(r, ok) ==
    LET q == req[r] IN
    [user |-> q.user, challenge |-> q.challenge, team |-> TeamOf[q.user],
     isCorrect |-> ok,
     points |-> IF ok THEN CurrentPoints(Scoring[q.challenge], snap[r].solveCount)
                ELSE 0,
     isFirstBlood |-> ok /\ chal[q.challenge].firstBlood = NoUser]

\* Mutant of NewSubmission: first blood needs a challenge nobody has tried.
UntriedFirstBlood(r, ok) ==
    [FreshFirstBlood(r, ok) EXCEPT
        !.isFirstBlood = ok /\ snap[r].totalAttempts = 0]

\* The document submitFlag inserts: value and first blood come from the
\* challenge as it was loaded, before this solve is counted.
NewSubmission(r, ok) ==
    LET q == req[r] IN
    [user |-> q.user, challenge |-> q.challenge, team |-> TeamOf[q.user],
     isCorrect |-> ok,
     points |-> IF ok THEN CurrentPoints(Scoring[q.challenge], snap[r].solveCount)
                ELSE 0,
     isFirstBlood |-> ok /\ snap[r].firstBlood = NoUser]

\* Mutant of DuplicateKey: there is no index on the player's solves.
TeamIndexOnly(s) ==
    /\ s.isCorrect /\ TeamIndexBuilt /\ s.team # NoTeam
    /\ TeamSolved(s.team, s.challenge)

\* Mutant of DuplicateKey: there is no index on the team's solves.
UserIndexOnly(s) == s.isCorrect /\ UserSolved(s.user, s.challenge)

\* unique_correct_solve_per_user_challenge, and the team index if it exists.
DuplicateKey(s) ==
    /\ s.isCorrect
    /\ \/ UserSolved(s.user, s.challenge)
       \/ /\ TeamIndexBuilt /\ s.team # NoTeam
          /\ TeamSolved(s.team, s.challenge)

\* The flag is compared and submission.save() inserts, or fails on an index.
InsertSubmission(r) ==
    /\ pc[r] = "insert"
    /\ \E ok \in BOOLEAN :
        LET s == NewSubmission(r, ok) IN
        IF DuplicateKey(s)
        THEN GoTo(r, "failed") /\ UNCHANGED subs
        ELSE /\ subs' = [subs EXCEPT ![r] = s]
             /\ GoTo(r, IF ok THEN "fanout" ELSE "saveAttempt")
    /\ UNCHANGED <<req, snap, landed, victim, chal, open, scoreVars,
                   redisVars, dispatched, crashes>>

\* Mutant of SaveAttempt: the attempt is counted as a solve.
SaveAttemptAsSolve(r) ==
    LET c == req[r].challenge IN
    /\ pc[r] = "saveAttempt"
    /\ chal' = [chal EXCEPT ![c].solveCount = snap[r].solveCount + 1]
    /\ GoTo(r, "incr")
    /\ UNCHANGED <<req, snap, landed, victim, subs, open, scoreVars,
                   redisVars, dispatched, crashes>>

\* Wrong flag: challenge.save() writes the loaded totalAttempts plus one.
SaveAttempt(r) ==
    LET c == req[r].challenge IN
    /\ pc[r] = "saveAttempt"
    /\ chal' = [chal EXCEPT ![c].totalAttempts = snap[r].totalAttempts + 1]
    /\ GoTo(r, "incr")
    /\ UNCHANGED <<req, snap, landed, victim, subs, open, scoreVars,
                   redisVars, dispatched, crashes>>

\* rateLimitCache.increment, the INCR; only the first one goes on to EXPIRE.
IncrAttempts(r) ==
    LET q == req[r] IN
    /\ pc[r] = "incr"
    /\ attempts' = [attempts EXCEPT ![q.user][q.challenge] = @ + 1]
    /\ GoTo(r, IF attempts[q.user][q.challenge] = 0 THEN "expire" ELSE "done")
    /\ UNCHANGED <<req, snap, landed, victim, subs, chal, open, scoreVars,
                   expiring, dispatched, crashes>>

\* Mutant of ExpireAttempts: the TTL is set only if the counter is still at one.
ExpireFirstOnly(r) ==
    LET q == req[r] IN
    /\ pc[r] = "expire"
    /\ expiring' = [expiring EXCEPT
                        ![q.user][q.challenge] = @ \/ attempts[q.user][q.challenge] = 1]
    /\ GoTo(r, "done")
    /\ UNCHANGED <<req, snap, landed, victim, subs, chal, open, scoreVars,
                   attempts, dispatched, crashes>>

\* rateLimitCache.increment, the EXPIRE: no effect on a key that is gone.
ExpireAttempts(r) ==
    LET q == req[r] IN
    /\ pc[r] = "expire"
    /\ expiring' = [expiring EXCEPT
                        ![q.user][q.challenge] = attempts[q.user][q.challenge] > 0]
    /\ GoTo(r, "done")
    /\ UNCHANGED <<req, snap, landed, victim, subs, chal, open, scoreVars,
                   attempts, dispatched, crashes>>

Land(h, w) == landed' = [landed EXCEPT ![h] = @ \cup {w}]

\* The handler's own copy of the correct submission it inserted.
Mine(r) == NewSubmission(r, TRUE)

\* Mutant of InFlight: the failure of one write cancels the others.
InFlightUnlessFailed(r, w) ==
    pc[r] = "fanout" /\ w \in SolveWrites(r) \ landed[r]

\* Promise.all has started every write; one that fails does not stop the rest.
InFlight(r, w) ==
    pc[r] \in {"fanout", "conflict"} /\ w \in SolveWrites(r) \ landed[r]

\* Mutant of CreditUser: the value of the challenge is read again.
CreditUserAtCurrentValue(r) ==
    LET s == Mine(r) IN
    /\ InFlight(r, "user")
    /\ userDoc' = [userDoc EXCEPT
                      ![s.user] = [score |-> @.score +
                                      CurrentPoints(Scoring[s.challenge],
                                                    chal[s.challenge].solveCount),
                                   solved |-> @.solved \cup {s.challenge}]]
    /\ Land(r, "user")
    /\ UNCHANGED <<pc, req, snap, victim, subs, chal, open, teamDoc,
                   redisVars, dispatched, crashes>>

\* Mutant of CreditUser: after a VersionError the $inc is sent once more.
CreditUserAgain(r) ==
    LET s == Mine(r) IN
    /\ pc[r] \in {"fanout", "conflict"}
    /\ pc[r] = "fanout" => "user" \notin landed[r]
    /\ userDoc' = [userDoc EXCEPT
                      ![s.user] = [score |-> @.score + s.points,
                                   solved |-> @.solved \cup {s.challenge}]]
    /\ Land(r, "user")
    /\ IF pc[r] = "conflict" THEN GoTo(r, "failed") ELSE UNCHANGED pc
    /\ UNCHANGED <<req, snap, victim, subs, chal, open, teamDoc,
                   redisVars, dispatched, crashes>>

\* Mutant of CreditUser: the score is credited before the insert.
CreditUserEarly(r) ==
    LET s == Mine(r) IN
    /\ pc[r] \in {"insert", "fanout"} /\ "user" \notin landed[r]
    /\ userDoc' = [userDoc EXCEPT
                      ![s.user] = [score |-> @.score + s.points,
                                   solved |-> @.solved \cup {s.challenge}]]
    /\ Land(r, "user")
    /\ UNCHANGED <<pc, req, snap, victim, subs, chal, open, teamDoc,
                   redisVars, dispatched, crashes>>

\* User.findByIdAndUpdate: $addToSet the challenge, $inc the score.
CreditUser(r) ==
    LET s == Mine(r) IN
    /\ InFlight(r, "user")
    /\ userDoc' = [userDoc EXCEPT
                      ![s.user] = [score |-> @.score + s.points,
                                   solved |-> @.solved \cup {s.challenge}]]
    /\ Land(r, "user")
    /\ UNCHANGED <<pc, req, snap, victim, subs, chal, open, teamDoc,
                   redisVars, dispatched, crashes>>

\* Mutant of CreditTeam: only the first member's points are added.
CreditTeamOnce(r) ==
    LET s == Mine(r) IN
    /\ InFlight(r, "team")
    /\ teamDoc' = [teamDoc EXCEPT
                      ![s.team] = [score |-> IF s.challenge \in @.solved THEN @.score
                                             ELSE @.score + s.points,
                                   solved |-> @.solved \cup {s.challenge}]]
    /\ Land(r, "team")
    /\ UNCHANGED <<pc, req, snap, victim, subs, chal, open, userDoc,
                   redisVars, dispatched, crashes>>

\* Team.findByIdAndUpdate, the same for the team.
CreditTeam(r) ==
    LET s == Mine(r) IN
    /\ InFlight(r, "team")
    /\ teamDoc' = [teamDoc EXCEPT
                      ![s.team] = [score |-> @.score + s.points,
                                   solved |-> @.solved \cup {s.challenge}]]
    /\ Land(r, "team")
    /\ UNCHANGED <<pc, req, snap, victim, subs, chal, open, userDoc,
                   redisVars, dispatched, crashes>>

LastOf(seq, n) == IF Len(seq) <= n THEN seq
                  ELSE SubSeq(seq, Len(seq) - n + 1, Len(seq))

\* Mutant of Entry: the value is computed after the solve is counted.
EntryAfterCount(r) ==
    [user |-> Mine(r).user,
     points |-> CurrentPoints(Scoring[req[r].challenge], snap[r].solveCount + 1)]

\* The entry of recentSolves, and the array recordSolve builds with it.
Entry(r) == [user |-> Mine(r).user, points |-> Mine(r).points]
Extended(r) == Append(snap[r].recentSolves, Entry(r))

\* Past its cap recentSolves is replaced as a whole, so the save is
\* conditional on the version the document was loaded with.
ReplacesRecent(r) == Len(Extended(r)) > RecentCap

VersionConflict(r) ==
    ReplacesRecent(r) /\ chal[req[r].challenge].version # snap[r].version

\* What a save of recordSolve leaves in a challenge document d.  Both
\* submitFlag and recordSolve have added one to the loaded totalAttempts.
SavedSolve(r, d) ==
    LET s == snap[r] IN
    [solveCount |-> s.solveCount + 1,
     totalAttempts |-> s.totalAttempts + 2,
     firstBlood |-> IF s.firstBlood = NoUser THEN req[r].user ELSE d.firstBlood,
     recentSolves |-> IF ReplacesRecent(r) THEN LastOf(Extended(r), RecentCap)
                      ELSE Append(d.recentSolves, Entry(r)),
     version |-> d.version + 1]

\* challenge.recordSolve, or the VersionError that makes the handler fail.
RecordSolve(r) ==
    LET c == req[r].challenge IN
    /\ pc[r] = "fanout" /\ InFlight(r, "challenge")
    /\ IF VersionConflict(r)
       THEN GoTo(r, "conflict") /\ UNCHANGED <<chal, landed>>
       ELSE /\ chal' = [chal EXCEPT ![c] = SavedSolve(r, @)]
            /\ Land(r, "challenge")
            /\ UNCHANGED pc
    /\ UNCHANGED <<req, snap, victim, subs, open, scoreVars, redisVars,
                   dispatched, crashes>>

Dispatch(h, calls) == dispatched' = dispatched \cup {<<h, call>> : call \in calls}

\* All three writes are done: the boards are marked stale, not awaited.
FinishSolve(r) ==
    /\ pc[r] = "fanout" /\ landed[r] = SolveWrites(r)
    /\ Dispatch(r, IF "team" \in landed[r] THEN {"global_user", "global_team"}
                   ELSE {"global_user"})
    /\ GoTo(r, "reset")
    /\ UNCHANGED <<req, snap, landed, victim, subs, chal, open, scoreVars,
                   redisVars, crashes>>

\* rateLimitCache.reset, then the story hook, not awaited.
ResetAttempts(r) ==
    LET q == req[r] IN
    /\ pc[r] = "reset"
    /\ attempts' = [attempts EXCEPT ![q.user][q.challenge] = 0]
    /\ expiring' = [expiring EXCEPT ![q.user][q.challenge] = FALSE]
    /\ Dispatch(r, {"story"})
    /\ GoTo(r, "done")
    /\ UNCHANGED <<req, snap, landed, victim, subs, chal, open, scoreVars, crashes>>

------------------------------------------------------------------------------
(* deleteSubmission, by an administrator *)

\* Submission.findById: 404 if there is none.
FindSubmission(d) ==
    /\ pc[d] = "idle"
    /\ \E r \in Requests :
        /\ victim' = [victim EXCEPT ![d] = [id |-> r, doc |-> subs[r]]]
        /\ GoTo(d, IF subs[r] = NoSubmission THEN "rejected"
                   ELSE IF subs[r].isCorrect THEN "fanout" ELSE "remove")
    /\ UNCHANGED <<req, snap, landed, subs, chal, open, scoreVars,
                   redisVars, dispatched, crashes>>

\* An incorrect submission is deleted with no other effect.
RemoveIncorrect(d) ==
    /\ pc[d] = "remove"
    /\ subs' = [subs EXCEPT ![victim[d].id] = NoSubmission]
    /\ GoTo(d, "done")
    /\ UNCHANGED <<req, snap, landed, victim, chal, open, scoreVars,
                   redisVars, dispatched, crashes>>

Undoing(d, w) == pc[d] = "fanout" /\ w \in DeleteWrites(d) \ landed[d]

\* Submission.findByIdAndDelete; that nothing was found is not noticed.
RemoveSubmission(d) ==
    /\ Undoing(d, "submission")
    /\ subs' = [subs EXCEPT ![victim[d].id] = NoSubmission]
    /\ Land(d, "submission")
    /\ UNCHANGED <<pc, req, snap, victim, chal, open, scoreVars, redisVars,
                   dispatched, crashes>>

\* User.findByIdAndUpdate: $inc minus the points, $pull the challenge.
DebitUser(d) ==
    LET s == victim[d].doc IN
    /\ Undoing(d, "user")
    /\ userDoc' = [userDoc EXCEPT
                      ![s.user] = [score |-> @.score - s.points,
                                   solved |-> @.solved \ {s.challenge}]]
    /\ Land(d, "user")
    /\ UNCHANGED <<pc, req, snap, victim, subs, chal, open, teamDoc,
                   redisVars, dispatched, crashes>>

\* Team.findByIdAndUpdate, the same for the team.
DebitTeam(d) ==
    LET s == victim[d].doc IN
    /\ Undoing(d, "team")
    /\ teamDoc' = [teamDoc EXCEPT
                      ![s.team] = [score |-> @.score - s.points,
                                   solved |-> @.solved \ {s.challenge}]]
    /\ Land(d, "team")
    /\ UNCHANGED <<pc, req, snap, victim, subs, chal, open, userDoc,
                   redisVars, dispatched, crashes>>

\* Challenge.findByIdAndUpdate: $inc of both counters, and $unset of
\* firstBlood if the deleted submission held it.
UncountSolve(d) ==
    LET s == victim[d].doc IN
    /\ Undoing(d, "challenge")
    /\ chal' = [chal EXCEPT
                   ![s.challenge].solveCount = @ - 1,
                   ![s.challenge].totalAttempts = @ - 1,
                   ![s.challenge].firstBlood = IF s.isFirstBlood THEN NoUser ELSE @]
    /\ Land(d, "challenge")
    /\ UNCHANGED <<pc, req, snap, victim, subs, open, scoreVars, redisVars,
                   dispatched, crashes>>

\* All four writes are done: the boards are marked stale, not awaited.
FinishDelete(d) ==
    /\ pc[d] = "fanout" /\ landed[d] = DeleteWrites(d)
    /\ Dispatch(d, IF "team" \in landed[d] THEN {"global_user", "global_team"}
                   ELSE {"global_user"})
    /\ GoTo(d, "clamp")
    /\ UNCHANGED <<req, snap, landed, victim, subs, chal, open, scoreVars,
                   redisVars, crashes>>

\* Mutant of ClampScore: a negative score stays.
LeaveScore(d) ==
    /\ pc[d] = "clamp"
    /\ GoTo(d, "done")
    /\ UNCHANGED <<req, snap, landed, victim, subs, chal, open, scoreVars,
                   redisVars, dispatched, crashes>>

\* User.updateOne sets a negative score to zero.
ClampScore(d) ==
    LET u == victim[d].doc.user IN
    /\ pc[d] = "clamp"
    /\ userDoc' = [userDoc EXCEPT ![u].score = IF @ < 0 THEN 0 ELSE @]
    /\ GoTo(d, "done")
    /\ UNCHANGED <<req, snap, landed, victim, subs, chal, open, teamDoc,
                   redisVars, dispatched, crashes>>

------------------------------------------------------------------------------
(* The environment *)

\* Redis drops a counter whose TTL has run out.
AttemptsExpire(u, c) ==
    /\ attempts[u][c] > 0 /\ expiring[u][c]
    /\ attempts' = [attempts EXCEPT ![u][c] = 0]
    /\ expiring' = [expiring EXCEPT ![u][c] = FALSE]
    /\ UNCHANGED <<handlerVars, subs, chal, open, scoreVars, dispatched, crashes>>

\* The challenge reaches closedAt, or an administrator hides, archives or
\* publishes it.
ToggleOpen(c) ==
    /\ open' = [open EXCEPT ![c] = ~@]
    /\ UNCHANGED <<handlerVars, subs, chal, scoreVars, redisVars, dispatched,
                   crashes>>

\* A handler that failed with a VersionError still has writes on their way.
Running(h) ==
    \/ pc[h] \notin {"idle", "done", "rejected", "failed", "conflict", "crashed",
                    "cutOff"}
    \/ pc[h] = "conflict" /\ \E w \in {"user", "team"} : InFlight(h, w)

\* Where a handler is left that the process takes down; one that was between
\* its INCR and its EXPIRE is kept apart.
Stopped(h) == IF ~Running(h) THEN pc[h]
              ELSE IF pc[h] = "expire" THEN "cutOff" ELSE "crashed"

\* The API process dies: every handler stops where it is, and what it had
\* written stays.
Crash ==
    /\ crashes < MaxCrashes
    /\ crashes' = crashes + 1
    /\ pc' = [h \in DOMAIN pc |-> Stopped(h)]
    /\ UNCHANGED <<req, snap, landed, victim, subs, chal, open, scoreVars,
                   redisVars, dispatched>>

SubmitStep(r) ==
    \/ CheckRate(r) \/ LoadChallenge(r) \/ CheckUserSolve(r) \/ CheckTeamSolve(r)
    \/ InsertSubmission(r) \/ SaveAttempt(r) \/ IncrAttempts(r) \/ ExpireAttempts(r)
    \/ CreditUser(r) \/ CreditTeam(r) \/ RecordSolve(r) \/ FinishSolve(r)
    \/ ResetAttempts(r)

DeleteStep(d) ==
    \/ FindSubmission(d) \/ RemoveIncorrect(d) \/ RemoveSubmission(d)
    \/ DebitUser(d) \/ DebitTeam(d) \/ UncountSolve(d) \/ FinishDelete(d)
    \/ ClampScore(d)

Next ==
    \/ \E r \in Requests : SubmitStep(r)
    \/ \E d \in Deletions : DeleteStep(d)
    \/ \E u \in Users, c \in Challenges : AttemptsExpire(u, c)
    \/ \E c \in Challenges : ToggleOpen(c)
    \/ Crash

Spec == Init /\ [][Next]_vars

\* A started write is answered, a dispatched timer runs and Redis expires its
\* keys.  That a player submits at all is not assumed.
Fairness ==
    /\ \A r \in Requests : WF_vars(pc[r] # "idle" /\ SubmitStep(r))
    /\ \A u \in Users, c \in Challenges : WF_vars(AttemptsExpire(u, c))

FairSpec == Spec /\ Fairness

------------------------------------------------------------------------------
(* Properties *)

\* Every variable has its type.
TypeOK ==
    /\ pc \in [Requests \cup Deletions -> RequestStages \cup DeletionStages]
    /\ req \in [Requests -> [user : Users, challenge : Challenges]]
    /\ snap \in [Requests -> ChallengeDocs]
    /\ landed \in [Requests \cup Deletions ->
                      SUBSET {"submission", "user", "challenge", "team"}]
    /\ victim \in [Deletions ->
                      [id : Requests, doc : Submissions \cup {NoSubmission}]
                      \cup {NoVictim}]
    /\ subs \in [Requests -> Submissions \cup {NoSubmission}]
    /\ chal \in [Challenges -> ChallengeDocs]
    /\ open \in [Challenges -> BOOLEAN]
    /\ userDoc \in [Users -> Tallies]
    /\ teamDoc \in [Teams -> Tallies]
    /\ attempts \in [Users -> [Challenges -> Nat]]
    /\ expiring \in [Users -> [Challenges -> BOOLEAN]]
    /\ dispatched \subseteq (Requests \cup Deletions) \X
                            {"global_user", "global_team", "story"}
    /\ crashes \in 0..MaxCrashes

\* However the two duplicate checks of concurrent calls interleave, a player
\* has at most one correct submission for a challenge.
OneSolvePerUser ==
    \A r, q \in Correct :
        subs[r].user = subs[q].user /\ subs[r].challenge = subs[q].challenge
            => r = q

SolvesOf(c) == {r \in Correct : subs[r].challenge = c}

\* While nothing is deleted, a challenge never counts more solves than there
\* are correct submissions for it, although every save writes a number
\* computed from an older read.
SolveCountNotAhead ==
    \A c \in Challenges : chal[c].solveCount <= Cardinality(SolvesOf(c))

\* While nothing is deleted, the player named as first blood of a challenge
\* has a correct submission for it that is flagged as first blood.
FirstBloodIsFlagged ==
    \A c \in Challenges :
        chal[c].firstBlood # NoUser =>
            \E r \in SolvesOf(c) :
                subs[r].user = chal[c].firstBlood /\ subs[r].isFirstBlood

\* While nothing is deleted, a challenge that has been solved has a submission
\* flagged as first blood: concurrent first solvers cannot all miss it.
SomeoneDrewFirstBlood ==
    \A c \in Challenges :
        SolvesOf(c) # {} => \E r \in SolvesOf(c) : subs[r].isFirstBlood

\* What recordSolve keeps on a challenge follows the submissions, although each
\* save of it is computed from an older read.
ChallengeFollowsSolves ==
    /\ SolveCountNotAhead
    /\ FirstBloodIsFlagged
    /\ SomeoneDrewFirstBlood

\* While nothing is deleted, recentSolves shows each correct submission at most
\* once, for the player that sent it and the points it was awarded, even when
\* saves of different snapshots append to and replace the array.
RecentSolvesAreSolves ==
    \A c \in Challenges :
        LET seen == chal[c].recentSolves IN
        \A i, j \in DOMAIN seen :
            /\ \E r \in SolvesOf(c) : seen[i].user = subs[r].user
                                      /\ seen[i].points = subs[r].points
            /\ seen[i].user = seen[j].user => i = j

\* No handler is part-way through.
AtRest == \A h \in Requests \cup Deletions : ~Running(h)

\* With no more than the clamp of deleteSubmission to prevent it, a player's
\* score is not negative once every call has ended.
ScoreNotNegativeAtRest ==
    AtRest /\ crashes = 0 => \A u \in Users : userDoc[u].score >= 0

\* Once every call has ended, each correct submission has reached the player's
\* score, although recordSolve may have failed; only a crash can prevent it.
SolvesPaidAtRest ==
    AtRest => \A r \in Correct : "user" \in landed[r] \/ pc[r] = "crashed"

\* The correct submissions whose credit has reached a player, or a team.
PaidToUser(u) == {r \in Correct : subs[r].user = u /\ "user" \in landed[r]}
PaidToTeam(t) == {r \in Correct : subs[r].team = t /\ "team" \in landed[r]}

PointsOf(S) == SumFunctionOnSet([r \in S |-> subs[r].points], S)
ChallengesOf(S) == {subs[r].challenge : r \in S}

\* While nothing is deleted, the score of a player is the sum of the points of
\* the correct submissions whose credit has landed, and solvedChallenges names
\* exactly their challenges, at every moment and across crashes.
UserScoreIsLedger ==
    \A u \in Users :
        /\ userDoc[u].score = PointsOf(PaidToUser(u))
        /\ userDoc[u].solved = ChallengesOf(PaidToUser(u))

\* The same for teams, whichever member solved.
TeamScoreIsLedger ==
    \A t \in Teams :
        /\ teamDoc[t].score = PointsOf(PaidToTeam(t))
        /\ teamDoc[t].solved = ChallengesOf(PaidToTeam(t))

\* At every moment, whatever overlaps or fails, no credit of submitFlag is lost,
\* doubled or made with points other than those of the submission, and in the end
\* each correct submission has reached its player.
ScoresAreLedger == UserScoreIsLedger /\ TeamScoreIsLedger /\ SolvesPaidAtRest

\* The call that first counted the present attempts died before its EXPIRE.
CutOff(u, c) ==
    /\ ~expiring[u][c]
    /\ \E r \in Requests :
           pc[r] = "cutOff" /\ req[r] = [user |-> u, challenge |-> c]

\* A player that ran out of attempts gets new ones, whatever other calls count,
\* reset or expire beside the INCR and the EXPIRE of the first wrong attempt,
\* unless the process died between these two.
LockoutEnds ==
    \A u \in Users, c \in Challenges :
        attempts[u][c] >= MaxAttempts ~>
            attempts[u][c] < MaxAttempts \/ CutOff(u, c)

------------------------------------------------------------------------------
(* The abstract ledger *)

\* What a correct submission records, under the call that inserted it.
LedgerEntry(r) ==
    [user |-> subs[r].user, team |-> subs[r].team, challenge |-> subs[r].challenge,
     points |-> subs[r].points]

Entries == [r \in Correct |-> LedgerEntry(r)]

\* The credits of submitFlag that have landed.
Credited == {p \in Requests \X {"user", "team"} : p[2] \in landed[p[1]]}

Ledger == INSTANCE SolveLedger WITH
    Ids <- Requests,
    entry <- Entries,
    credited <- Credited,
    players <- userDoc,
    teams <- teamDoc

\* While nothing is deleted, flag submission implements the ledger: the solves
\* of a player are recorded once per challenge, and every change of a player's
\* or a team's document is the first arrival there of one recorded solve, with
\* its recorded points.  A second $inc, or one of another amount, is no step of
\* the ledger.
ImplementsLedger == Ledger!Spec
==============================================================================
