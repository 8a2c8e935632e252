---------------------------- MODULE Scoreboards ----------------------------
(***************************************************************************)
(* The stored leaderboards (leaderboard.service.ts, leaderboard.model.ts), *)
(* the solves they are computed from, and the event whose freeze they      *)
(* follow (Events).  "global" stands for the two global boards, which sum  *)
(* the scores of users or teams; "event" for the two boards of the event,  *)
(* which sum its submissions.  The boards of one scope differ in what they *)
(* group by only.                                                          *)
(***************************************************************************)
EXTENDS Events

CONSTANTS
    Solves,     \* correct submissions
    ChallengeOf,
    Boards,     \* identifiers of board documents
    Jobs,       \* slots of concurrent recomputations
    MaxJobs     \* bound: recomputations in all

ASSUME SolvesAssumption ==
    /\ ChallengeOf \in [Solves -> Challenges]
    /\ None \notin Boards
    /\ MaxJobs \in Nat
    /\ MaxTime # 0

VARIABLES
    stage,      \* how far the handler that made, or deletes, a solve has come
    stamp,      \* createdAt of each submission
    stored,     \* submissions in the database
    credited,   \* solves that are part of the score of their user
    board,      \* the board documents
    job,        \* the recomputations in progress
    started,    \* how many were started
    now,        \* the time each freeze at work took before its write, or None
    torn        \* history: a flag was written for another state of the event

solveVars == <<stage, stamp, stored, credited>>
boardVars == <<board, job, started, now, torn>>
allVars == <<vars, solveVars, boardVars>>

Scopes == {"global", "event"}

\* missed, read and raced are history: the solves marked while the board was being
\* computed, the time its solves were read (event boards), and that they were read
\* after the time of the setFrozen that flagged it last.
BoardDocs ==
    [scope : Scopes, solves : SUBSET Solves, stale : BOOLEAN,
     frozen : BOOLEAN, frozenAt : Times \cup {None}, missed : SUBSET Solves,
     read : Times, raced : BOOLEAN]

\* until is the time up to which solves count, None if there is no limit.
JobStates ==
    [step : {"event", "solves", "upsert", "insert"}, scope : Scopes,
     among : SUBSET Challenges, frozen : BOOLEAN, until : Times \cup {None},
     solves : SUBSET Solves, missed : SUBSET Solves, read : Times]

BoardsTypeOK ==
    /\ stage \in [Solves -> {"none", "stamped", "stored", "credited", "marked",
                             "unmarked", "deleting", "gone", "forgotten"}]
    /\ stamp \in [Solves -> Times \cup {None}]
    /\ stored \subseteq Solves
    /\ credited \subseteq Solves
    /\ board \in [Boards -> BoardDocs \cup {None}]
    /\ job \in [Jobs -> JobStates \cup {None}]
    /\ started \in 0..MaxJobs
    /\ now \in [Calls -> Times \cup {None}]
    /\ torn \in BOOLEAN

BoardsInit ==
    /\ \E set \in SUBSET Challenges, max \in Capacities :
        event = Created("active", 1, MaxTime + 1, set, max)
    /\ Idle
    /\ stage = [s \in Solves |-> "none"]
    /\ stamp = [s \in Solves |-> None]
    /\ stored = {}
    /\ credited = {}
    /\ board = [b \in Boards |-> None]
    /\ job = [j \in Jobs |-> None]
    /\ started = 0
    /\ now = [c \in Calls |-> None]
    /\ torn = FALSE

BoardsOf(scope) == {b \in Boards : board[b] # None /\ board[b].scope = scope}

-----------------------------------------------------------------------------
(* Solves: submitFlag and deleteSubmission, as far as boards see them *)

Step(s, from, to) == stage[s] \in from /\ stage' = [stage EXCEPT ![s] = to]

\* The submission gets its createdAt, and reaches the database later.
Stamp(s) ==
    /\ Step(s, {"none"}, "stamped")
    /\ stamp' = [stamp EXCEPT ![s] = clock]
    /\ UNCHANGED <<stored, credited, board, job>>

Store(s) ==
    /\ Step(s, {"stamped"}, "stored")
    /\ stored' = stored \cup {s}
    /\ UNCHANGED <<stamp, credited, board, job>>

Credit(s) ==
    /\ Step(s, {"stored"}, "credited")
    /\ credited' = credited \cup {s}
    /\ UNCHANGED <<stamp, stored, board, job>>

Delete(s) ==
    /\ Step(s, {"marked", "unmarked"}, "deleting")
    /\ UNCHANGED <<stamp, stored, credited, board, job>>

\* Two of the writes of the Promise.all.
Remove(s) ==
    /\ stage[s] = "deleting" /\ s \in stored
    /\ stored' = stored \ {s}
    /\ UNCHANGED <<stage, stamp, credited, board, job>>

Debit(s) ==
    /\ stage[s] = "deleting" /\ s \in credited
    /\ credited' = credited \ {s}
    /\ UNCHANGED <<stage, stamp, stored, board, job>>

\* markStale, called for the global boards only, and only of use if they exist.
MarkedEventBoards == {b \in BoardsOf("event") : ~board[b].stale}   \* Mutant of MarkedBoards.
MarkedBoards == {b \in BoardsOf("global") : ~board[b].stale}
Missing(s) ==
    /\ board' = [b \in Boards |-> IF b \in MarkedBoards THEN [board[b] EXCEPT !.stale = TRUE]
                                  ELSE board[b]]
    /\ job' = [j \in Jobs |-> IF job[j] # None /\ job[j].scope = "global" /\ job[j].step \in {"upsert", "insert"}
                              THEN [job[j] EXCEPT !.missed = @ \cup {s}]
                              ELSE job[j]]

Mark(s) ==
    /\ \/ Step(s, {"credited"}, "marked")
       \/ s \notin stored \cup credited /\ Step(s, {"deleting"}, "gone")
    /\ Missing(s)
    /\ UNCHANGED <<stamp, stored, credited>>

\* The call of markStale is not reached, or fails: nobody waits for it.
LoseMark(s) ==
    /\ \/ Step(s, {"credited"}, "unmarked")
       \/ s \notin stored \cup credited /\ Step(s, {"deleting"}, "forgotten")
    /\ UNCHANGED <<stamp, stored, credited, board, job>>

Solving(s) ==
    /\ Stamp(s) \/ Store(s) \/ Credit(s) \/ Mark(s) \/ LoseMark(s)
       \/ Delete(s) \/ Remove(s) \/ Debit(s)
    /\ UNCHANGED <<vars, started, now, torn>>

-----------------------------------------------------------------------------
(* Recomputation *)

NewJob(step, scope) ==
    [step |-> step, scope |-> scope, among |-> {}, frozen |-> FALSE, until |-> None,
     solves |-> {}, missed |-> {}, read |-> 0]

\* getLeaderboard computes a board that does not exist, recomputeStale those that
\* are marked, an administrator any.
Wanted(scope, by) ==
    CASE by = "reader" -> BoardsOf(scope) = {}
      [] by = "stale" -> \E b \in BoardsOf(scope) : board[b].stale
      [] by = "admin" -> TRUE

Recompute(j, scope, by) ==
    /\ job[j] = None
    /\ Wanted(scope, by)
    /\ started < MaxJobs
    /\ started' = started + 1
    /\ job' = [job EXCEPT ![j] = NewJob(IF scope = "event" THEN "event" ELSE "solves", scope)]
    /\ UNCHANGED <<board, torn>>

\* An event without challenges is not looked up further, and counts as not frozen.
ReadEvent(j) ==
    /\ job[j] # None /\ job[j].step = "event"
    /\ event # None
    /\ job' = [job EXCEPT ![j] =
         IF event.challenges = {}
         THEN [@ EXCEPT !.step = "upsert"]
         ELSE [@ EXCEPT !.step = "solves", !.among = event.challenges,
                        !.frozen = event.frozen, !.until = event.frozenAt]]
    /\ UNCHANGED <<board, torn>>

EverySolve(v) ==                       \* Mutant of Counted.
    IF v.scope = "global" THEN credited ELSE {s \in stored : ChallengeOf[s] \in v.among}
Counted(v) ==
    IF v.scope = "global"
    THEN credited
    ELSE {s \in stored : /\ ChallengeOf[s] \in v.among
                         /\ v.frozen /\ v.until # None => stamp[s] <= v.until}

ReadSolves(j) ==
    /\ job[j] # None /\ job[j].step = "solves"
    /\ job' = [job EXCEPT ![j] =
         [@ EXCEPT !.step = "upsert", !.solves = Counted(job[j]),
                   !.read = IF job[j].scope = "event" THEN clock ELSE 0]]
    /\ UNCHANGED <<board, torn>>

\* What upsertBoard writes.  The data of an event without challenges, and of a
\* global board, has no frozenAt; that of a global board has no isFrozen either.
WrittenUndefined(v, b) ==              \* Mutant of Written.
    [scope |-> v.scope, solves |-> v.solves, stale |-> FALSE,
     frozen |-> IF v.scope = "global" THEN None ELSE v.frozen,
     frozenAt |-> v.until, missed |-> v.missed, read |-> v.read, raced |-> FALSE]
Written(v, b) ==
    [scope |-> v.scope, solves |-> v.solves, stale |-> FALSE,
     frozen |-> v.frozen,
     frozenAt |-> IF v.among = {} THEN IF b = None THEN None ELSE board[b].frozenAt
                  ELSE v.until,
     missed |-> v.missed, read |-> v.read, raced |-> FALSE]

Reflects(v) == v.scope = "event" => event = None \/ v.frozen = event.frozen

Finish(j, boards) ==
    /\ board' = boards
    /\ job' = [job EXCEPT ![j] = None]
    /\ torn' = (torn \/ ~Reflects(job[j]))

\* An upsert updates a board it finds ...
Update(j) ==
    /\ job[j] # None /\ job[j].step = "upsert"
    /\ \E b \in BoardsOf(job[j].scope) :
        Finish(j, [board EXCEPT ![b] = Written(job[j], b)])

\* ... and otherwise inserts one, unless the index on global boards refuses that.
FindNone(j) ==
    /\ job[j] # None /\ job[j].step = "upsert"
    /\ BoardsOf(job[j].scope) = {}
    /\ job' = [job EXCEPT ![j] = [@ EXCEPT !.step = "insert"]]
    /\ UNCHANGED <<board, torn>>

NoGlobalIndex(scope) == TRUE           \* Mutant of IndexAdmits.
IndexAdmits(scope) == scope = "global" => BoardsOf(scope) = {}

Insert(j) ==
    /\ job[j] # None /\ job[j].step = "insert"
    /\ IF IndexAdmits(job[j].scope)
       THEN \E b \in Boards :
            /\ board[b] = None
            /\ Finish(j, [board EXCEPT ![b] = Written(job[j], None)])
       ELSE \* The command is tried again.
            /\ job' = [job EXCEPT ![j] = [@ EXCEPT !.step = "upsert"]]
            /\ UNCHANGED <<board, torn>>

\* The event is gone, a command fails, or the process stops.
Abort(j) ==
    /\ job[j] # None
    /\ job' = [job EXCEPT ![j] = None]
    /\ UNCHANGED <<board, torn>>

Recomputing(j) ==
    /\ \/ \E scope \in Scopes, by \in {"reader", "stale", "admin"} : Recompute(j, scope, by)
       \/ /\ ReadEvent(j) \/ ReadSolves(j) \/ Update(j) \/ FindNone(j) \/ Insert(j) \/ Abort(j)
          /\ UNCHANGED started
    /\ UNCHANGED <<vars, solveVars, now>>

-----------------------------------------------------------------------------
(* freezeScoreboard goes on to the boards, without computing them again *)

\* setFrozen takes the time it will write, of use to a freeze only, and then
\* awaits the updateMany.
TakeNow(c) ==
    /\ at[c] = "saved" /\ call[c].kind = "freeze"
    /\ now[c] = None
    /\ now' = [now EXCEPT ![c] = clock]
    /\ UNCHANGED <<vars, solveVars, board, job, started, torn>>

Flagged(d, c) ==
    LET b == call[c].kind = "freeze" IN
    [d EXCEPT !.frozen = b, !.frozenAt = IF b THEN now[c] ELSE None,
              !.raced = b /\ d.read > now[c]]

FlagsOneBoard ==                       \* Mutant of FlaggedBoards.
    IF BoardsOf("event") = {} THEN {} ELSE {CHOOSE x \in BoardsOf("event") : TRUE}
FlaggedBoards == BoardsOf("event")

\* The updateMany, some time later.
FlagBoards(c) ==
    /\ SetFrozen(c)
    /\ call[c].kind = "freeze" => now[c] # None
    /\ board' = [x \in Boards |-> IF x \in FlaggedBoards THEN Flagged(board[x], c)
                                 ELSE board[x]]
    /\ now' = [now EXCEPT ![c] = None]
    /\ torn' = (torn \/ event = None \/ event.frozen # (call[c].kind = "freeze"))
    /\ UNCHANGED <<solveVars, job, started>>

\* The flag of the event is saved and that of its boards is not.
FailToFlag(c) ==
    /\ at[c] = "saved"
    /\ Fail(c)
    /\ now' = [now EXCEPT ![c] = None]
    /\ torn' = (torn \/ call[c].kind \in {"freeze", "thaw"})
    /\ UNCHANGED <<solveVars, board, job, started>>

EventStep ==
    /\ \/ Tick
       \/ \E c \in Calls :
            \/ \E r \in {q \in Requests : q.kind \in Kinds} : Load(c, r)
            \/ Save(c) \/ CountRegistration(c) \/ CountTeam(c) \/ DeleteEvent(c)
            \/ at[c] = "loaded" /\ Fail(c)
    /\ UNCHANGED <<solveVars, boardVars>>

BoardsNext ==
    \/ EventStep
    \/ \E c \in Calls : TakeNow(c) \/ FlagBoards(c) \/ FailToFlag(c)
    \/ \E s \in Solves : Solving(s)
    \/ \E j \in Jobs : Recomputing(j)

BoardsSpec == BoardsInit /\ [][BoardsNext]_allVars

-----------------------------------------------------------------------------
(* Properties *)

\* markStale against recompute: a global board that is not stale shows the solves
\* as they are, but for those that were marked while it was being computed.
FreshUnlessOvertaken ==
    \A b \in BoardsOf("global") : ~board[b].stale =>
        \A s \in Solves \ board[b].missed :
            /\ stage[s] = "marked" => s \in board[b].solves
            /\ stage[s] = "gone" => s \notin board[b].solves

\* setFrozen and computeEventUserBoard: a board that calls itself frozen shows no
\* solve made after the time it gives, unless its solves were read between the
\* time and the write of the setFrozen that flagged it.
FrozenBoardIsOldUnlessRaced ==
    \A b \in BoardsOf("event") : board[b].frozen =>
        \/ board[b].raced
        \/ \A s \in board[b].solves : stamp[s] <= board[b].frozenAt

\* freezeScoreboard: when none of its calls is between its two steps, the boards
\* and the event agree on the freeze, unless one of its calls failed between them,
\* crossed another one, or a board was computed for an earlier state of the event.
FlagsAgreeUnlessTorn ==
    \/ torn \/ event = None
    \/ \E c \in Calls : at[c] = "saved" /\ call[c].kind \in {"freeze", "thaw"}
    \/ \A b \in BoardsOf("event") : board[b].frozen = event.frozen

\* upsertBoard: however many readers find no global board, one is created.
OneGlobalBoard == Cardinality(BoardsOf("global")) <= 1

\* The boards as the readers, writers and administrators leave them.
BoardsConsistent ==
    /\ BoardsTypeOK
    /\ OneGlobalBoard
    /\ FrozenBoardIsOldUnlessRaced
    /\ FlagsAgreeUnlessTorn
=============================================================================
