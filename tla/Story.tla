------------------------------- MODULE Story --------------------------------
(***************************************************************************)
(* Playing one story: startStory, advanceNode, makeChoice,                 *)
(* notifyChallengeSolved and _commitNodeCompletion of story.service.ts,    *)
(* while chapters are published.                                           *)
(*                                                                         *)
(* A call checks the progress it loads (Advance, Choose, Check), reads it  *)
(* again in a transaction (Open), and commits (Commit).  The transaction   *)
(* is refused when a document it writes was written since, and is not      *)
(* started again.                                                          *)
(***************************************************************************)
EXTENDS StoryGraph

CONSTANTS
    Users,
    Calls,      \* slots of concurrent calls
    Graphs,     \* the stories: functions from nodes to their documents
    Order,      \* the order of each chapter
    Gated       \* chapters with unlockAfterChapters

ASSUME StoryAssumption ==
    /\ Graphs \subseteq [Nodes -> NodeDocs]
    /\ Order \in [Chapters -> Nat]
    /\ Gated \subseteq Chapters
    /\ None \notin Users
    /\ IsFiniteSet(Users) /\ IsFiniteSet(Nodes)

VARIABLES
    graph,
    published,      \* the published chapters
    progress,       \* UserStoryProgress of each user, None before the start
    solved,         \* the challenge nodes each user has a solve of
    bonus,          \* completion bonuses each user was paid
    completionCount,
    call,
    unseen          \* chapters published after each user's last chapter completion
                    \* read them: a history variable

storyVars == <<graph, published, progress, solved, bonus, completionCount, call, unseen>>

-----------------------------------------------------------------------------

\* Cutscenes and briefings are "text".  activePath, the points and the times are
\* left out.
Progress ==
    [status : {"in_progress", "completed"}, chapter : Chapters, current : Nodes,
     completed : SUBSET Nodes, bypassed : SUBSET Nodes, chapters : SUBSET Chapters]

ASSUME NoneIsNoProgress == None \notin Progress

\* bypassing and next are what the caller computed, the last three fields are
\* the snapshot of the transaction.
CallRecord ==
    [stage : {"notified", "decided", "open"}, user : Users, node : Nodes,
     bypassing : SUBSET Nodes, next : Nodes \cup {None},
     progress : Progress \cup {None}, published : SUBSET Chapters, count : Nat]

NewCall(stage, u, n, bypassing, next) ==
    [stage |-> stage, user |-> u, node |-> n, bypassing |-> bypassing, next |-> next,
     progress |-> None, published |-> {}, count |-> 0]

StoryInit ==
    /\ graph \in Graphs
    /\ published = {}
    /\ progress = [u \in Users |-> None]
    /\ solved = [u \in Users |-> {}]
    /\ bonus = [u \in Users |-> 0]
    /\ completionCount = 0
    /\ call = [c \in Calls |-> None]
    /\ unseen = [u \in Users |-> {}]

-----------------------------------------------------------------------------
(* The graph of a published chapter does not change in this module.         *)

Publish(ch) ==
    /\ ch \notin published
    /\ ValidChapter(graph, ch)
    /\ published' = published \cup {ch}
    /\ unseen' = [u \in Users |-> unseen[u] \cup {ch}]
    /\ UNCHANGED <<graph, progress, solved, bonus, completionCount, call>>

\* The lowest order of a set of chapters.
IsFirst(ch, among) == ch \in among /\ \A d \in among : Order[ch] <= Order[d]

\* A second start returns the progress there is, by the check or by the unique index.
StartStory(u) ==
    /\ progress[u] = None
    /\ \E ch \in Chapters : \E e \in Entries(graph, ch) :
        /\ IsFirst(ch, published \ Gated)
        /\ progress' = [progress EXCEPT ![u] =
                [status |-> "in_progress", chapter |-> ch, current |-> e,
                 completed |-> {}, bypassed |-> {}, chapters |-> {}]]
    /\ UNCHANGED <<graph, published, solved, bonus, completionCount, call, unseen>>

-----------------------------------------------------------------------------
(* The callers of _commitNodeCompletion, up to its transaction.             *)

IsCurrent(u, n) ==
    /\ progress[u] # None
    /\ progress[u].current = n
    /\ n \notin progress[u].completed

PrerequisitesMet(u, n) ==
    /\ n \notin progress[u].bypassed
    /\ graph[n].unlockAfter \subseteq progress[u].completed

AdvanceNode(c, u, n) ==
    /\ call[c] = None
    /\ graph[n].type = "text"
    /\ IsCurrent(u, n)
    /\ PrerequisitesMet(u, n)
    /\ call' = [call EXCEPT ![c] = NewCall("decided", u, n, {}, graph[n].next)]
    /\ UNCHANGED <<graph, published, progress, solved, bonus, completionCount, unseen>>

MakeChoice(c, u, n, target) ==
    /\ call[c] = None
    /\ graph[n].type = "choice"
    /\ IsCurrent(u, n)
    /\ PrerequisitesMet(u, n)
    /\ target \in graph[n].choices
    /\ call' = [call EXCEPT ![c] =
            NewCall("decided", u, n, Bypassed(graph, n, target), target)]
    /\ UNCHANGED <<graph, published, progress, solved, bonus, completionCount, unseen>>

\* The first solve of a challenge that node n wraps, and the notice of it that
\* submission.service.ts sends and does not wait for.
SolveChallenge(c, u, n) ==
    /\ call[c] = None
    /\ graph[n].type = "challenge"
    /\ n \notin solved[u]
    /\ solved' = [solved EXCEPT ![u] = @ \cup {n}]
    /\ call' = [call EXCEPT ![c] = NewCall("notified", u, n, {}, graph[n].next)]
    /\ UNCHANGED <<graph, published, progress, bonus, completionCount, unseen>>

\* Neither prerequisites nor the branch are looked at; a notice that comes at
\* another node is dropped.
NotifyChallengeSolved(c) ==
    /\ call[c] # None /\ call[c].stage = "notified"
    /\ LET u == call[c].user
           n == call[c].node
           heard == /\ graph[n].chapter \in published
                    /\ IsCurrent(u, n)
                    /\ progress[u].status = "in_progress"
                    /\ n \in solved[u]
       IN call' = [call EXCEPT ![c] = IF heard THEN [@ EXCEPT !.stage = "decided"]
                                               ELSE None]
    /\ UNCHANGED <<graph, published, progress, solved, bonus, completionCount, unseen>>

-----------------------------------------------------------------------------
(* _commitNodeCompletion                                                    *)

\* The transaction reads; a node that is completed by now ends the call.
Open(c) ==
    /\ call[c] # None /\ call[c].stage = "decided"
    /\ LET p == progress[call[c].user] IN
       call' = [call EXCEPT ![c] =
           IF call[c].node \in p.completed
           THEN None
           ELSE [@ EXCEPT !.stage = "open", !.progress = p,
                          !.published = published, !.count = completionCount]]
    /\ UNCHANGED <<graph, published, progress, solved, bonus, completionCount, unseen>>

Completed(k) == k.progress.completed \cup {k.node}
BypassedNow(k) == k.progress.bypassed \cup k.bypassing

ChapterJustCompleted(k) ==
    LET ch == graph[k.node].chapter IN
    /\ ch \notin k.progress.chapters
    /\ ChapterComplete(graph, ch, Completed(k), BypassedNow(k))

ChaptersNow(k) ==
    k.progress.chapters
        \cup (IF ChapterJustCompleted(k) THEN {graph[k.node].chapter} ELSE {})

\* Mutant of StoryCompleted.
NothingLater(k) ==
    /\ ChapterJustCompleted(k)
    /\ k.progress.status # "completed"
    /\ \A ch \in k.published : Order[ch] <= Order[graph[k.node].chapter]

StoryCompleted(k) ==
    /\ ChapterJustCompleted(k)
    /\ k.progress.status # "completed"
    /\ k.published \subseteq ChaptersNow(k)

\* Mutant of LaterChapters.
NextOrder(k) ==
    {ch \in k.published \ ChaptersNow(k) : Order[ch] = Order[graph[k.node].chapter] + 1}

\* The published chapters that come after the one of the node.
LaterChapters(k) ==
    {ch \in k.published \ ChaptersNow(k) : Order[ch] > Order[graph[k.node].chapter]}

\* Mutant of NextPlace.
NextUnchecked(k) == {[chapter |-> k.progress.chapter, current |-> k.next]}

\* The next node in the graph, or the entry of the next chapter once this one is
\* complete, or no move.
NextPlace(k) ==
    IF k.next # None
    THEN {[chapter |-> k.progress.chapter, current |-> k.next]}
    ELSE IF ChapterJustCompleted(k) /\ LaterChapters(k) # {}
    THEN UNION {{[chapter |-> ch, current |-> e] : e \in Entries(graph, ch)} :
                   ch \in {d \in Chapters : IsFirst(d, LaterChapters(k))}}
    ELSE {[chapter |-> k.progress.chapter, current |-> k.progress.current]}

NewProgress(k, place) ==
    [status |-> IF StoryCompleted(k) THEN "completed" ELSE k.progress.status,
     chapter |-> place.chapter,
     current |-> place.current,
     completed |-> Completed(k),
     bypassed |-> BypassedNow(k),
     chapters |-> ChaptersNow(k)]

\* Mutant of Conflict.
LastWriteWins(k) == FALSE

\* Somebody wrote a document of the transaction since it read.
Conflict(k) ==
    \/ progress[k.user] # k.progress
    \/ StoryCompleted(k) /\ completionCount # k.count

Commit(c) ==
    /\ call[c] # None /\ call[c].stage = "open"
    /\ ~ Conflict(call[c])
    /\ LET k == call[c]
           u == k.user
           one == IF StoryCompleted(k) THEN 1 ELSE 0
       IN /\ \E place \in NextPlace(k) :
                progress' = [progress EXCEPT ![u] = NewProgress(k, place)]
          /\ bonus' = [bonus EXCEPT ![u] = @ + one]
          /\ completionCount' = completionCount + one
          /\ unseen' = IF ChapterJustCompleted(k)
                       THEN [unseen EXCEPT ![u] = published \ k.published]
                       ELSE unseen
    /\ call' = [call EXCEPT ![c] = None]
    /\ UNCHANGED <<graph, published, solved>>

\* A write conflict, a conflict on the score of the user, or a crash: the
\* transaction is aborted, nothing starts it again.
Abort(c) ==
    /\ call[c] # None
    /\ call' = [call EXCEPT ![c] = None]
    /\ UNCHANGED <<graph, published, progress, solved, bonus, completionCount, unseen>>

StoryNext ==
    \/ \E ch \in Chapters : Publish(ch)
    \/ \E u \in Users : StartStory(u)
    \/ \E c \in Calls, u \in Users, n \in Nodes :
        \/ AdvanceNode(c, u, n)
        \/ \E target \in Nodes : MakeChoice(c, u, n, target)
        \/ SolveChallenge(c, u, n)
    \/ \E c \in Calls :
        \/ NotifyChallengeSolved(c)
        \/ Open(c)
        \/ Commit(c)
        \/ Abort(c)

StorySpec == StoryInit /\ [][StoryNext]_storyVars

-----------------------------------------------------------------------------
(* Properties                                                               *)

\* Every variable has its type.
TypeOK ==
    /\ graph \in Graphs
    /\ published \in SUBSET Chapters
    /\ progress \in [Users -> Progress \cup {None}]
    /\ solved \in [Users -> SUBSET Nodes]
    /\ bonus \in [Users -> Nat]
    /\ completionCount \in Nat
    /\ call \in [Calls -> CallRecord \cup {None}]
    /\ unseen \in [Users -> SUBSET Chapters]

Playing(u) == progress[u] # None

\* No node is both played and on a branch not taken, and nobody stands on a
\* branch not taken: what computeBypassedNodes hides is never led to again by
\* what is played afterwards, in any order of two concurrent choices.
BranchesApart ==
    \A u \in Users : Playing(u) =>
        /\ progress[u].completed \cap progress[u].bypassed = {}
        /\ progress[u].current \notin progress[u].bypassed

\* A required node of an unfinished chapter is played, on a branch not taken or
\* still ahead of the player, whatever was chosen on the way.  The only others
\* are those no edge a player follows leads to, which validateGraph lets through
\* for their prerequisites, or for an option of a node that is no choice.
Hidden(n) ==
    \A e \in Entries(graph, graph[n].chapter) :
        /\ n \notin Reach(Forward(graph), e)
        /\ graph[n].unlockAfter # {} \/ n \in Reach(Edges(graph), e)

NothingRequiredLeftBehind ==
    \A u \in Users : \A n \in Nodes :
        LET p == progress[u] IN
        Playing(u) /\ p.chapter \notin p.chapters /\ graph[n].chapter = p.chapter =>
            \/ graph[n].optional \/ Hidden(n)
            \/ n \in p.completed \cup p.bypassed
            \/ p.current \notin p.completed /\ n \in Reach(Forward(graph), p.current)

\* Whatever two concurrent calls choose, nobody stands on a branch not taken, and
\* nothing that has to be played is out of reach.
WayThrough == BranchesApart /\ NothingRequiredLeftBehind

\* The bonus is paid once to each user who completed the story, and
\* completionCount counts them, whatever calls overlap.
BonusPaidOnce ==
    /\ \A u \in Users :
        bonus[u] = IF Playing(u) /\ progress[u].status = "completed" THEN 1 ELSE 0
    /\ completionCount =
            Cardinality({u \in Users : Playing(u) /\ progress[u].status = "completed"})

\* Who completed every published chapter has completed the story, and who
\* completed the story only lacks chapters published behind the back of the
\* transaction or later.
FinishedExactlyWhenDone ==
    \A u \in Users : Playing(u) =>
        /\ published \subseteq progress[u].chapters => progress[u].status = "completed"
        /\ progress[u].status = "completed" =>
                published \subseteq progress[u].chapters \cup unseen[u]

\* Who has completed the story, and what that earned, agree with what was played.
StoryConsistent ==
    /\ TypeOK
    /\ BonusPaidOnce
    /\ FinishedExactlyWhenDone

\* A player who is in the middle of a story and can complete nothing has one of
\* the reasons the code leaves open: the challenge was solved and its notice
\* dropped or aborted; a prerequisite that the single current node passed by;
\* a hidden required node; a chapter that was finished before its last, optional
\* node; or chapters that come earlier, got the same order from a createChapter
\* that overlapped, or were published behind its back.
CanGoOn(u) ==
    LET p == progress[u]
        n == p.current
    IN /\ n \notin p.completed
       /\ \/ graph[n].type = "challenge" /\ n \notin solved[u]
          \/ graph[n].type # "challenge" /\ PrerequisitesMet(u, n)

ReasonToBeStuck(u) ==
    LET p == progress[u]
        n == p.current
        open == published \ p.chapters
    IN \/ n \notin p.completed /\ graph[n].type = "challenge" /\ n \in solved[u]
       \/ n \notin p.completed /\ ~ (graph[n].unlockAfter \subseteq p.completed)
       \/ /\ n \in p.completed /\ p.chapter \notin p.chapters
          /\ \E m \in NodesOf(graph, p.chapter) : Hidden(m) /\ ~ graph[m].optional
       \/ n \in p.completed /\ p.chapter \in p.chapters /\ graph[n].optional
       \/ /\ n \in p.completed /\ p.chapter \in p.chapters
          /\ \A ch \in open : Order[ch] <= Order[p.chapter] \/ ch \in unseen[u]

StuckForAReason ==
    \A u \in Users :
        Playing(u) /\ progress[u].status = "in_progress" /\ ~ CanGoOn(u) =>
            ReasonToBeStuck(u)
=============================================================================
