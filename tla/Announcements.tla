---------------------------- MODULE Announcements ----------------------------
(***************************************************************************)
(* One announcement (announcement.service.ts over anouncement.model.ts) and *)
(* the notifications it gives rise to.  Publishing, retracting and editing  *)
(* load the document, then save the fields that changed; the notifications  *)
(* are created by a call that nobody waits for, or later by the dispatch    *)
(* queue, and the document is marked once they are.  Meanwhile players join *)
(* and leave teams.                                                         *)
(***************************************************************************)
EXTENDS Notifications

CONSTANTS
    Audiences,      \* of "all", "teams", "solo", "specific"
    Lengths,        \* of FALSE, TRUE: the text is too long for a notification
    PostCalls       \* slots of concurrent calls

ASSUME AnnouncementsAssumption ==
    /\ Audiences \subseteq {"all", "teams", "solo", "specific"}
    /\ Lengths \subseteq BOOLEAN

VARIABLES
    post,       \* the announcement
    created,
    postCall,
    group,      \* what audience each user belongs to
    \* History
    moved,      \* users who changed it once the notifications were created
    crossed,    \* a save was of a document that had been changed since it was loaded
    repeated,   \* dispatches overlapped, or one was cut off before it was marked
    missed,     \* a notification could not be created
    edited      \* audience or text changed since the notifications were first sent

postVars == <<post, created, postCall, group, moved, crossed, repeated, missed, edited>>
vars == <<noticeVars, postVars>>

\* In a team, in none, or not there: not yet registered, banned or deleted.
Groups == {"teams", "solo", "away"}

\* version counts the writes of targetUsers as a whole.
Posts ==
    [published : BOOLEAN, retracted : BOOLEAN, dispatched : BOOLEAN,
     audience : Audiences, targets : SUBSET Users, long : BOOLEAN,
     dismissedBy : SUBSET Users, version : Nat]

PostCallStates ==
    [op : {"publish", "retract", "update"}, seen : Posts, new : Posts]
        \cup [op : {"dismiss"}, user : Users]
        \cup [op : {"queue"}]
        \cup [op : {"send", "mark"}, seen : Posts]

ASSUME NoneIsNoCall == None \notin PostCallStates

TypeOK ==
    /\ NotificationsTypeOK
    /\ post \in Posts \cup {None}
    /\ postCall \in [PostCalls -> PostCallStates \cup {None}]
    /\ group \in [Users -> Groups]
    /\ moved \subseteq Users
    /\ {created, crossed, repeated, missed, edited} \subseteq BOOLEAN

Init ==
    /\ NotificationsInit
    /\ post = None
    /\ created = FALSE
    /\ postCall = [c \in PostCalls |-> None]
    /\ group \in [Users -> Groups]
    /\ moved = {}
    /\ crossed = FALSE
    /\ repeated = FALSE
    /\ missed = FALSE
    /\ edited = FALSE

Live == post # None /\ post.published /\ ~ post.retracted

\* Whom an announcement is for, as long as everyone stays in their group.
IsFor(p, u) ==
    \/ p.audience \in {"all", group[u]}
    \/ p.audience = "specific" /\ u \in p.targets

\* getFeed, for an announcement that has not expired: the group counts that its
\* reader is in by then.
Shown(u) ==
    /\ Live
    /\ group[u] # "away"
    /\ u \notin post.dismissedBy
    /\ IsFor(post, u)

At(c, op) == postCall[c] # None /\ postCall[c].op = op
Go(c, k) == postCall' = [postCall EXCEPT ![c] = k]

\* A call of the service begins.
Begin(c, k) ==
    /\ postCall[c] = None
    /\ Call
    /\ Go(c, k)
    /\ UNCHANGED <<notices, readCall>>

-----------------------------------------------------------------------------
(* The document                                                             *)

\* Mutant of Fitting.
FittingAll(audience, targets) == targets

\* The validate hook empties the targets of any other audience.
Fitting(audience, targets) == IF audience = "specific" THEN targets ELSE {}

Valid(p) == p.audience = "specific" => p.targets # {}

CreateAnnouncement(audience, targets, long) ==
    /\ ~ created
    /\ Call
    /\ post' = [published |-> FALSE, retracted |-> FALSE, dispatched |-> FALSE,
                audience |-> audience, targets |-> Fitting(audience, targets),
                long |-> long, dismissedBy |-> {}, version |-> 0]
    /\ Valid(post')
    /\ created' = TRUE
    /\ UNCHANGED <<notices, readCall, postCall, crossed, repeated, missed, edited>>

\* deleteAnnouncement, or the TTL index.
RemoveAnnouncement ==
    /\ Call
    /\ post # None
    /\ post' = None
    /\ UNCHANGED <<notices, readCall, created, postCall, crossed, repeated, missed, edited>>

\* Mutant of Published.
PublishedAsSent(p) == [p EXCEPT !.published = TRUE, !.dispatched = TRUE]

Published(p) == [p EXCEPT !.published = TRUE]

\* Mutant of Retracted.
RetractedOnly(p) == [p EXCEPT !.retracted = TRUE]

Retracted(p) == [p EXCEPT !.retracted = TRUE, !.published = FALSE]

\* One that is published already is left as it is.
LoadToPublish(c) ==
    /\ post # None /\ ~ post.retracted /\ ~ post.published
    /\ Begin(c, [op |-> "publish", seen |-> post,
                 new |-> [Published(post) EXCEPT !.targets = Fitting(post.audience, @)]])
    /\ UNCHANGED <<post, created, crossed, repeated, missed, edited>>

LoadToRetract(c) ==
    /\ post # None /\ ~ post.retracted
    /\ Begin(c, [op |-> "retract", seen |-> post, new |-> Retracted(post)])
    /\ UNCHANGED <<post, created, crossed, repeated, missed, edited>>

\* What is not given stays: that is the case that it is given as it was.
LoadToUpdate(c, audience, targets, long) ==
    /\ post # None /\ ~ post.retracted
    /\ LET new == [post EXCEPT !.audience = audience, !.long = long,
                               !.targets = Fitting(audience, targets)]
       IN /\ Valid(new)
          /\ new # post
          /\ Begin(c, [op |-> "update", seen |-> post, new |-> new])
    /\ UNCHANGED <<post, created, crossed, repeated, missed, edited>>

\* Mutant of Merged: the whole document is written.
WrittenWhole(k) == [k.new EXCEPT !.version = post.version + 1]

\* Only the fields that the call changed are written.
Field(k, f) == IF k.new[f] # k.seen[f] THEN k.new[f] ELSE post[f]

Merged(k) ==
    [published |-> Field(k, "published"), retracted |-> Field(k, "retracted"),
     dispatched |-> Field(k, "dispatched"), audience |-> Field(k, "audience"),
     targets |-> Field(k, "targets"), long |-> Field(k, "long"),
     dismissedBy |-> Field(k, "dismissedBy"),
     version |-> IF k.new.targets # k.seen.targets THEN post.version + 1
                 ELSE post.version]

\* The document is gone, or its targets, which the call replaces, were replaced.
SaveFails(k) ==
    \/ post = None
    \/ k.op # "retract" /\ ~ Valid(k.new)
    \/ k.new.targets # k.seen.targets /\ post.version # k.seen.version

\* The calls that send notifications.
Sending == {c \in PostCalls : \E op \in {"queue", "send", "mark"} : At(c, op)}

\* Mutant of DueAfter.
DueAlways(k) == k.op \in {"publish", "update"} /\ k.new.published

\* Only a publication is followed by notifications, by the document it loaded.
DueAfter(k) == k.op = "publish" /\ ~ k.seen.dispatched

Content(p) == <<p.audience, p.targets, p.long>>

Save(c) ==
    /\ \E op \in {"publish", "retract", "update"} : At(c, op)
    /\ LET k == postCall[c] IN
       IF SaveFails(k)
       THEN Go(c, None) /\ UNCHANGED <<post, crossed, repeated, edited>>
       ELSE /\ post' = Merged(k)
            /\ crossed' = (crossed \/ Content(post) # Content(k.seen)
                                   \/ post.published # k.seen.published
                                   \/ post.retracted # k.seen.retracted)
            /\ edited' = (edited \/ (post.published /\ Content(post') # Content(post)))
            /\ repeated' = (repeated \/ (k.op = "publish"
                                    /\ (post.published \/ post.dispatched \/ Sending # {})))
            /\ Go(c, IF DueAfter(k) THEN [op |-> "send", seen |-> k.new] ELSE None)
    /\ UNCHANGED <<noticeVars, created, missed>>

FindToDismiss(c, u) ==
    /\ Live /\ group[u] # "away"
    /\ Begin(c, [op |-> "dismiss", user |-> u])
    /\ UNCHANGED <<post, created, crossed, repeated, missed, edited>>

Dismiss(c) ==
    /\ At(c, "dismiss")
    /\ post' = IF post = None THEN None
               ELSE [post EXCEPT !.dismissedBy = @ \cup {postCall[c].user}]
    /\ Go(c, None)
    /\ UNCHANGED <<noticeVars, created, crossed, repeated, missed, edited>>

-----------------------------------------------------------------------------
(* dispatchPublishNotification and processDispatchQueue                     *)

\* The users of a group are looked up when the notifications are created.
Recipients(p) ==
    CASE p.audience = "all" -> {Everyone}
      [] p.audience = "specific" -> p.targets
      [] OTHER -> {u \in Users : group[u] = p.audience}

\* getPendingDispatch.
ListPending(c) ==
    /\ Live /\ ~ post.dispatched
    /\ Begin(c, [op |-> "queue"])
    /\ repeated' = (repeated \/ Sending # {})
    /\ UNCHANGED <<post, created, crossed, missed, edited>>

\* What was listed is loaded again, and nothing is asked of it but to exist.
LoadPending(c) ==
    /\ At(c, "queue")
    /\ Go(c, IF post = None THEN None ELSE [op |-> "send", seen |-> post])
    /\ UNCHANGED <<noticeVars, post, created, crossed, repeated, missed, edited>>

\* Some notifications may not be created; create and createBulk hide that from
\* their caller.  A text beyond the limits of the notification never gets through.
Send(c) ==
    /\ At(c, "send")
    /\ LET p == postCall[c].seen IN
       \E got \in SUBSET Recipients(p) :
        /\ p.long => got = {}
        /\ \E order \in [1..Cardinality(got) -> got] :
            /\ \A to \in got : \E i \in DOMAIN order : order[i] = to
            /\ notices' = notices \o [i \in DOMAIN order |-> NewNotice(order[i], TRUE)]
        /\ missed' = (missed \/ got # Recipients(p))
        /\ Go(c, [op |-> "mark", seen |-> p])
    /\ UNCHANGED <<readCall, calls, post, created, crossed, repeated, edited>>

\* Mutant of Marked.
Unmarked(p) == p

Marked(p) == [p EXCEPT !.dispatched = TRUE]

MarkDispatched(c) ==
    /\ At(c, "mark")
    /\ post' = IF post = None THEN None ELSE Marked(post)
    /\ Go(c, None)
    /\ UNCHANGED <<noticeVars, created, crossed, repeated, missed, edited>>

\* The process stops, or the database refuses the next command.
Stop(c) ==
    /\ postCall[c] # None
    /\ repeated' = (repeated \/ At(c, "mark"))
    /\ Go(c, None)
    /\ UNCHANGED <<noticeVars, post, created, crossed, missed, edited>>

\* The notifications were created, and will not be for those who come later.
NotificationsOut ==
    \/ post # None /\ post.dispatched
    \/ \E c \in PostCalls : At(c, "mark")

\* A player joins or leaves a team, registers, is banned, readmitted or deleted.
ChangeGroup(u, to) ==
    /\ group[u] # to
    /\ Call
    /\ group' = [group EXCEPT ![u] = to]
    /\ moved' = IF NotificationsOut THEN moved \cup {u} ELSE moved
    /\ UNCHANGED <<notices, readCall, post, created, postCall,
                   crossed, repeated, missed, edited>>

PostNext ==
    \/ \E audience \in Audiences, targets \in SUBSET Users, long \in Lengths :
        \/ CreateAnnouncement(audience, targets, long)
        \/ \E c \in PostCalls : LoadToUpdate(c, audience, targets, long)
    \/ RemoveAnnouncement
    \/ \E c \in PostCalls :
        \/ LoadToPublish(c) \/ LoadToRetract(c) \/ Save(c)
        \/ (\E u \in Users : FindToDismiss(c, u)) \/ Dismiss(c)
        \/ ListPending(c) \/ LoadPending(c)
        \/ Send(c) \/ MarkDispatched(c) \/ Stop(c)

Next ==
    \/ PostNext /\ UNCHANGED <<group, moved>>
    \/ \E u \in Users, to \in Groups : ChangeGroup(u, to)
    \/ NotificationsNext /\ UNCHANGED postVars

Spec == Init /\ [][Next]_vars

-----------------------------------------------------------------------------
(* Properties                                                               *)

Copies(u) ==
    {n \in DOMAIN notices : notices[n].announced /\ notices[n].to \in {u, Everyone}}

\* Nobody is notified twice of one announcement, unless two publications or runs
\* of the queue overlapped, or one was cut off between creating the notifications
\* and marking the announcement.
NotifiedOnce == repeated \/ \A u \in Users : Cardinality(Copies(u)) <= 1

\* Whoever the feed shows a published announcement has been notified of it, is
\* about to be, or will be by the next run of the queue; unless audience or text
\* were edited meanwhile or afterwards, or a notification could not be created:
\* that is never repeated.  Nor is it for those who changed their group once the
\* notifications were created: them the feed shows what nobody told them.
NobodyMissed ==
    \/ missed \/ edited \/ crossed
    \/ \A u \in Users \ moved : Shown(u) =>
        Copies(u) # {} \/ Sending # {} \/ ~ post.dispatched

\* A retracted announcement is not published, so no restart of it can be in the
\* feed; unless the retraction overlapped the publication.
RetractedIsNotPublished ==
    post # None /\ post.retracted /\ post.published => crossed

\* Only an announcement for specific users has targets, and it has some; unless
\* two edits overlapped.
TargetsFitAudience ==
    post # None /\ ~ crossed => (post.audience = "specific") = (post.targets # {})

\* The announcement as the calls leave it.
PostConsistent ==
    /\ TypeOK
    /\ RetractedIsNotPublished
    /\ TargetsFitAudience

\* What a player dismissed, and what was retracted, is never in the feed again.
HiddenStaysHidden ==
    [][\A u \in Users :
        post # None /\ (post.retracted \/ u \in post.dismissedBy) => ~ Shown(u)']_vars

\* Without a new notification no inbox and no unread count grows: what was
\* deleted, dismissed, read or removed stays so, whatever an administrator's call
\* had loaded before.
InboxOnlyShrinks ==
    [][Len(notices') = Len(notices) =>
        \A u \in Users : Listed(u)' \subseteq Listed(u) /\ Unread(u)' \subseteq Unread(u)]_vars

\* What is gone from a feed or an inbox stays gone.
NothingReturns == HiddenStaysHidden /\ InboxOnlyShrinks
=============================================================================
