---------------------------- MODULE Notifications ----------------------------
(***************************************************************************)
(* The inbox: notification.service.ts over notification.model.ts.  A        *)
(* notification goes to one user, or to everyone as one broadcast document  *)
(* with a list of who dismissed it.  Announcements creates them too.        *)
(***************************************************************************)
EXTENDS Integers, FiniteSets, Sequences

CONSTANTS
    Users,
    Everyone,   \* recipient: null
    ReadCalls,  \* slots of adminMarkRead
    MaxCalls,   \* bound: calls in all
    None

ASSUME NotificationsAssumption ==
    /\ Everyone \notin Users
    /\ IsFiniteSet(Users)
    /\ MaxCalls \in Nat

VARIABLES
    notices,    \* every notification ever created, in order
    readCall,   \* the notification an adminMarkRead has loaded unread
    calls       \* how many calls were made

noticeVars == <<notices, readCall, calls>>

\* A deleted notification is hidden from its recipient; a removed one is gone from
\* the collection.  Broadcasts have no read state and are not deleted by players.
\* announced: it tells of the announcement.
Notices ==
    [to : Users, announced : BOOLEAN, read : BOOLEAN,
     state : {"kept", "deleted", "removed"}, dismissedBy : {{}}]
        \cup [to : {Everyone}, announced : BOOLEAN, read : {FALSE},
              state : {"kept", "removed"}, dismissedBy : SUBSET Users]

NotificationsTypeOK ==
    /\ notices \in Seq(Notices)
    /\ readCall \in [ReadCalls -> (1..Len(notices)) \cup {None}]
    /\ calls \in 0..MaxCalls

NewNotice(to, announced) ==
    [to |-> to, announced |-> announced, read |-> FALSE, state |-> "kept",
     dismissedBy |-> {}]

NotificationsInit ==
    /\ notices = <<>>
    /\ readCall = [c \in ReadCalls |-> None]
    /\ calls = 0

Call == calls < MaxCalls /\ calls' = calls + 1

-----------------------------------------------------------------------------
(* What a player sees                                                       *)

Personal(u) ==
    {n \in DOMAIN notices : notices[n].to = u /\ notices[n].state = "kept"}

Broadcasts(u) ==
    {n \in DOMAIN notices :
        /\ notices[n].to = Everyone
        /\ notices[n].state = "kept"
        /\ u \notin notices[n].dismissedBy}

Listed(u) == Personal(u) \cup Broadcasts(u)

\* The number on the bell: a broadcast counts until it is dismissed.
Unread(u) == {n \in Personal(u) : ~ notices[n].read} \cup Broadcasts(u)

-----------------------------------------------------------------------------
(* The player                                                               *)

MarkAsRead(u, n) ==
    /\ Call
    /\ n \in Personal(u)
    /\ notices' = [notices EXCEPT ![n].read = TRUE]
    /\ UNCHANGED readCall

\* Mutant of ToMark.
ToMarkListed(u) == {n \in DOMAIN notices : notices[n].to \in {u, Everyone}}

\* Deleted ones are marked as well.
ToMark(u) == {n \in DOMAIN notices : notices[n].to = u /\ notices[n].state # "removed"}

MarkAllAsRead(u) ==
    /\ Call
    /\ notices' = [n \in DOMAIN notices |-> [notices[n] EXCEPT !.read = @ \/ n \in ToMark(u)]]
    /\ UNCHANGED readCall

\* The document is looked up first; a broadcast that is removed in between is not
\* changed by the update either.
DismissBroadcast(u, n) ==
    /\ Call
    /\ notices[n].to = Everyone /\ notices[n].state = "kept"
    /\ notices' = [notices EXCEPT ![n].dismissedBy = @ \cup {u}]
    /\ UNCHANGED readCall

DeleteMyNotification(u, n) ==
    /\ Call
    /\ n \in Personal(u)
    /\ notices' = [notices EXCEPT ![n].state = "deleted"]
    /\ UNCHANGED readCall

ClearMyInbox(u) ==
    /\ Call
    /\ notices' = [n \in DOMAIN notices |->
            IF n \in Personal(u) THEN [notices[n] EXCEPT !.state = "deleted"] ELSE notices[n]]
    /\ UNCHANGED readCall

-----------------------------------------------------------------------------
(* The administrator                                                        *)

AdminDispatch(to) ==
    /\ Call
    /\ notices' = Append(notices, NewNotice(to, FALSE))
    /\ UNCHANGED readCall

\* adminDeleteNotification, or the TTL index.
RemoveNotification(n) ==
    /\ Call
    /\ notices[n].state # "removed"
    /\ notices' = [notices EXCEPT ![n].state = "removed"]
    /\ UNCHANGED readCall

\* adminMarkRead loads the document, deleted or not, and refuses broadcasts.
LoadUnread(c, n) ==
    /\ readCall[c] = None
    /\ Call
    /\ notices[n].to # Everyone /\ notices[n].state # "removed" /\ ~ notices[n].read
    /\ readCall' = [readCall EXCEPT ![c] = n]
    /\ UNCHANGED notices

\* Mutant of SavedRead: the loaded document is written as a whole.
SavedWhole(n) ==
    IF notices[n].state = "removed" THEN notices
    ELSE [notices EXCEPT ![n] = [@ EXCEPT !.read = TRUE, !.state = "kept"]]

\* The save sends isRead and readAt, and fails if the document is gone.
SavedRead(n) ==
    IF notices[n].state = "removed" THEN notices
    ELSE [notices EXCEPT ![n].read = TRUE]

SaveRead(c) ==
    /\ readCall[c] # None
    /\ notices' = SavedRead(readCall[c])
    /\ readCall' = [readCall EXCEPT ![c] = None]
    /\ UNCHANGED calls

NotificationsNext ==
    \/ \E u \in Users :
        \/ \E n \in DOMAIN notices :
            MarkAsRead(u, n) \/ DismissBroadcast(u, n) \/ DeleteMyNotification(u, n)
        \/ MarkAllAsRead(u)
        \/ ClearMyInbox(u)
    \/ \E to \in Users \cup {Everyone} : AdminDispatch(to)
    \/ \E n \in DOMAIN notices : RemoveNotification(n) \/ (\E c \in ReadCalls : LoadUnread(c, n))
    \/ \E c \in ReadCalls : SaveRead(c)
=============================================================================
