------------------------ MODULE AnnouncementsProofs -------------------------
(***************************************************************************)
(* What Announcements and Notifications keep true, for any number of users *)
(* and calls: who is notified, how often, and what stays hidden.           *)
(***************************************************************************)
EXTENDS Announcements, FiniteSetTheorems, SequenceTheorems, TLAPS

-----------------------------------------------------------------------------
(* The notifications                                                        *)

\* What a step may make of a notification: nothing comes back.
Onward(before, after) ==
    /\ after.to = before.to
    /\ after.announced = before.announced
    /\ after.state = "kept" => before.state = "kept"
    /\ before.dismissedBy \subseteq after.dismissedBy
    /\ before.read => after.read

Told(n) == n \in DOMAIN notices /\ notices[n].announced

\* Notifications are only added, and those that are tell of no announcement.
OnlyOthers ==
    /\ Len(notices') >= Len(notices)
    /\ \A n \in DOMAIN notices' :
        IF n \in DOMAIN notices THEN Onward(notices[n], notices'[n])
                                ELSE ~ notices'[n].announced

LEMMA NoticesTyped ==
    ASSUME NotificationsTypeOK
    PROVE  /\ Len(notices) \in Nat
           /\ DOMAIN notices = 1..Len(notices)
           /\ notices \in [1..Len(notices) -> Notices]
    BY LenProperties DEF NotificationsTypeOK

\* One notification is changed.
LEMMA NoticeChanges ==
    ASSUME NotificationsTypeOK, NEW n \in DOMAIN notices, NEW e \in Notices,
           notices' = [notices EXCEPT ![n] = e], Onward(notices[n], e)
    PROVE  notices' \in Seq(Notices) /\ Len(notices') = Len(notices) /\ OnlyOthers
    <1>1. /\ notices' \in Seq(Notices) /\ Len(notices') = Len(notices)
          /\ \A j \in 1..Len(notices) : notices'[j] = IF j = n THEN e ELSE notices[j]
        BY NoticesTyped, ExceptSeq DEF NotificationsTypeOK
    <1>2. DOMAIN notices' = DOMAIN notices
        BY <1>1, NoticesTyped
    <1> QED BY <1>1, <1>2, NoticesTyped DEF OnlyOthers, Onward

\* All of them may change.
LEMMA NoticesChange ==
    ASSUME NotificationsTypeOK, NEW F \in [DOMAIN notices -> Notices],
           notices' = F, \A n \in DOMAIN notices : Onward(notices[n], F[n])
    PROVE  notices' \in Seq(Notices) /\ Len(notices') = Len(notices) /\ OnlyOthers
    <1>1. DOMAIN notices = 1..Len(notices) /\ Len(notices) \in Nat
        BY NoticesTyped
    <1>2. F \in Seq(Notices) /\ Len(F) = Len(notices)
        BY <1>1
    <1> QED BY <1>1, <1>2 DEF OnlyOthers

\* An adminMarkRead has loaded a personal notification.
ReadsPersonal ==
    \A c \in ReadCalls : readCall[c] # None => notices[readCall[c]].to # Everyone

LEMMA ReadsPersonalKept ==
    ASSUME NotificationsTypeOK, ReadsPersonal, OnlyOthers, notices' \in Seq(Notices),
           readCall' = readCall
    PROVE  ReadsPersonal'
    <1>1. /\ Len(notices) \in Nat /\ DOMAIN notices = 1..Len(notices)
          /\ Len(notices') \in Nat /\ DOMAIN notices' = 1..Len(notices')
        BY LenProperties DEF NotificationsTypeOK
    <1>2. \A n \in DOMAIN notices : notices'[n].to = notices[n].to
        BY <1>1 DEF OnlyOthers, Onward
    <1>3. \A c \in ReadCalls : readCall[c] # None => readCall[c] \in DOMAIN notices
        BY <1>1 DEF NotificationsTypeOK
    <1> QED BY <1>2, <1>3 DEF ReadsPersonal

LEMMA NotificationsStep ==
    ASSUME NotificationsTypeOK, ReadsPersonal, NotificationsNext
    PROVE  NotificationsTypeOK' /\ OnlyOthers
    <1> USE NotificationsAssumption
    <1>0. /\ Len(notices) \in Nat /\ DOMAIN notices = 1..Len(notices)
          /\ notices \in [1..Len(notices) -> Notices]
        BY NoticesTyped
    <1>1. ASSUME NEW u \in Users, NEW n \in DOMAIN notices, MarkAsRead(u, n)
          PROVE  NotificationsTypeOK' /\ OnlyOthers
        <2> DEFINE e == [notices[n] EXCEPT !.read = TRUE]
        <2>1. notices' = [notices EXCEPT ![n] = e]
            BY <1>0, <1>1 DEF MarkAsRead
        <2>2. e \in Notices /\ Onward(notices[n], e)
            BY <1>0, <1>1 DEF MarkAsRead, Personal, Notices, Onward
        <2> HIDE DEF e
        <2>3. notices' \in Seq(Notices) /\ Len(notices') = Len(notices) /\ OnlyOthers
            BY <2>1, <2>2, NoticeChanges
        <2> QED BY <1>1, <2>3 DEF MarkAsRead, Call, NotificationsTypeOK
    <1>2. ASSUME NEW u \in Users, NEW n \in DOMAIN notices, DismissBroadcast(u, n)
          PROVE  NotificationsTypeOK' /\ OnlyOthers
        <2> DEFINE e == [notices[n] EXCEPT !.dismissedBy = @ \cup {u}]
        <2>1. notices' = [notices EXCEPT ![n] = e]
            BY <1>0, <1>2 DEF DismissBroadcast
        <2>2. e \in Notices /\ Onward(notices[n], e)
            BY <1>0, <1>2 DEF DismissBroadcast, Notices, Onward
        <2> HIDE DEF e
        <2>3. notices' \in Seq(Notices) /\ Len(notices') = Len(notices) /\ OnlyOthers
            BY <2>1, <2>2, NoticeChanges
        <2> QED BY <1>2, <2>3 DEF DismissBroadcast, Call, NotificationsTypeOK
    <1>3. ASSUME NEW u \in Users, NEW n \in DOMAIN notices, DeleteMyNotification(u, n)
          PROVE  NotificationsTypeOK' /\ OnlyOthers
        <2> DEFINE e == [notices[n] EXCEPT !.state = "deleted"]
        <2>1. notices' = [notices EXCEPT ![n] = e]
            BY <1>0, <1>3 DEF DeleteMyNotification
        <2>2. e \in Notices /\ Onward(notices[n], e)
            BY <1>0, <1>3 DEF DeleteMyNotification, Personal, Notices, Onward
        <2> HIDE DEF e
        <2>3. notices' \in Seq(Notices) /\ Len(notices') = Len(notices) /\ OnlyOthers
            BY <2>1, <2>2, NoticeChanges
        <2> QED BY <1>3, <2>3 DEF DeleteMyNotification, Call, NotificationsTypeOK
    <1>4. ASSUME NEW u \in Users, MarkAllAsRead(u)
          PROVE  NotificationsTypeOK' /\ OnlyOthers
        <2> DEFINE F == [n \in DOMAIN notices |->
                            [notices[n] EXCEPT !.read = @ \/ n \in ToMark(u)]]
        <2>1. notices' = F
            BY <1>4 DEF MarkAllAsRead
        <2>2. ASSUME NEW n \in DOMAIN notices
              PROVE  F[n] \in Notices /\ Onward(notices[n], F[n])
            <3>1. CASE n \in ToMark(u)
                BY <1>0, <3>1 DEF ToMark, Notices, Onward
            <3>2. CASE n \notin ToMark(u)
                BY <1>0, <3>2 DEF Notices, Onward
            <3> QED BY <3>1, <3>2
        <2>3. F \in [DOMAIN notices -> Notices]
            BY <2>2
        <2>4. notices' \in Seq(Notices) /\ Len(notices') = Len(notices) /\ OnlyOthers
            <3> HIDE DEF F
            <3> QED BY <2>1, <2>2, <2>3, NoticesChange
        <2> QED BY <1>4, <2>4 DEF MarkAllAsRead, Call, NotificationsTypeOK
    <1>5. ASSUME NEW u \in Users, ClearMyInbox(u)
          PROVE  NotificationsTypeOK' /\ OnlyOthers
        <2> DEFINE F == [n \in DOMAIN notices |->
                            IF n \in Personal(u) THEN [notices[n] EXCEPT !.state = "deleted"]
                            ELSE notices[n]]
        <2>1. notices' = F
            BY <1>5 DEF ClearMyInbox
        <2>2. ASSUME NEW n \in DOMAIN notices
              PROVE  F[n] \in Notices /\ Onward(notices[n], F[n])
            BY <1>0 DEF Personal, Notices, Onward
        <2>3. F \in [DOMAIN notices -> Notices]
            BY <2>2
        <2>4. notices' \in Seq(Notices) /\ Len(notices') = Len(notices) /\ OnlyOthers
            <3> HIDE DEF F
            <3> QED BY <2>1, <2>2, <2>3, NoticesChange
        <2> QED BY <1>5, <2>4 DEF ClearMyInbox, Call, NotificationsTypeOK
    <1>6. ASSUME NEW to \in Users \cup {Everyone}, AdminDispatch(to)
          PROVE  NotificationsTypeOK' /\ OnlyOthers
        <2> DEFINE e == NewNotice(to, FALSE)
        <2>1. e \in Notices /\ ~ e.announced
            BY DEF NewNotice, Notices
        <2> HIDE DEF e
        <2>0. notices' = Append(notices, e) /\ notices \in Seq(Notices)
            BY <1>6 DEF AdminDispatch, NotificationsTypeOK, e
        <2>2. /\ notices' \in Seq(Notices) /\ Len(notices') = Len(notices) + 1
              /\ \A i \in 1..Len(notices) : notices'[i] = notices[i]
              /\ notices'[Len(notices) + 1] = e
            BY <2>0, <2>1, AppendProperties
        <2>3. DOMAIN notices' = 1..(Len(notices) + 1)
            BY <2>2, LenProperties
        <2>4. OnlyOthers
            BY <1>0, <2>1, <2>2, <2>3 DEF OnlyOthers, Onward
        <2>5. readCall' \in [ReadCalls -> (1..Len(notices')) \cup {None}]
            BY <1>0, <1>6, <2>2 DEF AdminDispatch, NotificationsTypeOK
        <2>6. calls' \in 0..MaxCalls
            BY <1>6 DEF AdminDispatch, Call, NotificationsTypeOK
        <2> QED BY <2>2, <2>4, <2>5, <2>6 DEF NotificationsTypeOK
    <1>7. ASSUME NEW n \in DOMAIN notices, RemoveNotification(n)
          PROVE  NotificationsTypeOK' /\ OnlyOthers
        <2> DEFINE e == [notices[n] EXCEPT !.state = "removed"]
        <2>1. notices' = [notices EXCEPT ![n] = e]
            BY <1>0, <1>7 DEF RemoveNotification
        <2>2. e \in Notices /\ Onward(notices[n], e)
            BY <1>0, <1>7 DEF Notices, Onward
        <2> HIDE DEF e
        <2>3. notices' \in Seq(Notices) /\ Len(notices') = Len(notices) /\ OnlyOthers
            BY <2>1, <2>2, NoticeChanges
        <2> QED BY <1>7, <2>3 DEF RemoveNotification, Call, NotificationsTypeOK
    <1>8. ASSUME NEW n \in DOMAIN notices, NEW c \in ReadCalls, LoadUnread(c, n)
          PROVE  NotificationsTypeOK' /\ OnlyOthers
        BY <1>0, <1>8 DEF LoadUnread, Call, NotificationsTypeOK, OnlyOthers, Onward
    <1>9. ASSUME NEW c \in ReadCalls, SaveRead(c)
          PROVE  NotificationsTypeOK' /\ OnlyOthers
        <2> DEFINE n == readCall[c]
                   e == [notices[n] EXCEPT !.read = TRUE]
        <2>1. n \in DOMAIN notices
            BY <1>0, <1>9 DEF SaveRead, NotificationsTypeOK
        <2>2. CASE notices[n].state = "removed"
            <3>1. notices' = notices
                BY <1>9, <2>2 DEF SaveRead, SavedRead
            <3> QED BY <1>0, <1>9, <3>1
                DEF SaveRead, NotificationsTypeOK, OnlyOthers, Onward
        <2>3. CASE notices[n].state # "removed"
            <3>1. notices' = [notices EXCEPT ![n] = e]
                BY <1>0, <1>9, <2>3 DEF SaveRead, SavedRead
            <3>2. e \in Notices /\ Onward(notices[n], e)
                <4>1. notices[n].to \in Users
                    BY <1>0, <1>9, <2>1 DEF ReadsPersonal, SaveRead, Notices
                <4>2. notices[n] \in [to : Users, announced : BOOLEAN, read : BOOLEAN,
                                      state : {"kept", "deleted", "removed"}, dismissedBy : {{}}]
                    BY <1>0, <2>1, <4>1 DEF Notices
                <4> QED BY <4>2 DEF Notices, Onward
            <3> HIDE DEF e, n
            <3>3. notices' \in Seq(Notices) /\ Len(notices') = Len(notices) /\ OnlyOthers
                BY <2>1, <3>1, <3>2, NoticeChanges
            <3>4. readCall' \in [ReadCalls -> (1..Len(notices')) \cup {None}]
                BY <1>9, <3>3 DEF SaveRead, NotificationsTypeOK
            <3> QED BY <1>9, <3>3, <3>4 DEF SaveRead, NotificationsTypeOK
        <2> QED BY <2>2, <2>3
    <1> QED BY <1>1, <1>2, <1>3, <1>4, <1>5, <1>6, <1>7, <1>8, <1>9 DEF NotificationsNext

LEMMA ReadsPersonalStep ==
    ASSUME NotificationsTypeOK, ReadsPersonal, NotificationsNext
    PROVE  ReadsPersonal'
    <1>0. NotificationsTypeOK' /\ OnlyOthers
        BY NotificationsStep
    <1>1. CASE readCall' = readCall
        BY <1>0, <1>1, ReadsPersonalKept DEF NotificationsTypeOK
    <1>2. ASSUME NEW n \in DOMAIN notices, NEW c \in ReadCalls, LoadUnread(c, n)
          PROVE  ReadsPersonal'
        BY <1>2 DEF LoadUnread, ReadsPersonal, NotificationsTypeOK
    <1>3. ASSUME NEW c \in ReadCalls, SaveRead(c)
          PROVE  ReadsPersonal'
        <2>1. /\ Len(notices) \in Nat /\ DOMAIN notices = 1..Len(notices)
            BY NoticesTyped
        <2>2. \A n \in DOMAIN notices : notices'[n].to = notices[n].to
            BY <1>0, <2>1, LenProperties DEF OnlyOthers, Onward, NotificationsTypeOK
        <2>3. \A d \in ReadCalls : readCall[d] # None => readCall[d] \in DOMAIN notices
            BY <2>1 DEF NotificationsTypeOK
        <2> QED BY <1>3, <2>2, <2>3 DEF SaveRead, ReadsPersonal, NotificationsTypeOK
    <1> QED BY <1>1, <1>2, <1>3
        DEF NotificationsNext, MarkAsRead, DismissBroadcast, DeleteMyNotification,
            MarkAllAsRead, ClearMyInbox, AdminDispatch, RemoveNotification

-----------------------------------------------------------------------------
(* The invariant                                                            *)

\* What a call knows of the announcement from the copy it loaded.
Knows(k) ==
    /\ k.op \in {"publish", "retract", "update"} =>
        /\ ~ k.seen.retracted
        /\ k.new.dismissedBy = k.seen.dismissedBy
        /\ k.new.dispatched = k.seen.dispatched
        /\ k.new.retracted = (k.op = "retract")
    /\ k.op = "publish" => ~ k.seen.published /\ k.new.published
    /\ k.op = "update" => k.new.published = k.seen.published
    /\ k.op = "retract" => ~ k.new.published /\ Content(k.new) = Content(k.seen)
    /\ k.op \in {"publish", "update"} => k.new.audience = "specific" \/ k.new.targets = {}

CallsKnow == \A c \in PostCalls : postCall[c] # None => created /\ Knows(postCall[c])

AnyTold == \E n \in DOMAIN notices : notices[n].announced

PostInv ==
    /\ RetractedIsNotPublished
    /\ TargetsFitAudience
    /\ post # None \/ AnyTold => created
    /\ post # None /\ post.dispatched => post.published \/ post.retracted

\* Without an overlap one call sends at a time, before anyone was told.
OnceInv ==
    ~ repeated =>
        /\ \A c, d \in Sending : c = d
        /\ \A c \in PostCalls : At(c, "queue") \/ At(c, "send") => ~ AnyTold
        /\ AnyTold => Sending # {} \/ post = None \/ post.dispatched
        /\ \A m, n \in DOMAIN notices :
            notices[m].announced /\ notices[n].announced /\ m # n =>
                notices[m].to # notices[n].to /\ notices[m].to \in Users

\* Everyone it is for, but for those who came later, has a notification of it.
Reached(p) ==
    \A u \in Users \ moved : group[u] # "away" /\ IsFor(p, u) =>
        \E n \in DOMAIN notices : notices[n].announced /\ notices[n].to \in {u, Everyone}

\* What is sent is what the announcement says, and reaches whom it is for.
ReachInv ==
    /\ Sending # {} => post = None \/ post.published \/ post.retracted
    /\ ~ missed => \A c \in PostCalls : At(c, "mark") => Reached(postCall[c].seen)
    /\ ~ edited /\ ~ crossed =>
        \A c \in PostCalls : At(c, "send") \/ At(c, "mark") =>
            post = None \/ post.retracted \/ Content(postCall[c].seen) = Content(post)
    /\ ~ missed /\ ~ edited /\ ~ crossed =>
        (post # None /\ post.dispatched /\ ~ post.retracted => Reached(post))

AnnouncementsInv ==
    /\ TypeOK
    /\ ReadsPersonal
    /\ CallsKnow
    /\ PostInv
    /\ OnceInv
    /\ ReachInv

\* What kind of call stands at a step.
LEMMA CallTypes ==
    ASSUME TypeOK, NEW c \in PostCalls
    PROVE  /\ At(c, "publish") \/ At(c, "retract") \/ At(c, "update") =>
                postCall[c] \in [op : {"publish", "retract", "update"}, seen : Posts, new : Posts]
           /\ At(c, "dismiss") => postCall[c].user \in Users
           /\ At(c, "send") \/ At(c, "mark") =>
                postCall[c] \in [op : {"send", "mark"}, seen : Posts]
    BY DEF TypeOK, At, PostCallStates

\* Whom it is for depends on the content alone.
LEMMA ReachedFollowsContent ==
    ASSUME NEW p, NEW q, Content(p) = Content(q)
    PROVE  Reached(p) <=> Reached(q)
    <1>1. p.audience = q.audience /\ p.targets = q.targets
        BY DEF Content
    <1> QED BY <1>1 DEF Reached, IsFor

\* Everyone it is for is among its recipients, or Everyone is.
LEMMA RecipientsCover ==
    ASSUME NEW p \in Posts, NEW u \in Users, group[u] \in Groups, IsFor(p, u)
    PROVE  \E to \in Recipients(p) : to \in {u, Everyone}
    <1>1. p.audience \in {"all", "teams", "solo", "specific"}
        BY AnnouncementsAssumption DEF Posts
    <1>2. CASE p.audience \in {"all", "specific"}
        BY <1>2 DEF Recipients, IsFor, Groups
    <1>3. CASE p.audience \in {"teams", "solo"}
        BY <1>3 DEF Recipients, IsFor
    <1> QED BY <1>1, <1>2, <1>3

\* A step that leaves announcement and calls alone, and tells nobody of it.
LEMMA OthersKeep ==
    ASSUME AnnouncementsInv, NotificationsTypeOK', ReadsPersonal', OnlyOthers,
           UNCHANGED postVars
    PROVE  AnnouncementsInv'
    <1> USE DEF AnnouncementsInv, postVars
    <1>1. TypeOK'
        BY DEF TypeOK
    <1>2. /\ Len(notices) \in Nat /\ DOMAIN notices = 1..Len(notices)
          /\ Len(notices') \in Nat /\ DOMAIN notices' = 1..Len(notices')
        BY LenProperties DEF TypeOK, NotificationsTypeOK
    <1>3. \A n \in DOMAIN notices : /\ n \in DOMAIN notices'
                                    /\ notices'[n].to = notices[n].to
                                    /\ notices'[n].announced = notices[n].announced
        BY <1>2 DEF OnlyOthers, Onward
    <1>4. \A n \in DOMAIN notices' : notices'[n].announced =>
            /\ n \in DOMAIN notices /\ notices[n].announced
            /\ notices'[n].to = notices[n].to
        BY <1>3 DEF OnlyOthers
    <1>5. AnyTold' <=> AnyTold
        BY <1>3, <1>4 DEF AnyTold
    <1>6. CallsKnow'
        BY DEF CallsKnow
    <1>7. PostInv'
        BY <1>5 DEF PostInv, RetractedIsNotPublished, TargetsFitAudience
    <1>8. OnceInv'
        <2>1. Sending' = Sending /\ \A c \in PostCalls : \A op : At(c, op)' <=> At(c, op)
            BY DEF Sending, At
        <2> QED BY <1>4, <1>5, <2>1 DEF OnceInv
    <1>9. ReachInv'
        <2>1. \A p : Reached(p) => Reached(p)'
            BY <1>3 DEF Reached, IsFor
        <2>2. Sending' = Sending /\ \A c \in PostCalls : \A op : At(c, op)' <=> At(c, op)
            BY DEF Sending, At
        <2> QED BY <2>1, <2>2 DEF ReachInv
    <1> QED BY <1>1, <1>6, <1>7, <1>8, <1>9

\* The same, when no notification changes either.
LEMMA NoticesFramed ==
    ASSUME NotificationsTypeOK, ReadsPersonal, UNCHANGED <<notices, readCall>>,
           \/ calls' = calls
           \/ calls < MaxCalls /\ calls' = calls + 1
    PROVE  /\ NotificationsTypeOK'
           /\ ReadsPersonal'
           /\ AnyTold' <=> AnyTold
           /\ group' = group /\ moved' = moved => \A p : Reached(p)' <=> Reached(p)
    <1>1. NotificationsTypeOK'
        BY NotificationsAssumption DEF NotificationsTypeOK
    <1> QED BY <1>1 DEF ReadsPersonal, AnyTold, Reached, IsFor

-----------------------------------------------------------------------------
(* Calls that come and go                                                   *)

\* A call that sends nothing yet, or a run of the queue, begins.
LEMMA BeginKeeps ==
    ASSUME AnnouncementsInv, NEW c \in PostCalls, NEW k \in PostCallStates,
           Begin(c, k), Knows(k), post # None,
           k.op \notin {"send", "mark"},
           k.op # "queue" => repeated' = repeated,
           k.op = "queue" => /\ Live /\ ~ post.dispatched
                             /\ repeated' = (repeated \/ Sending # {}),
           UNCHANGED <<post, created, crossed, missed, edited>>,
           group' = group, moved' = moved
    PROVE  AnnouncementsInv'
    <1> USE DEF AnnouncementsInv
    <1>1. /\ postCall' = [postCall EXCEPT ![c] = k] /\ postCall[c] = None
          /\ UNCHANGED <<notices, readCall>> /\ calls < MaxCalls /\ calls' = calls + 1
        BY DEF Begin, Call, Go
    <1>2. /\ NotificationsTypeOK' /\ ReadsPersonal' /\ (AnyTold' <=> AnyTold)
          /\ \A p : Reached(p)' <=> Reached(p)
        BY <1>1, NoticesFramed DEF TypeOK
    <1>3. /\ postCall'[c] = k
          /\ \A d \in PostCalls : d # c => postCall'[d] = postCall[d]
          /\ postCall' \in [PostCalls -> PostCallStates \cup {None}]
        BY <1>1 DEF TypeOK
    <1>4. TypeOK'
        BY <1>2, <1>3 DEF TypeOK
    <1>5. CallsKnow'
        BY <1>3 DEF CallsKnow, PostInv
    <1>6. PostInv'
        BY <1>2 DEF PostInv, RetractedIsNotPublished, TargetsFitAudience
    <1>7. /\ \A d \in PostCalls : At(d, "send") \/ At(d, "mark")
                <=> (At(d, "send") \/ At(d, "mark"))'
          /\ \A d \in PostCalls : d # c => \A op : At(d, op)' <=> At(d, op)
          /\ \A d \in PostCalls : At(d, "mark")' => At(d, "mark")
        BY <1>1, <1>3 DEF At
    <1>8. Sending' = IF k.op = "queue" THEN Sending \cup {c} ELSE Sending
        BY <1>1, <1>3, NoneIsNoCall DEF Sending, At
    <1>9. OnceInv'
        <2> SUFFICES ASSUME ~ repeated' PROVE OnceInv'
            BY DEF OnceInv
        <2>1. CASE k.op # "queue"
            <3>1. \A d \in PostCalls : (At(d, "queue") \/ At(d, "send"))'
                                            => At(d, "queue") \/ At(d, "send")
                BY <1>3, <2>1 DEF At
            <3> QED BY <1>1, <1>2, <1>8, <2>1, <3>1 DEF OnceInv
        <2>2. CASE k.op = "queue"
            <3>1. ~ repeated /\ Sending = {} /\ ~ AnyTold
                BY <2>2 DEF OnceInv
            <3> QED BY <1>1, <1>2, <1>8, <2>2, <3>1 DEF OnceInv
        <2> QED BY <2>1, <2>2
    <1>10. ReachInv'
        <2>1. Sending' # {} => post = None \/ post.published \/ post.retracted
            BY <1>8 DEF ReachInv, Live
        <2>2. \A d \in PostCalls : (At(d, "send") \/ At(d, "mark"))' =>
                (At(d, "send") \/ At(d, "mark")) /\ postCall'[d] = postCall[d]
            BY <1>3 DEF At
        <2> QED BY <1>2, <1>7, <2>1, <2>2 DEF ReachInv
    <1> QED BY <1>2, <1>4, <1>5, <1>6, <1>9, <1>10

\* A call ends without a change; if it was to mark the announcement, that is noted.
LEMMA EndKeeps ==
    ASSUME AnnouncementsInv, NEW c \in PostCalls, Go(c, None),
           repeated' = (repeated \/ At(c, "mark")),
           UNCHANGED <<noticeVars, post, created, crossed, missed, edited>>,
           group' = group, moved' = moved
    PROVE  AnnouncementsInv'
    <1> USE DEF AnnouncementsInv
    <1>1. UNCHANGED <<notices, readCall, calls>>
        BY DEF noticeVars
    <1>2. /\ NotificationsTypeOK' /\ ReadsPersonal' /\ (AnyTold' <=> AnyTold)
          /\ \A p : Reached(p)' <=> Reached(p)
        BY <1>1, NoticesFramed DEF TypeOK
    <1>3. /\ postCall'[c] = None
          /\ \A d \in PostCalls : d # c => postCall'[d] = postCall[d]
          /\ postCall' \in [PostCalls -> PostCallStates \cup {None}]
        BY DEF TypeOK, Go
    <1>4. TypeOK'
        BY <1>2, <1>3 DEF TypeOK, At
    <1>5. CallsKnow'
        BY <1>3 DEF CallsKnow
    <1>6. PostInv'
        BY <1>2 DEF PostInv, RetractedIsNotPublished, TargetsFitAudience
    <1>7. \A d \in PostCalls : \A op : At(d, op)' <=> d # c /\ At(d, op)
        BY <1>3 DEF At
    <1>8. Sending' = Sending \ {c}
        BY <1>7 DEF Sending
    <1>9. OnceInv'
        <2> SUFFICES ASSUME ~ repeated' PROVE OnceInv'
            BY DEF OnceInv
        <2>1. ~ repeated /\ ~ At(c, "mark")
            OBVIOUS
        <2>2. c \in Sending => ~ AnyTold
            BY <2>1 DEF OnceInv, Sending
        <2> QED BY <1>1, <1>2, <1>7, <1>8, <2>1, <2>2 DEF OnceInv
    <1>10. ReachInv'
        BY <1>2, <1>3, <1>7, <1>8 DEF ReachInv
    <1> QED BY <1>2, <1>4, <1>5, <1>6, <1>9, <1>10

LEMMA LoadToPublishKeeps ==
    ASSUME AnnouncementsInv, NEW c \in PostCalls, LoadToPublish(c),
           group' = group, moved' = moved
    PROVE  AnnouncementsInv'
    <1> DEFINE new == [Published(post) EXCEPT !.targets = Fitting(post.audience, @)]
               k == [op |-> "publish", seen |-> post, new |-> new]
    <1>1. /\ post # None /\ ~ post.retracted /\ ~ post.published /\ Begin(c, k)
          /\ UNCHANGED <<post, created, crossed, repeated, missed, edited>>
        BY DEF LoadToPublish
    <1>2. post \in Posts
        BY <1>1 DEF AnnouncementsInv, TypeOK
    <1>3. new \in Posts
        BY <1>2 DEF Posts, Published, Fitting
    <1>4. k \in PostCallStates
        BY <1>2, <1>3 DEF PostCallStates
    <1>5. Knows(k)
        BY <1>1, <1>2 DEF Knows, Posts, Published, Fitting
    <1>6. k.op = "publish"
        OBVIOUS
    <1> HIDE DEF k
    <1> QED BY <1>1, <1>4, <1>5, <1>6, BeginKeeps

LEMMA LoadToRetractKeeps ==
    ASSUME AnnouncementsInv, NEW c \in PostCalls, LoadToRetract(c),
           group' = group, moved' = moved
    PROVE  AnnouncementsInv'
    <1> DEFINE new == Retracted(post)
               k == [op |-> "retract", seen |-> post, new |-> new]
    <1>1. /\ post # None /\ ~ post.retracted /\ Begin(c, k)
          /\ UNCHANGED <<post, created, crossed, repeated, missed, edited>>
        BY DEF LoadToRetract
    <1>2. post \in Posts
        BY <1>1 DEF AnnouncementsInv, TypeOK
    <1>3. new \in Posts
        BY <1>2 DEF Posts, Retracted
    <1>4. k \in PostCallStates
        BY <1>2, <1>3 DEF PostCallStates
    <1>5. Knows(k)
        BY <1>1, <1>2 DEF Knows, Posts, Retracted, Content
    <1>6. k.op = "retract"
        OBVIOUS
    <1> HIDE DEF k
    <1> QED BY <1>1, <1>4, <1>5, <1>6, BeginKeeps

LEMMA LoadToUpdateKeeps ==
    ASSUME AnnouncementsInv, NEW c \in PostCalls, NEW audience \in Audiences,
           NEW targets \in SUBSET Users, NEW long \in Lengths,
           LoadToUpdate(c, audience, targets, long),
           group' = group, moved' = moved
    PROVE  AnnouncementsInv'
    <1> DEFINE new == [post EXCEPT !.audience = audience, !.long = long,
                                   !.targets = Fitting(audience, targets)]
               k == [op |-> "update", seen |-> post, new |-> new]
    <1>1. /\ post # None /\ ~ post.retracted /\ Begin(c, k)
          /\ UNCHANGED <<post, created, crossed, repeated, missed, edited>>
        BY DEF LoadToUpdate
    <1>2. post \in Posts
        BY <1>1 DEF AnnouncementsInv, TypeOK
    <1>3. new \in Posts
        BY <1>2, AnnouncementsAssumption DEF Posts, Fitting
    <1>4. k \in PostCallStates
        BY <1>2, <1>3 DEF PostCallStates
    <1>5. Knows(k)
        BY <1>1, <1>2 DEF Knows, Posts, Fitting
    <1>6. k.op = "update"
        OBVIOUS
    <1> HIDE DEF k
    <1> QED BY <1>1, <1>4, <1>5, <1>6, BeginKeeps

LEMMA FindToDismissKeeps ==
    ASSUME AnnouncementsInv, NEW c \in PostCalls, NEW u \in Users, FindToDismiss(c, u),
           group' = group, moved' = moved
    PROVE  AnnouncementsInv'
    <1> DEFINE k == [op |-> "dismiss", user |-> u]
    <1>1. /\ post # None /\ Begin(c, k)
          /\ UNCHANGED <<post, created, crossed, repeated, missed, edited>>
        BY DEF FindToDismiss, Live
    <1>2. k \in PostCallStates /\ Knows(k) /\ k.op = "dismiss"
        BY DEF PostCallStates, Knows
    <1> HIDE DEF k
    <1> QED BY <1>1, <1>2, BeginKeeps

LEMMA ListPendingKeeps ==
    ASSUME AnnouncementsInv, NEW c \in PostCalls, ListPending(c),
           group' = group, moved' = moved
    PROVE  AnnouncementsInv'
    <1> DEFINE k == [op |-> "queue"]
    <1>1. /\ Live /\ post # None /\ ~ post.dispatched /\ Begin(c, k)
          /\ repeated' = (repeated \/ Sending # {})
          /\ UNCHANGED <<post, created, crossed, missed, edited>>
        BY DEF ListPending, Live
    <1>2. k \in PostCallStates /\ Knows(k) /\ k.op = "queue"
        BY DEF PostCallStates, Knows
    <1> HIDE DEF k
    <1> QED BY <1>1, <1>2, BeginKeeps

LEMMA StopKeeps ==
    ASSUME AnnouncementsInv, NEW c \in PostCalls, Stop(c),
           group' = group, moved' = moved
    PROVE  AnnouncementsInv'
    BY EndKeeps DEF Stop

LEMMA LoadPendingKeeps ==
    ASSUME AnnouncementsInv, NEW c \in PostCalls, LoadPending(c),
           group' = group, moved' = moved
    PROVE  AnnouncementsInv'
    <1> USE DEF AnnouncementsInv
    <1>1. /\ At(c, "queue") /\ ~ At(c, "mark")
          /\ UNCHANGED <<noticeVars, post, created, crossed, repeated, missed, edited>>
        BY DEF LoadPending, At
    <1>2. CASE post = None
        <2>1. Go(c, None) /\ repeated' = (repeated \/ At(c, "mark"))
            BY <1>1, <1>2 DEF LoadPending, TypeOK
        <2> QED BY <1>1, <2>1, EndKeeps
    <1>3. CASE post # None
        <2> DEFINE k == [op |-> "send", seen |-> post]
        <2>1. Go(c, k) /\ k.op = "send" /\ k.seen = post /\ post \in Posts
            BY <1>1, <1>3 DEF LoadPending, TypeOK
        <2>2. k \in PostCallStates /\ Knows(k)
            BY <2>1 DEF PostCallStates, Knows
        <2>3. k # None
            BY <2>2, NoneIsNoCall
        <2> HIDE DEF k
        <2>4. UNCHANGED <<notices, readCall, calls>>
            BY <1>1 DEF noticeVars
        <2>5. /\ NotificationsTypeOK' /\ ReadsPersonal' /\ (AnyTold' <=> AnyTold)
              /\ \A p : Reached(p)' <=> Reached(p)
            BY <2>4, NoticesFramed DEF TypeOK
        <2>6. /\ postCall'[c] = k
              /\ \A d \in PostCalls : d # c => postCall'[d] = postCall[d]
              /\ postCall' \in [PostCalls -> PostCallStates \cup {None}]
            BY <2>1, <2>2 DEF TypeOK, Go
        <2>7. TypeOK'
            BY <1>1, <2>5, <2>6 DEF TypeOK
        <2>8. CallsKnow'
            BY <1>1, <2>2, <2>6 DEF CallsKnow, At
        <2>9. PostInv'
            BY <1>1, <2>5 DEF PostInv, RetractedIsNotPublished, TargetsFitAudience
        <2>10. /\ \A d \in PostCalls : \A op : d # c => (At(d, op)' <=> At(d, op))
               /\ \A op : At(c, op)' <=> op = "send"
            BY <2>1, <2>3, <2>6 DEF At
        <2>11. Sending' = Sending
            BY <1>1, <2>10 DEF Sending
        <2>12. OnceInv'
            BY <1>1, <2>4, <2>5, <2>10, <2>11 DEF OnceInv
        <2>13. ReachInv'
            <3>1. \A d \in PostCalls : At(d, "mark")' =>
                    At(d, "mark") /\ postCall'[d] = postCall[d]
                BY <2>6, <2>10
            <3>2. \A d \in PostCalls : At(d, "send")' =>
                    \/ At(d, "send") /\ postCall'[d] = postCall[d]
                    \/ postCall'[d].seen = post
                BY <2>1, <2>6, <2>10
            <3> QED BY <1>1, <2>5, <2>11, <3>1, <3>2 DEF ReachInv
        <2> QED BY <2>5, <2>7, <2>8, <2>9, <2>12, <2>13
    <1> QED BY <1>2, <1>3

-----------------------------------------------------------------------------
(* The announcement                                                         *)

LEMMA CreateAnnouncementKeeps ==
    ASSUME AnnouncementsInv, NEW audience \in Audiences,
           NEW targets \in SUBSET Users, NEW long \in Lengths,
           CreateAnnouncement(audience, targets, long),
           group' = group, moved' = moved
    PROVE  AnnouncementsInv'
    <1> USE DEF AnnouncementsInv
    <1>1. /\ ~ created /\ created' /\ calls < MaxCalls /\ calls' = calls + 1 /\ Valid(post')
          /\ post' = [published |-> FALSE, retracted |-> FALSE, dispatched |-> FALSE,
                      audience |-> audience, targets |-> Fitting(audience, targets),
                      long |-> long, dismissedBy |-> {}, version |-> 0]
          /\ UNCHANGED <<notices, readCall, postCall, crossed, repeated, missed, edited>>
        BY DEF CreateAnnouncement, Call
    <1>2. /\ NotificationsTypeOK' /\ ReadsPersonal' /\ (AnyTold' <=> AnyTold)
        BY <1>1, NoticesFramed DEF TypeOK
    <1>3. post' \in Posts
        BY <1>1, AnnouncementsAssumption DEF Posts, Fitting
    <1>4. TypeOK'
        BY <1>1, <1>2, <1>3 DEF TypeOK, CreateAnnouncement
    <1>5. \A c \in PostCalls : postCall[c] = None
        BY <1>1 DEF CallsKnow
    <1>6. ~ AnyTold
        BY <1>1 DEF PostInv
    <1>7. Sending' = {} /\ \A c \in PostCalls : \A op : ~ At(c, op)'
        BY <1>1, <1>5 DEF Sending, At
    <1>8. CallsKnow'
        BY <1>1, <1>5 DEF CallsKnow
    <1>9. PostInv'
        BY <1>1 DEF PostInv, RetractedIsNotPublished, TargetsFitAudience, Valid, Fitting
    <1>10. OnceInv'
        BY <1>1, <1>2, <1>6, <1>7 DEF OnceInv, AnyTold
    <1>11. ReachInv'
        BY <1>1, <1>7 DEF ReachInv
    <1> QED BY <1>2, <1>4, <1>8, <1>9, <1>10, <1>11

LEMMA RemoveAnnouncementKeeps ==
    ASSUME AnnouncementsInv, RemoveAnnouncement,
           group' = group, moved' = moved
    PROVE  AnnouncementsInv'
    <1> USE DEF AnnouncementsInv
    <1>1. /\ post' = None /\ post # None /\ calls < MaxCalls /\ calls' = calls + 1
          /\ UNCHANGED <<notices, readCall, created, postCall, crossed, repeated, missed, edited>>
        BY DEF RemoveAnnouncement, Call
    <1>2. /\ NotificationsTypeOK' /\ ReadsPersonal' /\ (AnyTold' <=> AnyTold)
          /\ \A p : Reached(p)' <=> Reached(p)
        BY <1>1, NoticesFramed DEF TypeOK
    <1>3. TypeOK'
        BY <1>1, <1>2 DEF TypeOK
    <1>4. CallsKnow'
        BY <1>1 DEF CallsKnow
    <1>5. PostInv'
        BY <1>1, <1>2 DEF PostInv, RetractedIsNotPublished, TargetsFitAudience
    <1>6. Sending' = Sending /\ \A c \in PostCalls : \A op : At(c, op)' <=> At(c, op)
        BY <1>1 DEF Sending, At
    <1>7. OnceInv'
        BY <1>1, <1>2, <1>6 DEF OnceInv
    <1>8. ReachInv'
        BY <1>1, <1>2, <1>6 DEF ReachInv
    <1> QED BY <1>2, <1>3, <1>4, <1>5, <1>7, <1>8

\* A call ends with a write that changes neither the content nor the state.
LEMMA TouchKeeps ==
    ASSUME AnnouncementsInv, NEW c \in PostCalls, Go(c, None),
           post' \in Posts \cup {None}, post = None => post' = None,
           post' # None => /\ Content(post') = Content(post)
                           /\ post'.published = post.published
                           /\ post'.retracted = post.retracted
                           /\ post'.dispatched = (post.dispatched \/ At(c, "mark")),
           UNCHANGED <<noticeVars, created, crossed, repeated, missed, edited>>,
           group' = group, moved' = moved
    PROVE  AnnouncementsInv'
    <1> USE DEF AnnouncementsInv
    <1>1. UNCHANGED <<notices, readCall, calls>>
        BY DEF noticeVars
    <1>2. /\ NotificationsTypeOK' /\ ReadsPersonal' /\ (AnyTold' <=> AnyTold)
          /\ \A p : Reached(p)' <=> Reached(p)
        BY <1>1, NoticesFramed DEF TypeOK
    <1>3. /\ postCall'[c] = None
          /\ \A d \in PostCalls : d # c => postCall'[d] = postCall[d]
          /\ postCall' \in [PostCalls -> PostCallStates \cup {None}]
        BY DEF TypeOK, Go
    <1>4. TypeOK'
        BY <1>2, <1>3 DEF TypeOK
    <1>5. CallsKnow'
        BY <1>3 DEF CallsKnow
    <1>6. \A d \in PostCalls : \A op : At(d, op)' <=> d # c /\ At(d, op)
        BY <1>3 DEF At
    <1>7. Sending' = Sending \ {c}
        BY <1>6 DEF Sending
    <1>8. At(c, "mark") => c \in Sending
        BY DEF Sending
    <1>9. PostInv'
        <2>1. post' # None => (post'.audience = post.audience /\ post'.targets = post.targets)
            BY DEF Content
        <2> QED BY <1>2, <1>8, <2>1
            DEF PostInv, ReachInv, RetractedIsNotPublished, TargetsFitAudience
    <1>10. OnceInv'
        <2> SUFFICES ASSUME ~ repeated PROVE OnceInv'
            BY DEF OnceInv
        <2>1. c \in Sending /\ ~ At(c, "mark") => ~ AnyTold
            BY DEF OnceInv, Sending
        <2>2. AnyTold' => Sending' # {} \/ post' = None \/ post'.dispatched
            BY <1>2, <1>7, <2>1 DEF OnceInv
        <2> QED BY <1>1, <1>2, <1>6, <1>7, <2>2 DEF OnceInv
    <1>11. ReachInv'
        <2>1. PICK p, q : p = post /\ q = post'
            OBVIOUS
        <2>2. post' # None => (Reached(q) <=> Reached(p))
            BY <2>1, ReachedFollowsContent
        <2>3. PICK k : k = postCall[c].seen
            OBVIOUS
        <2>4. At(c, "mark") /\ ~ missed /\ ~ edited /\ ~ crossed
                /\ post # None /\ ~ post.retracted => Reached(p)
            <3>1. Content(k) = Content(p) => (Reached(k) <=> Reached(p))
                BY ReachedFollowsContent
            <3> QED BY <2>1, <2>3, <3>1 DEF ReachInv
        <2>5. Reached(post)' <=> Reached(q)
            <3>1. Reached(q)' <=> Reached(q)
                BY <1>2
            <3> QED BY <2>1, <3>1 DEF Reached, IsFor
        <2>6. Reached(p) <=> Reached(post)
            BY <2>1
        <2> QED BY <1>2, <1>3, <1>6, <1>7, <2>2, <2>4, <2>5, <2>6 DEF ReachInv
    <1> QED BY <1>2, <1>4, <1>5, <1>9, <1>10, <1>11

LEMMA DismissKeeps ==
    ASSUME AnnouncementsInv, NEW c \in PostCalls, Dismiss(c),
           group' = group, moved' = moved
    PROVE  AnnouncementsInv'
    <1>1. /\ At(c, "dismiss") /\ Go(c, None) /\ ~ At(c, "mark")
          /\ post' = IF post = None THEN None
                     ELSE [post EXCEPT !.dismissedBy = @ \cup {postCall[c].user}]
          /\ UNCHANGED <<noticeVars, created, crossed, repeated, missed, edited>>
        BY DEF Dismiss, At
    <1>2. post \in Posts \cup {None} /\ postCall[c].user \in Users
        BY <1>1, CallTypes DEF AnnouncementsInv, TypeOK
    <1>3. CASE post = None
        BY <1>1, <1>3, TouchKeeps
    <1>4. CASE post # None
        <2>1. /\ post' \in Posts /\ Content(post') = Content(post)
              /\ post'.published = post.published /\ post'.retracted = post.retracted
              /\ post'.dispatched = (post.dispatched \/ At(c, "mark"))
            BY <1>1, <1>2, <1>4 DEF Posts, Content
        <2> QED BY <1>1, <1>4, <2>1, TouchKeeps
    <1> QED BY <1>3, <1>4

LEMMA MarkDispatchedKeeps ==
    ASSUME AnnouncementsInv, NEW c \in PostCalls, MarkDispatched(c),
           group' = group, moved' = moved
    PROVE  AnnouncementsInv'
    <1>1. /\ At(c, "mark") /\ Go(c, None)
          /\ post' = IF post = None THEN None ELSE Marked(post)
          /\ UNCHANGED <<noticeVars, created, crossed, repeated, missed, edited>>
        BY DEF MarkDispatched
    <1>2. post \in Posts \cup {None}
        BY DEF AnnouncementsInv, TypeOK
    <1>3. CASE post = None
        BY <1>1, <1>3, TouchKeeps
    <1>4. CASE post # None
        <2>1. /\ post' \in Posts /\ Content(post') = Content(post)
              /\ post'.published = post.published /\ post'.retracted = post.retracted
              /\ post'.dispatched = (post.dispatched \/ At(c, "mark"))
            BY <1>1, <1>2, <1>4 DEF Posts, Content, Marked
        <2> QED BY <1>1, <1>4, <2>1, TouchKeeps
    <1> QED BY <1>3, <1>4

\* What a save that goes through makes of the announcement.
LEMMA Merging ==
    ASSUME TypeOK, NEW c \in PostCalls, Knows(postCall[c]),
           At(c, "publish") \/ At(c, "retract") \/ At(c, "update"),
           post # None, post' = Merged(postCall[c])
    PROVE  /\ post' \in Posts
           /\ post'.dismissedBy = post.dismissedBy
           /\ post'.dispatched = post.dispatched
           /\ post'.retracted = (post.retracted \/ At(c, "retract"))
           /\ At(c, "publish") => post'.published
           /\ At(c, "update") => post'.published = post.published
           /\ post.published => post'.published \/ post'.retracted
           /\ At(c, "retract") => Content(post') = Content(post)
           /\ At(c, "retract") /\ post.published = postCall[c].seen.published
                => ~ post'.published
           /\ Content(post) = Content(postCall[c].seen)
                => Content(post') = Content(postCall[c].new)
    <1> DEFINE k == postCall[c]
    <1>1. /\ k.seen \in Posts /\ k.new \in Posts /\ post \in Posts
          /\ k.op \in {"publish", "retract", "update"}
          /\ \A op : At(c, op) <=> k.op = op
        BY CallTypes DEF TypeOK, At
    <1> HIDE DEF k
    <1>2. /\ post'.published = Field(k, "published")
          /\ post'.retracted = Field(k, "retracted")
          /\ post'.dispatched = Field(k, "dispatched")
          /\ post'.audience = Field(k, "audience")
          /\ post'.targets = Field(k, "targets")
          /\ post'.long = Field(k, "long")
          /\ post'.dismissedBy = Field(k, "dismissedBy")
        BY DEF Merged, k
    <1>3. /\ Field(k, "published") = IF k.new.published # k.seen.published
                                     THEN k.new.published ELSE post.published
          /\ Field(k, "retracted") = IF k.new.retracted # k.seen.retracted
                                     THEN k.new.retracted ELSE post.retracted
          /\ Field(k, "dispatched") = IF k.new.dispatched # k.seen.dispatched
                                      THEN k.new.dispatched ELSE post.dispatched
          /\ Field(k, "audience") = IF k.new.audience # k.seen.audience
                                    THEN k.new.audience ELSE post.audience
          /\ Field(k, "targets") = IF k.new.targets # k.seen.targets
                                   THEN k.new.targets ELSE post.targets
          /\ Field(k, "long") = IF k.new.long # k.seen.long THEN k.new.long ELSE post.long
          /\ Field(k, "dismissedBy") = IF k.new.dismissedBy # k.seen.dismissedBy
                                       THEN k.new.dismissedBy ELSE post.dismissedBy
        BY <1>1 DEF Field, Posts
    <1>4. post' \in Posts
        BY <1>1, <1>3 DEF Merged, Posts, k
    <1>5. /\ post'.dismissedBy = post.dismissedBy
          /\ post'.dispatched = post.dispatched
        BY <1>1, <1>2, <1>3 DEF Knows, k
    <1>6. post'.retracted = (post.retracted \/ At(c, "retract"))
        BY <1>1, <1>2, <1>3 DEF Knows, k, Posts
    <1>7. /\ At(c, "publish") => post'.published
          /\ At(c, "update") => post'.published = post.published
          /\ At(c, "retract") /\ post.published = k.seen.published => ~ post'.published
          /\ post.published => post'.published \/ At(c, "retract")
        BY <1>1, <1>2, <1>3 DEF Knows, k, Posts
    <1>8. At(c, "retract") => Content(post') = Content(post)
        BY <1>1, <1>2, <1>3 DEF Knows, k, Content
    <1>9. Content(post) = Content(k.seen) => Content(post') = Content(k.new)
        BY <1>2, <1>3 DEF Content
    <1> QED BY <1>1, <1>4, <1>5, <1>6, <1>7, <1>8, <1>9 DEF k

LEMMA SaveKeeps ==
    ASSUME AnnouncementsInv, NEW c \in PostCalls, Save(c),
           group' = group, moved' = moved
    PROVE  AnnouncementsInv'
    <1> DEFINE k == postCall[c]
               next == IF DueAfter(k) THEN [op |-> "send", seen |-> k.new] ELSE None
    <1> USE DEF AnnouncementsInv
    <1>1. /\ At(c, "publish") \/ At(c, "retract") \/ At(c, "update")
          /\ ~ At(c, "mark")
          /\ UNCHANGED <<noticeVars, created, missed>>
        BY DEF Save, At
    <1>2. CASE SaveFails(k)
        <2>1. /\ Go(c, None) /\ UNCHANGED <<post, crossed, repeated, edited>>
            BY <1>2 DEF Save
        <2>2. repeated' = (repeated \/ At(c, "mark"))
            BY <1>1, <2>1 DEF TypeOK
        <2> QED BY <1>1, <2>1, <2>2, EndKeeps
    <1>3. CASE ~ SaveFails(k)
        <2>1. /\ post' = Merged(k) /\ post # None
              /\ crossed' = (crossed \/ Content(post) # Content(k.seen)
                                     \/ post.published # k.seen.published
                                     \/ post.retracted # k.seen.retracted)
              /\ edited' = (edited \/ (post.published /\ Content(post') # Content(post)))
              /\ repeated' = (repeated \/ (k.op = "publish"
                                    /\ (post.published \/ post.dispatched \/ Sending # {})))
              /\ Go(c, next)
              /\ k.op # "retract" => Valid(k.new)
            BY <1>3 DEF Save, SaveFails
        <2>2. Knows(k) /\ created /\ \A op : At(c, op) <=> k.op = op
            BY <1>1 DEF CallsKnow, At
        <2>3. k.new \in Posts /\ k.seen \in Posts /\ post \in Posts
            BY <1>1, <2>1, CallTypes DEF TypeOK
        <2>4. next \in PostCallStates \cup {None} /\ (next # None => Knows(next))
            BY <2>3 DEF PostCallStates, Knows
        <2>5. DueAfter(k) => next # None /\ next.op = "send" /\ next.seen = k.new
            BY <2>3, NoneIsNoCall DEF PostCallStates
        <2>6. ~ DueAfter(k) => next = None
            OBVIOUS
        <2> HIDE DEF next, k
        <2>8. UNCHANGED <<notices, readCall, calls>>
            BY <1>1 DEF noticeVars
        <2>9. /\ NotificationsTypeOK' /\ ReadsPersonal' /\ (AnyTold' <=> AnyTold)
              /\ \A p : Reached(p)' <=> Reached(p)
            BY <2>8, NoticesFramed DEF TypeOK
        <2>10. /\ postCall'[c] = next
               /\ \A d \in PostCalls : d # c => postCall'[d] = postCall[d]
               /\ postCall' \in [PostCalls -> PostCallStates \cup {None}]
            BY <2>1, <2>4 DEF TypeOK, Go
        <2>11. /\ post' \in Posts
               /\ post'.dispatched = post.dispatched
               /\ post'.retracted = (post.retracted \/ At(c, "retract"))
               /\ At(c, "publish") => post'.published
               /\ At(c, "update") => post'.published = post.published
               /\ post.published => post'.published \/ post'.retracted
               /\ At(c, "retract") => Content(post') = Content(post)
               /\ At(c, "retract") /\ post.published = k.seen.published => ~ post'.published
               /\ Content(post) = Content(k.seen) => Content(post') = Content(k.new)
            BY <1>1, <2>1, <2>2, Merging DEF k
        <2>12. TypeOK'
            BY <1>1, <2>1, <2>9, <2>10, <2>11 DEF TypeOK
        <2>13. CallsKnow'
            BY <1>1, <2>2, <2>4, <2>10 DEF CallsKnow
        <2>14. /\ \A d \in PostCalls : \A op : d # c => (At(d, op)' <=> At(d, op))
               /\ \A op : At(c, op)' <=> DueAfter(k) /\ op = "send"
            BY <2>5, <2>6, <2>10 DEF At
        <2>15. Sending' = IF DueAfter(k) THEN Sending \cup {c} ELSE Sending
            BY <1>1, <2>2, <2>14 DEF Sending
        <2>16. PostInv'
            <3>1. RetractedIsNotPublished'
                <4> SUFFICES ASSUME post'.retracted, post'.published, ~ crossed' PROVE FALSE
                    BY DEF RetractedIsNotPublished
                <4>1. /\ ~ crossed /\ post.published = k.seen.published
                      /\ post.retracted = k.seen.retracted
                    BY <2>1
                <4>2. ~ At(c, "retract") /\ post.retracted
                    BY <2>11, <4>1
                <4>3. ~ k.seen.retracted
                    BY <1>1, <2>2 DEF Knows
                <4> QED BY <4>1, <4>2, <4>3
            <3>2. TargetsFitAudience'
                <4> SUFFICES ASSUME ~ crossed'
                             PROVE  (post'.audience = "specific") = (post'.targets # {})
                    BY DEF TargetsFitAudience
                <4>1. ~ crossed /\ Content(post) = Content(k.seen)
                    BY <2>1
                <4>2. CASE At(c, "retract")
                    BY <2>1, <2>11, <4>1, <4>2 DEF Content, PostInv, TargetsFitAudience
                <4>3. CASE ~ At(c, "retract")
                    <5>1. k.op \in {"publish", "update"} /\ Valid(k.new)
                        BY <1>1, <2>1, <2>2, <4>3
                    <5>2. (k.new.audience = "specific") = (k.new.targets # {})
                        BY <2>2, <5>1 DEF Knows, Valid
                    <5> QED BY <2>11, <4>1, <5>2 DEF Content
                <4> QED BY <4>2, <4>3
            <3> QED BY <1>1, <2>1, <2>2, <2>9, <2>11, <3>1, <3>2 DEF PostInv
        <2>17. OnceInv'
            <3> SUFFICES ASSUME ~ repeated' PROVE OnceInv'
                BY DEF OnceInv
            <3>1. CASE DueAfter(k)
                <4>1. ~ repeated /\ Sending = {} /\ ~ post.dispatched
                    BY <2>1, <3>1 DEF DueAfter
                <4>2. ~ AnyTold
                    BY <2>1, <4>1 DEF OnceInv
                <4>3. \A d \in PostCalls : (At(d, "queue") \/ At(d, "send"))' => d = c
                    BY <2>14, <4>1 DEF Sending
                <4> QED BY <2>9, <2>15, <3>1, <4>1, <4>2, <4>3 DEF OnceInv, AnyTold
            <3>2. CASE ~ DueAfter(k)
                BY <2>1, <2>8, <2>9, <2>11, <2>14, <2>15, <3>2 DEF OnceInv
            <3> QED BY <3>1, <3>2
        <2>18. ReachInv'
            <3>1. Sending' # {} => post' = None \/ post'.published \/ post'.retracted
                <4>1. CASE DueAfter(k)
                    BY <2>2, <2>11, <4>1 DEF DueAfter
                <4>2. CASE ~ DueAfter(k)
                    BY <2>1, <2>11, <2>15, <4>2 DEF ReachInv
                <4> QED BY <4>1, <4>2
            <3>2. ~ missed' => \A d \in PostCalls : At(d, "mark")' => Reached(postCall[d].seen)'
                BY <1>1, <2>9, <2>10, <2>14 DEF ReachInv
            <3>3. ASSUME ~ edited', ~ crossed', NEW d \in PostCalls,
                         At(d, "send")' \/ At(d, "mark")'
                  PROVE  \/ post' = None \/ post'.retracted
                         \/ Content(postCall'[d].seen) = Content(post')
                <4>0. ~ edited /\ ~ crossed /\ Content(post) = Content(k.seen)
                    BY <2>1, <3>3
                <4>1. CASE d = c
                    BY <2>5, <2>10, <2>11, <2>14, <3>3, <4>0, <4>1
                <4>2. CASE d # c
                    <5>1. /\ At(d, "send") \/ At(d, "mark")
                          /\ postCall'[d] = postCall[d]
                        BY <2>10, <2>14, <3>3, <4>2
                    <5>2. d \in Sending
                        BY <5>1 DEF Sending
                    <5>3. post.retracted \/ Content(postCall[d].seen) = Content(post)
                        BY <2>1, <4>0, <5>1 DEF ReachInv
                    <5>4. post.retracted \/ post.published
                        BY <2>1, <5>2 DEF ReachInv
                    <5>5. post.published => Content(post') = Content(post)
                        BY <2>1, <3>3
                    <5> QED BY <2>11, <5>1, <5>3, <5>4, <5>5
                <4> QED BY <4>1, <4>2
            <3>4. ASSUME ~ missed', ~ edited', ~ crossed', post' # None, post'.dispatched,
                         ~ post'.retracted
                  PROVE  Reached(post)'
                <4>1. /\ ~ missed /\ ~ edited /\ ~ crossed /\ post.dispatched /\ ~ post.retracted
                    BY <1>1, <2>1, <2>11, <3>4
                <4>2. post.published /\ Reached(post)
                    BY <2>1, <4>1 DEF PostInv, ReachInv
                <4>3. PICK p, q : p = post /\ q = post'
                    OBVIOUS
                <4>4. Content(q) = Content(p)
                    BY <2>1, <3>4, <4>2, <4>3
                <4>5. Reached(q)'
                    BY <2>9, <4>2, <4>3, <4>4, ReachedFollowsContent
                <4> QED BY <4>3, <4>5 DEF Reached, IsFor
            <3> QED BY <3>1, <3>2, <3>3, <3>4 DEF ReachInv
        <2> QED BY <2>9, <2>12, <2>13, <2>16, <2>17, <2>18
    <1> QED BY <1>2, <1>3

-----------------------------------------------------------------------------
(* The notifications of the announcement                                    *)

LEMMA RecipientsKnown ==
    ASSUME NEW p \in Posts
    PROVE  /\ Recipients(p) \subseteq Users \/ Recipients(p) = {Everyone}
           /\ IsFiniteSet(Recipients(p))
    <1>1. /\ p.audience \in {"all", "teams", "solo", "specific"}
          /\ p.targets \subseteq Users
        BY AnnouncementsAssumption DEF Posts
    <1>2. Recipients(p) \subseteq Users \/ Recipients(p) = {Everyone}
        BY <1>1, AnnouncementsAssumption DEF Recipients
    <1>3. IsFiniteSet(Users) /\ IsFiniteSet({Everyone})
        BY NotificationsAssumption, FS_Singleton
    <1> QED BY <1>2, <1>3, FS_Subset

\* One notification for each of those that could be created, after the others.
LEMMA SendAppends ==
    ASSUME TypeOK, NEW c \in PostCalls, Send(c)
    PROVE  \E got \in SUBSET Recipients(postCall[c].seen) :
            /\ missed' = (missed \/ got # Recipients(postCall[c].seen))
            /\ notices' \in Seq(Notices)
            /\ Len(notices') >= Len(notices)
            /\ \A n \in DOMAIN notices : n \in DOMAIN notices' /\ notices'[n] = notices[n]
            /\ \A n \in DOMAIN notices' \ DOMAIN notices :
                    notices'[n].announced /\ notices'[n].to \in got
            /\ \A m, n \in DOMAIN notices' \ DOMAIN notices :
                    m # n => notices'[m].to # notices'[n].to
            /\ \A to \in got : \E n \in DOMAIN notices' :
                    notices'[n].announced /\ notices'[n].to = to
    <1> DEFINE p == postCall[c].seen
    <1>1. At(c, "send") /\ p \in Posts
        BY CallTypes DEF Send
    <1>2. PICK got \in SUBSET Recipients(p) :
            /\ missed' = (missed \/ got # Recipients(p))
            /\ \E order \in [1..Cardinality(got) -> got] :
                /\ \A to \in got : \E i \in DOMAIN order : order[i] = to
                /\ notices' = notices \o [i \in DOMAIN order |-> NewNotice(order[i], TRUE)]
        BY DEF Send
    <1> HIDE DEF p
    <1>3. PICK order \in [1..Cardinality(got) -> got] :
                /\ \A to \in got : \E i \in DOMAIN order : order[i] = to
                /\ notices' = notices \o [i \in DOMAIN order |-> NewNotice(order[i], TRUE)]
        BY <1>2
    <1> DEFINE N == Cardinality(got)
               L == Len(notices)
               F == [i \in 1..N |-> NewNotice(order[i], TRUE)]
    <1>4. IsFiniteSet(got) /\ N \in Nat
        BY <1>1, RecipientsKnown, FS_Subset, FS_CardinalityType
    <1>5. DOMAIN order = 1..N /\ \A i \in 1..N : order[i] \in got
        OBVIOUS
    <1>6. got \subseteq Users \cup {Everyone}
        BY <1>1, RecipientsKnown
    <1>7. \A i \in 1..N : F[i] \in Notices /\ F[i].announced /\ F[i].to = order[i]
        BY <1>5, <1>6 DEF NewNotice, Notices
    <1>8. F \in Seq(Notices) /\ Len(F) = N
        <2>1. F \in [1..N -> Notices]
            BY <1>7
        <2> HIDE DEF F, N
        <2> QED BY <1>4, <2>1
    <1>9. notices' = notices \o F /\ notices \in Seq(Notices) /\ L \in Nat /\ DOMAIN notices = 1..L
        BY <1>3, <1>5, LenProperties DEF TypeOK, NotificationsTypeOK
    <1>10. \A i, j \in 1..N : i # j => order[i] # order[j]
        <2>1. Cardinality(1..N) = N /\ IsFiniteSet(1..N)
            BY <1>4, FS_Interval
        <2>2. order \in Surjection(1..N, got)
            BY <1>3, <1>5 DEF Surjection
        <2>3. order \in Injection(1..N, got)
            BY <2>1, <2>2, FS_SurjSameCardinalityImpliesInj
        <2> QED BY <1>5, <2>3 DEF Injection, IsInjective
    <1> HIDE DEF F, N, L
    <1>11. /\ notices' \in Seq(Notices) /\ Len(notices') = L + N
           /\ \A i \in 1..(L + N) : notices'[i] = IF i <= L THEN notices[i] ELSE F[i - L]
        BY <1>8, <1>9, ConcatProperties DEF L
    <1>12. DOMAIN notices' = 1..(L + N)
        BY <1>11, LenProperties
    <1>13. \A n \in DOMAIN notices : n \in DOMAIN notices' /\ notices'[n] = notices[n]
        BY <1>4, <1>9, <1>11, <1>12
    <1>14. \A n \in DOMAIN notices' \ DOMAIN notices :
                n - L \in 1..N /\ notices'[n] = F[n - L]
        BY <1>4, <1>9, <1>11, <1>12
    <1>15. \A i \in 1..N : L + i \in DOMAIN notices' \ DOMAIN notices /\ notices'[L + i] = F[i]
        BY <1>4, <1>9, <1>11, <1>12
    <1>16. \A n \in DOMAIN notices' \ DOMAIN notices :
                notices'[n].announced /\ notices'[n].to \in got
        BY <1>5, <1>7, <1>14
    <1>17. ASSUME NEW m \in DOMAIN notices' \ DOMAIN notices,
                  NEW n \in DOMAIN notices' \ DOMAIN notices, m # n
           PROVE  notices'[m].to # notices'[n].to
        <2>1. m - L # n - L
            BY <1>4, <1>9, <1>12, <1>17
        <2> QED BY <1>7, <1>10, <1>14, <2>1
    <1>18. ASSUME NEW to \in got
           PROVE  \E n \in DOMAIN notices' : notices'[n].announced /\ notices'[n].to = to
        <2>1. PICK i \in 1..N : order[i] = to
            BY <1>3, <1>5
        <2> QED BY <1>7, <1>15, <2>1
    <1>19. Len(notices') >= Len(notices)
        BY <1>4, <1>9, <1>11 DEF L
    <1> QED BY <1>2, <1>11, <1>13, <1>16, <1>17, <1>18, <1>19 DEF p

LEMMA SendKeeps ==
    ASSUME AnnouncementsInv, NEW c \in PostCalls, Send(c),
           group' = group, moved' = moved
    PROVE  AnnouncementsInv'
    <1> DEFINE p == postCall[c].seen
               k == [op |-> "mark", seen |-> p]
    <1> USE DEF AnnouncementsInv
    <1>1. /\ At(c, "send") /\ p \in Posts /\ created
          /\ UNCHANGED <<readCall, calls, post, created, crossed, repeated, edited>>
          /\ Go(c, k)
        BY CallTypes DEF Send, At, CallsKnow
    <1>2. PICK got \in SUBSET Recipients(p) :
            /\ missed' = (missed \/ got # Recipients(p))
            /\ notices' \in Seq(Notices)
            /\ Len(notices') >= Len(notices)
            /\ \A n \in DOMAIN notices : n \in DOMAIN notices' /\ notices'[n] = notices[n]
            /\ \A n \in DOMAIN notices' \ DOMAIN notices :
                    notices'[n].announced /\ notices'[n].to \in got
            /\ \A m, n \in DOMAIN notices' \ DOMAIN notices :
                    m # n => notices'[m].to # notices'[n].to
            /\ \A to \in got : \E n \in DOMAIN notices' :
                    notices'[n].announced /\ notices'[n].to = to
        BY SendAppends
    <1>3. k \in PostCallStates /\ Knows(k) /\ k.op = "mark" /\ k.seen = p
        BY <1>1 DEF PostCallStates, Knows
    <1>4. k # None
        BY <1>3, NoneIsNoCall
    <1>5. Recipients(p) \subseteq Users \/ Recipients(p) = {Everyone}
        BY <1>1, RecipientsKnown
    <1> HIDE DEF k, p
    <1>6. /\ postCall'[c] = k
          /\ \A d \in PostCalls : d # c => postCall'[d] = postCall[d]
          /\ postCall' \in [PostCalls -> PostCallStates \cup {None}]
        BY <1>1, <1>3 DEF TypeOK, Go
    <1>7. /\ Len(notices) \in Nat /\ DOMAIN notices = 1..Len(notices)
          /\ Len(notices') \in Nat /\ DOMAIN notices' = 1..Len(notices')
        BY <1>2, LenProperties DEF TypeOK, NotificationsTypeOK
    <1>8. NotificationsTypeOK'
        <2>1. readCall' \in [ReadCalls -> (1..Len(notices')) \cup {None}]
            BY <1>1, <1>2, <1>7 DEF TypeOK, NotificationsTypeOK
        <2> QED BY <1>1, <1>2, <2>1 DEF TypeOK, NotificationsTypeOK
    <1>9. TypeOK'
        BY <1>1, <1>2, <1>6, <1>8 DEF TypeOK
    <1>10. ReadsPersonal'
        <2>1. \A d \in ReadCalls : readCall[d] # None => readCall[d] \in DOMAIN notices
            BY <1>7 DEF TypeOK, NotificationsTypeOK
        <2> QED BY <1>1, <1>2, <2>1 DEF ReadsPersonal
    <1>11. CallsKnow'
        BY <1>1, <1>3, <1>6 DEF CallsKnow
    <1>12. PostInv'
        BY <1>1 DEF PostInv, RetractedIsNotPublished, TargetsFitAudience
    <1>13. /\ \A d \in PostCalls : \A op : d # c => (At(d, op)' <=> At(d, op))
           /\ \A op : At(c, op)' <=> op = "mark"
        BY <1>3, <1>4, <1>6 DEF At
    <1>14. c \in Sending /\ Sending' = Sending
        BY <1>1, <1>13 DEF Sending
    <1>15. OnceInv'
        <2> SUFFICES ASSUME ~ repeated PROVE OnceInv'
            BY <1>1 DEF OnceInv
        <2>1. ~ AnyTold /\ \A d \in Sending : d = c
            BY <1>1, <1>14 DEF OnceInv
        <2>2. \A d \in PostCalls : ~ (At(d, "queue") \/ At(d, "send"))'
            BY <1>13, <2>1 DEF Sending
        <2>3. ASSUME NEW m \in DOMAIN notices', NEW n \in DOMAIN notices', m # n,
                     notices'[m].announced, notices'[n].announced
              PROVE  notices'[m].to # notices'[n].to /\ notices'[m].to \in Users
            <3>1. m \notin DOMAIN notices /\ n \notin DOMAIN notices
                BY <1>2, <2>1, <2>3 DEF AnyTold
            <3>2. /\ notices'[m].to # notices'[n].to
                  /\ notices'[m].to \in Recipients(p) /\ notices'[n].to \in Recipients(p)
                BY <1>2, <2>3, <3>1
            <3> QED BY <1>5, <3>2
        <2> QED BY <1>14, <2>1, <2>2, <2>3 DEF OnceInv
    <1>16. ReachInv'
        <2>1. \A q : Reached(q) => Reached(q)'
            BY <1>2 DEF Reached, IsFor
        <2>2. ASSUME ~ missed', NEW d \in PostCalls, At(d, "mark")'
              PROVE  Reached(postCall[d].seen)' /\ ~ missed
            <3>1. ~ missed /\ got = Recipients(p)
                BY <1>2, <2>2
            <3>2. CASE d = c
                <4>1. postCall'[d].seen = p
                    BY <1>3, <1>6, <3>2
                <4>2. \A u \in Users : IsFor(p, u) => \E to \in got : to \in {u, Everyone}
                    BY <1>1, <3>1, RecipientsCover DEF TypeOK
                <4>3. \A u \in Users : IsFor(p, u) => \E n \in DOMAIN notices' :
                        notices'[n].announced /\ notices'[n].to \in {u, Everyone}
                    BY <1>2, <4>2
                <4>4. PICK q : q = p
                    OBVIOUS
                <4>5. Reached(q)'
                    BY <4>3, <4>4 DEF Reached, IsFor
                <4> QED BY <3>1, <4>1, <4>4, <4>5 DEF Reached, IsFor
            <3>3. CASE d # c
                BY <1>6, <1>13, <2>1, <2>2, <3>1, <3>3 DEF ReachInv
            <3> QED BY <3>2, <3>3
        <2>3. \A d \in PostCalls : (At(d, "send") \/ At(d, "mark"))' =>
                (At(d, "send") \/ At(d, "mark")) /\ postCall'[d].seen = postCall[d].seen
            BY <1>1, <1>3, <1>6, <1>13 DEF p
        <2>4. ~ missed' => ~ missed
            BY <1>2
        <2> QED BY <1>1, <1>14, <2>1, <2>2, <2>3, <2>4 DEF ReachInv
    <1> QED BY <1>9, <1>10, <1>11, <1>12, <1>15, <1>16

-----------------------------------------------------------------------------
(* The players                                                              *)

LEMMA ChangeGroupKeeps ==
    ASSUME AnnouncementsInv, NEW u \in Users, NEW to \in Groups, ChangeGroup(u, to)
    PROVE  AnnouncementsInv'
    <1> USE DEF AnnouncementsInv
    <1>1. /\ calls < MaxCalls /\ calls' = calls + 1 /\ group' = [group EXCEPT ![u] = to]
          /\ moved' = IF NotificationsOut THEN moved \cup {u} ELSE moved
          /\ UNCHANGED <<notices, readCall, post, created, postCall,
                         crossed, repeated, missed, edited>>
        BY DEF ChangeGroup, Call
    <1>2. NotificationsTypeOK' /\ ReadsPersonal' /\ (AnyTold' <=> AnyTold)
        BY <1>1, NoticesFramed DEF TypeOK
    <1>3. TypeOK'
        BY <1>1, <1>2 DEF TypeOK
    <1>4. CallsKnow'
        BY <1>1 DEF CallsKnow
    <1>5. PostInv'
        BY <1>1, <1>2 DEF PostInv, RetractedIsNotPublished, TargetsFitAudience
    <1>6. Sending' = Sending /\ \A c \in PostCalls : \A op : At(c, op)' <=> At(c, op)
        BY <1>1 DEF Sending, At
    <1>7. OnceInv'
        BY <1>1, <1>2, <1>6 DEF OnceInv
    <1>8. ReachInv'
        <2>1. ASSUME NotificationsOut, NEW p, Reached(p)
              PROVE  Reached(p)'
            <3>1. \A v \in Users \ moved' : v \in Users \ moved /\ group'[v] = group[v]
                BY <1>1, <2>1 DEF TypeOK
            <3> QED BY <1>1, <2>1, <3>1 DEF Reached, IsFor
        <2>2. ASSUME ~ missed', NEW c \in PostCalls, At(c, "mark")'
              PROVE  Reached(postCall[c].seen)'
            <3>1. PICK p : p = postCall[c].seen
                OBVIOUS
            <3>2. Reached(p) /\ NotificationsOut
                BY <1>1, <1>6, <2>2, <3>1 DEF ReachInv, NotificationsOut
            <3>3. Reached(p)'
                BY <2>1, <3>2
            <3> QED BY <1>1, <3>1, <3>3 DEF Reached, IsFor
        <2>3. ASSUME ~ missed', ~ edited', ~ crossed', post' # None, post'.dispatched,
                     ~ post'.retracted
              PROVE  Reached(post)'
            <3>1. PICK p : p = post
                OBVIOUS
            <3>2. Reached(p) /\ NotificationsOut
                BY <1>1, <2>3, <3>1 DEF ReachInv, NotificationsOut
            <3>3. Reached(p)'
                BY <2>1, <3>2
            <3> QED BY <1>1, <3>1, <3>3 DEF Reached, IsFor
        <2> QED BY <1>1, <1>6, <2>2, <2>3 DEF ReachInv
    <1> QED BY <1>2, <1>3, <1>4, <1>5, <1>7, <1>8

-----------------------------------------------------------------------------
(* Theorems                                                                 *)

LEMMA AnnouncementsInvInit ==
    ASSUME Init
    PROVE  AnnouncementsInv
    <1> USE DEF Init, NotificationsInit
    <1>1. NotificationsTypeOK
        <2>1. notices \in Seq(Notices)
            BY EmptySeq
        <2>2. readCall \in [ReadCalls -> (1..Len(notices)) \cup {None}]
            OBVIOUS
        <2>3. calls \in 0..MaxCalls
            BY NotificationsAssumption
        <2> QED BY <2>1, <2>2, <2>3 DEF NotificationsTypeOK
    <1>2. TypeOK
        BY <1>1 DEF TypeOK
    <1>3. ~ AnyTold /\ Sending = {} /\ \A c \in PostCalls : \A op : ~ At(c, op)
        BY DEF AnyTold, Sending, At
    <1> QED BY <1>2, <1>3
        DEF AnnouncementsInv, ReadsPersonal, CallsKnow, PostInv, RetractedIsNotPublished,
            TargetsFitAudience, OnceInv, ReachInv, AnyTold

LEMMA AnnouncementsInvStep ==
    ASSUME AnnouncementsInv, [Next]_vars
    PROVE  AnnouncementsInv'
    <1>0. CASE \E u \in Users, to \in Groups : ChangeGroup(u, to)
        BY <1>0, ChangeGroupKeeps
    <1>1. CASE PostNext /\ UNCHANGED <<group, moved>>
        BY <1>1, CreateAnnouncementKeeps, RemoveAnnouncementKeeps, LoadToUpdateKeeps,
           LoadToPublishKeeps, LoadToRetractKeeps, SaveKeeps, FindToDismissKeeps, DismissKeeps,
           ListPendingKeeps, LoadPendingKeeps, SendKeeps, MarkDispatchedKeeps, StopKeeps
        DEF PostNext
    <1>2. CASE NotificationsNext /\ UNCHANGED postVars
        BY <1>2, NotificationsStep, ReadsPersonalStep, OthersKeep DEF AnnouncementsInv, TypeOK
    <1>3. CASE UNCHANGED vars
        <2>1. UNCHANGED <<notices, readCall, calls, postVars>>
            BY <1>3 DEF vars, noticeVars
        <2>2. OnlyOthers
            BY <2>1, NoticesTyped DEF OnlyOthers, Onward, AnnouncementsInv, TypeOK
        <2> QED BY <2>1, <2>2, NoticesFramed, OthersKeep DEF AnnouncementsInv, TypeOK
    <1> QED BY <1>0, <1>1, <1>2, <1>3 DEF Next

LEMMA AnnouncementsInvHolds == Spec => []AnnouncementsInv
    BY AnnouncementsInvInit, AnnouncementsInvStep, PTL DEF Spec

\* However its edits, publications and retractions overlap, a retracted announcement is
\* not published and only one for specific users has targets, unless a save was of a
\* document that had been changed since it was loaded.
THEOREM PostConsistentHolds == Spec => []PostConsistent
    <1>1. AnnouncementsInv => PostConsistent
        BY DEF AnnouncementsInv, PostInv, PostConsistent
    <1> QED BY <1>1, AnnouncementsInvHolds, PTL

\* Nobody is notified twice, unless dispatches overlapped or one was cut off before it
\* was marked.
THEOREM NotifiedOnceHolds == Spec => []NotifiedOnce
    <1>1. ASSUME AnnouncementsInv PROVE NotifiedOnce
        <2> SUFFICES ASSUME ~ repeated, NEW u \in Users
                     PROVE  Cardinality(Copies(u)) <= 1
            BY DEF NotifiedOnce
        <2>1. \A m, n \in Copies(u) : m = n
            BY <1>1, NotificationsAssumption DEF AnnouncementsInv, OnceInv, Copies
        <2>2. CASE Copies(u) = {}
            BY <2>2, FS_EmptySet
        <2>3. CASE Copies(u) # {}
            <3>1. PICK n \in Copies(u) : TRUE
                BY <2>3
            <3>2. Copies(u) = {n}
                BY <2>1, <3>1
            <3> QED BY <3>2, FS_Singleton
        <2> QED BY <2>2, <2>3
    <1> QED BY <1>1, AnnouncementsInvHolds, PTL

\* Whoever the feed shows a published announcement has been notified, is about to be, or
\* will be by the queue, unless it was edited, a notification could not be created, saves
\* crossed, or the user joined or left a team once the notifications were created.
THEOREM NobodyMissedHolds == Spec => []NobodyMissed
    <1>1. ASSUME AnnouncementsInv PROVE NobodyMissed
        <2> SUFFICES ASSUME ~ missed, ~ edited, ~ crossed, NEW u \in Users \ moved, Shown(u),
                            post.dispatched
                     PROVE  Copies(u) # {}
            BY DEF NobodyMissed
        <2>1. Reached(post) /\ post \in Posts
            BY <1>1 DEF AnnouncementsInv, ReachInv, Shown, Live, TypeOK
        <2> QED BY <2>1 DEF Reached, Shown, Copies
    <1> QED BY <1>1, AnnouncementsInvHolds, PTL

\* The calls that may save leave what is hidden hidden.
LEMMA StaysHidden ==
    ASSUME AnnouncementsInv, [Next]_vars, NEW u \in Users,
           post # None, post.retracted \/ u \in post.dismissedBy
    PROVE  ~ Shown(u)'
    <1> DEFINE Hidden == post' = None \/ post'.retracted \/ u \in post'.dismissedBy
    <1>0. post \in Posts /\ created
        BY DEF AnnouncementsInv, TypeOK, PostInv
    <1>1. CASE post' = post
        BY <1>1 DEF Shown, Live
    <1>2. ASSUME NEW c \in PostCalls, Save(c), post' # post
          PROVE  Hidden
        <2>1. /\ At(c, "publish") \/ At(c, "retract") \/ At(c, "update")
              /\ post' = Merged(postCall[c])
            BY <1>2 DEF Save
        <2>2. Knows(postCall[c])
            BY <2>1 DEF AnnouncementsInv, CallsKnow, At
        <2> QED BY <2>1, <2>2, Merging DEF AnnouncementsInv
    <1>3. ASSUME NEW c \in PostCalls, Dismiss(c) \/ MarkDispatched(c)
          PROVE  Hidden
        BY <1>0, <1>3 DEF Dismiss, MarkDispatched, Marked, Posts
    <1>4. ASSUME RemoveAnnouncement
          PROVE  Hidden
        BY <1>4 DEF RemoveAnnouncement
    <1>5. post' # post => Hidden
        BY <1>0, <1>2, <1>3, <1>4
        DEF Next, vars, postVars, PostNext, CreateAnnouncement, LoadToUpdate, LoadToPublish,
            LoadToRetract, FindToDismiss, ListPending, LoadPending, Send, Stop, ChangeGroup
    <1> QED BY <1>1, <1>5 DEF Shown, Live

\* No step takes a notification back.
LEMMA NoticesGoOn ==
    ASSUME AnnouncementsInv, [Next]_vars
    PROVE  \A n \in DOMAIN notices : n \in DOMAIN notices' /\ Onward(notices[n], notices'[n])
    <1>0. /\ Len(notices) \in Nat /\ DOMAIN notices = 1..Len(notices)
          /\ Len(notices') \in Nat /\ DOMAIN notices' = 1..Len(notices')
        BY AnnouncementsInvStep, LenProperties DEF AnnouncementsInv, TypeOK, NotificationsTypeOK
    <1>1. CASE notices' = notices
        BY <1>1 DEF Onward
    <1>2. CASE NotificationsNext
        <2>1. OnlyOthers
            BY <1>2, NotificationsStep DEF AnnouncementsInv, TypeOK
        <2> QED BY <1>0, <2>1 DEF OnlyOthers
    <1>3. ASSUME NEW c \in PostCalls, Send(c)
          PROVE  \A n \in DOMAIN notices :
                    n \in DOMAIN notices' /\ Onward(notices[n], notices'[n])
        <2>1. \A n \in DOMAIN notices : n \in DOMAIN notices' /\ notices'[n] = notices[n]
            BY <1>3, SendAppends DEF AnnouncementsInv
        <2> QED BY <2>1 DEF Onward
    <1> QED BY <1>1, <1>2, <1>3
        DEF Next, vars, noticeVars, PostNext, CreateAnnouncement, RemoveAnnouncement,
            LoadToUpdate, LoadToPublish, LoadToRetract, FindToDismiss, ListPending, LoadPending,
            Save, Dismiss, MarkDispatched, Stop, Begin, ChangeGroup

\* What a player dismissed, deleted or read, and what was retracted or removed, stays so,
\* whatever a call had loaded before.
THEOREM NothingReturnsHolds == Spec => NothingReturns
    <1>1. AnnouncementsInv /\ [Next]_vars =>
            [\A u \in Users :
                post # None /\ (post.retracted \/ u \in post.dismissedBy) => ~ Shown(u)']_vars
        BY StaysHidden
    <1>2. ASSUME AnnouncementsInv, [Next]_vars, Len(notices') = Len(notices), NEW u \in Users
          PROVE  Listed(u)' \subseteq Listed(u) /\ Unread(u)' \subseteq Unread(u)
        <2>1. DOMAIN notices' = DOMAIN notices
            BY <1>2, AnnouncementsInvStep, LenProperties
            DEF AnnouncementsInv, TypeOK, NotificationsTypeOK
        <2>2. \A n \in DOMAIN notices : Onward(notices[n], notices'[n])
            BY <1>2, NoticesGoOn
        <2>3. Personal(u)' \subseteq Personal(u) /\ Broadcasts(u)' \subseteq Broadcasts(u)
            BY <2>1, <2>2 DEF Personal, Broadcasts, Onward
        <2>4. \A n \in Personal(u)' : ~ notices'[n].read => ~ notices[n].read
            BY <2>1, <2>2 DEF Personal, Onward
        <2> QED BY <2>3, <2>4 DEF Listed, Unread
    <1>3. AnnouncementsInv /\ [Next]_vars =>
            [Len(notices') = Len(notices) =>
                \A u \in Users :
                    Listed(u)' \subseteq Listed(u) /\ Unread(u)' \subseteq Unread(u)]_vars
        BY <1>2
    <1>4. Spec => HiddenStaysHidden
        BY <1>1, AnnouncementsInvHolds, PTL DEF Spec, HiddenStaysHidden
    <1>5. Spec => InboxOnlyShrinks
        BY <1>3, AnnouncementsInvHolds, PTL DEF Spec, InboxOnlyShrinks
    <1> QED BY <1>4, <1>5 DEF NothingReturns
=============================================================================
