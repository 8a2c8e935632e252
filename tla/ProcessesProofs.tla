--------------------------- MODULE ProcessesProofs ---------------------------
(***************************************************************************)
(* The safety properties of the two kinds of process of the system: of a   *)
(* page of the web client, that is its refresh queue (RefreshQueue) and    *)
(* its notifications (Inbox), and of the API (Server), for any number of   *)
(* requests, expiries, notifications, clients and signals.                 *)
(***************************************************************************)
EXTENDS RefreshQueue, Inbox, Server, TLAPS

------------------------------------------------------------------------------
(* The refresh queue.  Neither "one refresh" nor "nobody waits in vain" can  *)
(* be proved alone: QueueInv ties the stage of each request to the refresh   *)
(* it started, to its item in the queue and to the times it was sent.        *)

RequestInv(r) ==
    /\ call[r].sends <= 2
    /\ ~call[r].retry => call[r].sends <= 1
    /\ call[r].stage = "idle" => call[r].sends = 0 /\ ~call[r].retry
    /\ call[r].stage \in {"queued", "refreshing"} =>
           call[r].sends = 1 /\ call[r].retry
    /\ call[r].stage = "refreshing" <=> refresh[r] # "none"
    /\ call[r].stage = "queued" <=> Item("call", r) \in failedQueue
    /\ Item("refresh", r) \in failedQueue => refresh[r] = "queued"

QueueInv ==
    /\ TypeOK
    /\ \A r \in Calls : RequestInv(r)
    /\ \A r, s \in Calls : refresh[r] # "none" /\ refresh[s] # "none" => r = s
    /\ isRefreshing <=> \E r \in Calls : refresh[r] # "none"
    /\ failedQueue # {} => isRefreshing

LEMMA ItemsDiffer ==
    ASSUME NEW r \in Calls, NEW s \in Calls
    PROVE  /\ Item("call", r) = Item("call", s) => r = s
           /\ Item("refresh", r) = Item("refresh", s) => r = s
           /\ Item("call", r) # Item("refresh", s)
           /\ Item("call", r) \in Items /\ Item("refresh", r) \in Items
  BY DEF Item, Items

LEMMA SentIsTyped ==
    ASSUME NEW c \in CallStates, NEW k \in 0..MaxExpiries
    PROVE  Sent(c, k) \in CallStates /\ Sent(c, k).sends = c.sends + 1
           /\ Sent(c, k).stage = "sent" /\ Sent(c, k).retry = c.retry
  BY DEF CallStates, Sent

LEMMA TypeStep == TypeOK /\ [Next]_vars => TypeOK'
<1> SUFFICES ASSUME TypeOK, [Next]_vars PROVE TypeOK'
  OBVIOUS
<1>1. ASSUME NEW r \in Calls, Send(r) PROVE TypeOK'
  <2>1. Sent(call[r], cookie) \in CallStates
    BY SentIsTyped DEF TypeOK
  <2> QED
    BY <1>1, <2>1 DEF Send, TypeOK, cookieVars
<1>7. ASSUME NEW r \in Calls, RefreshOk(r) PROVE TypeOK'
  <2>1. ASSUME NEW s \in Calls
        PROVE  /\ Sent(call[s], expiries) \in CallStates
               /\ call[s] \in CallStates
    BY SentIsTyped DEF TypeOK
  <2>2. call' \in [Calls -> CallStates]
    BY <1>7, <2>1 DEF RefreshOk, SettleAll
  <2>3. refresh' \in [Calls -> RefreshStages]
    BY <1>7 DEF RefreshOk, SettleAll, TypeOK, RefreshStages, Responses
  <2> QED
    BY <1>7, <2>2, <2>3 DEF RefreshOk, SettleAll, TypeOK
<1>10. ASSUME ExpireAccess \/ EndSession PROVE TypeOK'
  <2>1. expiries' \in 0..MaxExpiries
    BY <1>10, RefreshQueueAssumption DEF ExpireAccess, EndSession, TypeOK
  <2>2. session' \in BOOLEAN
    BY <1>10 DEF ExpireAccess, EndSession, TypeOK
  <2>3. UNCHANGED clientVars /\ UNCHANGED cookie
    BY <1>10 DEF ExpireAccess, EndSession
  <2> QED
    BY <2>1, <2>2, <2>3 DEF TypeOK, clientVars
<1> USE DEF TypeOK, CallStates, Responses, RefreshStages
<1>2. ASSUME NEW r \in Calls, ServeCall(r) PROVE TypeOK'
  BY <1>2 DEF ServeCall, Move, cookieVars
<1>3. ASSUME NEW r \in Calls, ServeRefresh(r) \/ LoseRefresh(r) PROVE TypeOK'
  BY <1>3 DEF ServeRefresh, LoseRefresh, cookieVars
<1>4. ASSUME NEW r \in Calls, ReceiveOk(r) \/ ReceiveError(r) PROVE TypeOK'
  BY <1>4 DEF ReceiveOk, ReceiveError, Move, cookieVars
<1>5. ASSUME NEW r \in Calls, WaitForRefresh(r) PROVE TypeOK'
  BY <1>5, ItemsDiffer DEF WaitForRefresh, cookieVars
<1>6. ASSUME NEW r \in Calls, StartRefresh(r) PROVE TypeOK'
  BY <1>6 DEF StartRefresh, cookieVars
<1>8. ASSUME NEW r \in Calls, RefreshFailed(r) PROVE TypeOK'
  BY <1>8 DEF RefreshFailed, SettleAll, cookieVars
<1>9. ASSUME NEW r \in Calls, RefreshUnauthorized(r) PROVE TypeOK'
  BY <1>9, ItemsDiffer DEF RefreshUnauthorized, cookieVars
<1>11. CASE UNCHANGED vars
  BY <1>11 DEF vars
<1> QED
  BY <1>1, <1>2, <1>3, <1>4, <1>5, <1>6, <1>7, <1>8, <1>9, <1>10, <1>11
     DEF Next, Exchange

LEMMA QueueStep == QueueInv /\ [Next]_vars => QueueInv'
<1> SUFFICES ASSUME QueueInv, [Next]_vars PROVE QueueInv'
  OBVIOUS
<1>0. TypeOK'
  BY TypeStep DEF QueueInv
<1> DEFINE Rest == /\ \A r \in Calls : RequestInv(r)
                   /\ \A r, s \in Calls :
                          refresh[r] # "none" /\ refresh[s] # "none" => r = s
                   /\ isRefreshing <=> \E r \in Calls : refresh[r] # "none"
                   /\ failedQueue # {} => isRefreshing
<1> SUFFICES Rest'
  BY <1>0 DEF QueueInv
<1> USE DEF QueueInv, RequestInv, TypeOK, CallStates, Responses, RefreshStages
<1>1. ASSUME NEW r \in Calls, Send(r) PROVE Rest'
  BY <1>1 DEF Send, Sent
<1>2. ASSUME NEW r \in Calls, ServeCall(r) PROVE Rest'
  BY <1>2 DEF ServeCall, Move
<1>3. ASSUME NEW r \in Calls, ServeRefresh(r) \/ LoseRefresh(r) PROVE Rest'
  <2>1. /\ refresh[r] = "sent" /\ refresh'[r] # "none"
        /\ \A s \in Calls \ {r} : refresh'[s] = refresh[s]
        /\ UNCHANGED <<call, isRefreshing, failedQueue>>
    BY <1>3 DEF ServeRefresh, LoseRefresh
  <2>2. \A s \in Calls : refresh'[s] # "none" <=> refresh[s] # "none"
    BY <2>1
  <2>3. ASSUME NEW s \in Calls PROVE RequestInv(s)'
    <3>1. Item("refresh", s) \in failedQueue => s # r /\ refresh[s] = "queued"
      BY <2>1
    <3> QED
      BY <2>1, <2>2, <3>1
  <2> QED
    BY <2>1, <2>2, <2>3
<1>4. ASSUME NEW r \in Calls, ReceiveOk(r) \/ ReceiveError(r) PROVE Rest'
  BY <1>4 DEF ReceiveOk, ReceiveError, Move
<1>5. ASSUME NEW r \in Calls, WaitForRefresh(r) PROVE Rest'
  BY <1>5, ItemsDiffer DEF WaitForRefresh
<1>6. ASSUME NEW r \in Calls, StartRefresh(r) PROVE Rest'
  BY <1>6 DEF StartRefresh
<1>7. ASSUME NEW r \in Calls, RefreshOk(r) PROVE Rest'
  <2>1. refresh[r] = "ok" /\ failedQueue' = {} /\ isRefreshing' = FALSE
    BY <1>7 DEF RefreshOk, SettleAll
  <2>2. \A s \in Calls \ {r} : refresh[s] = "none"
    BY <2>1
  <2>3. ASSUME NEW s \in Calls PROVE refresh'[s] = "none"
    <3>1. s # r => Item("refresh", s) \notin failedQueue
      BY <2>2
    <3> QED
      BY <1>7, <2>2, <3>1 DEF RefreshOk, SettleAll
  <2>4. ASSUME NEW s \in Calls PROVE RequestInv(s)'
    <3>1. CASE s = r \/ Item("call", s) \in failedQueue
      <4>1. call[s].sends = 1 /\ call[s].retry
        BY <2>1, <3>1
      <4>2. call'[s] = Sent(call[s], expiries)
        BY <1>7, <3>1 DEF RefreshOk, SettleAll
      <4>3. call[s] \in CallStates /\ expiries \in 0..MaxExpiries
        OBVIOUS
      <4>4. /\ call'[s].sends = 2 /\ call'[s].retry
            /\ call'[s].stage = "sent"
        BY <4>1, <4>2, <4>3, SentIsTyped
      <4> QED
        BY <2>1, <2>3, <4>4
    <3>2. CASE s # r /\ Item("call", s) \notin failedQueue
      <4>1. call'[s] = call[s]
        BY <1>7, <3>2 DEF RefreshOk, SettleAll
      <4>2. call[s].stage \notin {"queued", "refreshing"}
        BY <2>2, <3>2
      <4> QED
        BY <2>1, <2>3, <4>1, <4>2
    <3> QED
      BY <3>1, <3>2
  <2> QED
    BY <2>1, <2>3, <2>4
<1>8. ASSUME NEW r \in Calls, RefreshFailed(r) PROVE Rest'
  BY <1>8 DEF RefreshFailed, SettleAll
<1>9. ASSUME NEW r \in Calls, RefreshUnauthorized(r) PROVE Rest'
  BY <1>9, ItemsDiffer DEF RefreshUnauthorized
<1>10. ASSUME ExpireAccess \/ EndSession PROVE Rest'
  BY <1>10 DEF ExpireAccess, EndSession, clientVars
<1>11. CASE UNCHANGED vars
  BY <1>11 DEF vars
<1> QED
  BY <1>1, <1>2, <1>3, <1>4, <1>5, <1>6, <1>7, <1>8, <1>9, <1>10, <1>11
     DEF Next, Exchange

LEMMA QueueInvHolds == Spec => []QueueInv
<1>1. Init => QueueInv
  <2> SUFFICES ASSUME Init PROVE QueueInv
    OBVIOUS
  <2>1. TypeOK
    <3>1. 0 \in 0..MaxExpiries
      BY RefreshQueueAssumption
    <3>2. [stage |-> "idle", retry |-> FALSE, sends |-> 0, carried |-> 0]
              \in CallStates
      BY <3>1 DEF CallStates
    <3> QED
      BY <3>1, <3>2 DEF Init, TypeOK, RefreshStages
  <2>2. \A r \in Calls : RequestInv(r)
    BY DEF Init, RequestInv
  <2> QED
    BY <2>1, <2>2 DEF Init, QueueInv
<1> QED
  BY <1>1, QueueStep, PTL DEF Spec

\* However many requests see a 401 at once, one refresh is in flight.
LEMMA OneRefreshHolds == Spec => []OneRefreshInFlight
<1>1. QueueInv => OneRefreshInFlight
  BY DEF QueueInv, OneRefreshInFlight, Pending
<1> QED
  BY <1>1, QueueInvHolds, PTL

\* A request or refresh in the queue has a pending refresh to wait for.
LEMMA NobodyWaitsInVainHolds == Spec => []NobodyWaitsInVain
<1>1. QueueInv => NobodyWaitsInVain
  <2> SUFFICES ASSUME QueueInv PROVE NobodyWaitsInVain
    OBVIOUS
  <2>1. ASSUME failedQueue # {}
        PROVE  \E r \in Pending : call[r].stage = "refreshing"
    <3>1. PICK r \in Calls : refresh[r] # "none"
      BY <2>1 DEF QueueInv
    <3>2. call[r].stage = "refreshing"
      BY <3>1 DEF QueueInv, RequestInv
    <3> QED
      BY <3>1, <3>2 DEF Pending
  <2> QED
    BY <2>1 DEF QueueInv, RequestInv, NobodyWaitsInVain
<1> QED
  BY <1>1, QueueInvHolds, PTL

\* No request is sent more than twice.
LEMMA SentAtMostTwiceHolds == Spec => []SentAtMostTwice
<1>1. QueueInv => SentAtMostTwice
  BY DEF QueueInv, RequestInv, SentAtMostTwice
<1> QED
  BY <1>1, QueueInvHolds, PTL

\* All three: one refresh serves every request that waits and none is sent over and
\* over, for any number of requests.
THEOREM OneRefreshServesAllHolds == Spec => []OneRefreshServesAll
<1>1. OneRefreshInFlight /\ NobodyWaitsInVain /\ SentAtMostTwice => OneRefreshServesAll
  BY DEF OneRefreshServesAll
<1> QED
  BY <1>1, OneRefreshHolds, NobodyWaitsInVainHolds, SentAtMostTwiceHolds, PTL

------------------------------------------------------------------------------
(* The notifications.  That the list follows the server is a matter of what  *)
(* a fetch will bring, and that what was deleted stays away of what the      *)
(* server has deleted already: ListInv and DeletionInv say so for a fetch    *)
(* that is answered, before its answer is the list.                          *)

Answered == fetch \notin {None, NewFetch}

RoomInv ==
    /\ socket \in {"joining", "joined"} => signedIn
    /\ ~deaf => socket = "joined"

ListInv ==
    /\ fetch # None => cache = None \/ stale
    /\ cache # None => cache \subseteq made
    /\ Answered => fetch.answer \in SUBSET made
    /\ Answered /\ ~deaf /\ ~swallowed => kept \subseteq fetch.answer \cup unsent \cup wire
    /\ ListFollowsServer

DeletionInv ==
    /\ hidden \subseteq made /\ deleted \subseteq made /\ deleted \cap kept = {}
    /\ \A n \in Notices : deleting[n] # "no" => n \in made
    /\ \A n \in Notices : deleting[n] = "ok" => n \notin kept
    /\ Answered /\ deleted \cap fetch.answer # {} => swallowed
    /\ cache # None /\ deleted \cap cache # {} => stale \/ swallowed
    /\ \A n \in hidden \cap kept : deleting[n] # "no" \/ n \in failed

InboxInv == InboxTypeOK /\ RoomInv /\ ListInv /\ DeletionInv

LEMMA InboxInvInit == InboxInit => InboxInv
<1> SUFFICES ASSUME InboxInit
             PROVE  InboxInv
  OBVIOUS
<1>1. deleting \in [Notices -> Progress]
  BY DEF InboxInit, Progress
<1>2. InboxTypeOK
  BY <1>1 DEF InboxInit, InboxTypeOK, Progress
<1> QED
  BY <1>1, <1>2 DEF InboxInit, InboxInv, RoomInv, ListInv, DeletionInv, Answered,
                    ListFollowsServer, TakenAsFresh

\* What is fetched is typed, and an answer is a set of notifications.
LEMMA FetchIsTyped ==
    ASSUME InboxTypeOK
    PROVE  /\ NewFetch \in FetchStates /\ NewFetch # None
           /\ \A S \in SUBSET Notices :
                  [answer |-> S] \in FetchStates \ {None, NewFetch} /\ S # None
           /\ Answered => fetch \in FetchStates /\ fetch.answer \in SUBSET Notices
BY NoneIsNoAnswer DEF InboxTypeOK, FetchStates, NewFetch, Answered

\* Creating, sending and removing.
LEMMA ServerSideKeeps ==
    ASSUME InboxInv, NEW n \in Notices,
           (\E bulk \in BOOLEAN : CreateNotice(n, bulk)) \/ Emit(n) \/ RemoveNotice(n)
    PROVE  InboxInv'
<1> USE FetchIsTyped DEF InboxInv, RoomInv, ListInv, DeletionInv, ListFollowsServer,
        TakenAsFresh, socketVars, queryVars, callVars
<1>1. ASSUME NEW bulk \in BOOLEAN, CreateNotice(n, bulk)
      PROVE  InboxInv'
  <2>1. InboxTypeOK'
    BY <1>1 DEF CreateNotice, InboxTypeOK
  <2> QED
    BY <1>1, <2>1 DEF CreateNotice, InboxTypeOK, Answered
<1>2. CASE Emit(n)
  <2>1. InboxTypeOK'
    BY <1>2 DEF Emit, InboxTypeOK
  <2> QED
    BY <1>2, <2>1 DEF Emit, InboxTypeOK, Answered, Hears, Connected
<1>3. CASE RemoveNotice(n)
  <2>1. InboxTypeOK'
    BY <1>3 DEF RemoveNotice, InboxTypeOK
  <2> QED
    BY <1>3, <2>1 DEF RemoveNotice, InboxTypeOK, Answered
<1> QED
  BY <1>1, <1>2, <1>3

\* The socket connects, joins the rooms of the player, or is lost.
LEMMA SocketKeeps ==
    ASSUME InboxInv,
           Connects \/ JoinRooms \/ Drop \/ GiveUp \/ SignIn \/ ChangeTeam
    PROVE  InboxInv'
<1> USE DEF InboxInv, RoomInv, serverVars, queryVars, callVars, Connected, Attached
<1>1. InboxTypeOK'
  BY DEF InboxTypeOK, Connects, JoinRooms, Drop, GiveUp, SignIn, ChangeTeam
<1>2. RoomInv'
  BY DEF InboxTypeOK, Connects, JoinRooms, Drop, GiveUp, SignIn, ChangeTeam
<1>3. /\ UNCHANGED <<serverVars, queryVars, callVars>>
      /\ ~deaf' => ~deaf /\ wire' = wire
  BY DEF InboxTypeOK, Connects, JoinRooms, Drop, GiveUp, SignIn, ChangeTeam
<1>4. ListInv'
  BY <1>3 DEF ListInv, ListFollowsServer, TakenAsFresh, Answered
<1>5. DeletionInv'
  BY <1>3 DEF DeletionInv, Answered
<1> QED
  BY <1>1, <1>2, <1>4, <1>5

\* The page is left: by a logout, or for another page.
LEMMA LeavingKeeps ==
    ASSUME InboxInv, Reload \/ \E clears \in BOOLEAN : SignOut(clears)
    PROVE  InboxInv'
<1> USE DEF InboxInv, RoomInv, ListInv, DeletionInv, ListFollowsServer, TakenAsFresh,
        Answered, serverVars, queryVars, callVars, Connected
<1>1. ASSUME NEW in \in {signedIn, FALSE}, Fresh(in), UNCHANGED serverVars
      PROVE  InboxInv'
  <2>1. deleting' \in [Notices -> Progress] /\ \A n \in Notices : deleting'[n] = "no"
    BY <1>1 DEF Fresh, Progress
  <2>2. InboxTypeOK'
    BY <1>1, <2>1 DEF Fresh, InboxTypeOK, Progress
  <2> QED
    BY <1>1, <2>1, <2>2 DEF Fresh
<1>2. ASSUME NEW clears \in BOOLEAN, SignOut(clears)
      PROVE  InboxInv'
  <2>1. InboxTypeOK'
    BY <1>2 DEF SignOut, InboxTypeOK
  <2> QED
    BY <1>2, <2>1 DEF SignOut, InboxTypeOK
<1> QED
  BY <1>1, <1>2 DEF Reload

\* Whatever is in flight after an invalidation has not been answered, or is marked.
LEMMA InvalidateEffect ==
    ASSUME InboxInv, Invalidate
    PROVE  /\ stale' /\ swallowed' \in BOOLEAN /\ cache' = cache
           /\ fetch' \in FetchStates \cup {None}
           /\ Answered' => Answered /\ fetch' = fetch /\ swallowed'
BY FetchIsTyped DEF InboxInv, InboxTypeOK, Invalidate, Restarts, Answered

LEMMA QueryKeeps ==
    ASSUME InboxInv,
           Mount \/ Unmount \/ Refetch \/ CollectGarbage \/ FetchSucceeds \/ FetchFails
    PROVE  InboxInv'
<1> USE FetchIsTyped DEF InboxInv, RoomInv, ListInv, DeletionInv, ListFollowsServer,
        TakenAsFresh, Answered, serverVars, socketVars, queryVars, callVars
<1>1. CASE Mount
  <2>1. InboxTypeOK'
    BY <1>1 DEF Mount, StartFetch, InboxTypeOK
  <2> QED
    BY <1>1, <2>1 DEF Mount, StartFetch, InboxTypeOK
<1>2. CASE Unmount
  <2>1. InboxTypeOK'
    BY <1>2 DEF Unmount, InboxTypeOK
  <2> QED
    BY <1>2, <2>1 DEF Unmount
<1>3. CASE Refetch
  <2>1. InboxTypeOK'
    BY <1>3 DEF Refetch, StartFetch, InboxTypeOK
  <2> QED
    BY <1>3, <2>1 DEF Refetch, StartFetch, InboxTypeOK
<1>4. CASE CollectGarbage
  <2>1. InboxTypeOK'
    BY <1>4 DEF CollectGarbage, InboxTypeOK
  <2> QED
    BY <1>4, <2>1 DEF CollectGarbage
<1>5. CASE FetchSucceeds
  <2>1. InboxTypeOK'
    BY <1>5 DEF FetchSucceeds, InboxTypeOK
  <2> QED
    BY <1>5, <2>1 DEF FetchSucceeds
<1>6. CASE FetchFails
  <2>1. InboxTypeOK'
    BY <1>6 DEF FetchFails, InboxTypeOK
  <2> QED
    BY <1>6, <2>1 DEF FetchFails
<1> QED
  BY <1>1, <1>2, <1>3, <1>4, <1>5, <1>6

\* The server reads the list: what it read is all it keeps.
LEMMA ServeFetchKeeps ==
    ASSUME InboxInv, ServeFetch
    PROVE  InboxInv'
<1> USE FetchIsTyped DEF InboxInv, RoomInv, serverVars, socketVars, callVars, ServeFetch
<1>1. kept \in SUBSET Notices /\ kept \subseteq made
  BY DEF InboxTypeOK
<1>2. InboxTypeOK' /\ fetch'.answer = kept
  BY <1>1 DEF InboxTypeOK
<1>3. ListInv'
  BY <1>1, <1>2 DEF ListInv, ListFollowsServer, TakenAsFresh, Answered
<1>4. DeletionInv'
  BY <1>1, <1>2 DEF DeletionInv, Answered
<1> QED
  BY <1>2, <1>3, <1>4

\* An event, or an answer, that invalidates the list.
LEMMA InvalidationKeeps ==
    ASSUME InboxInv,
           \/ \E n \in Notices : HandleEvent(n) \/ DeleteSucceeds(n)
           \/ ClearSucceeds
    PROVE  InboxInv'
<1> USE InvalidateEffect DEF InboxInv, RoomInv, ListInv, DeletionInv, ListFollowsServer,
        TakenAsFresh, serverVars, socketVars, queryVars, callVars
<1>1. ASSUME NEW n \in Notices, HandleEvent(n)
      PROVE  InboxInv'
  <2>1. InboxTypeOK'
    BY <1>1 DEF HandleEvent, InboxTypeOK
  <2>2. CASE signedIn
    BY <1>1, <2>1, <2>2 DEF HandleEvent
  <2>3. CASE ~signedIn
    BY <1>1, <2>1, <2>3 DEF HandleEvent, InboxTypeOK, Answered
  <2> QED
    BY <2>2, <2>3
<1>2. ASSUME NEW n \in Notices, DeleteSucceeds(n)
      PROVE  InboxInv'
  <2>1. /\ deleting' \in [Notices -> Progress] /\ deleting'[n] = "no"
        /\ \A m \in Notices \ {n} : deleting'[m] = deleting[m]
    BY <1>2 DEF DeleteSucceeds, InboxTypeOK, Progress
  <2>2. InboxTypeOK'
    BY <1>2, <2>1 DEF DeleteSucceeds, InboxTypeOK
  <2>3. n \in made /\ n \notin kept /\ kept \subseteq Notices
    BY <1>2 DEF DeleteSucceeds, InboxTypeOK
  <2> QED
    BY <1>2, <2>1, <2>2, <2>3 DEF DeleteSucceeds
<1>3. CASE ClearSucceeds
  <2>1. InboxTypeOK'
    BY <1>3 DEF ClearSucceeds, InboxTypeOK, Progress
  <2> QED
    BY <1>3, <2>1 DEF ClearSucceeds
<1> QED
  BY <1>1, <1>2, <1>3

\* The calls of the player, but for the answers that invalidate.
LEMMA PlayerKeeps ==
    ASSUME InboxInv,
           \/ \E n \in Notices : Delete(n) \/ ServeDelete(n) \/ DeleteFails(n)
           \/ Clear \/ ServeClear \/ ClearFails
    PROVE  InboxInv'
<1> USE FetchIsTyped DEF InboxInv, RoomInv, ListInv, DeletionInv, ListFollowsServer,
        TakenAsFresh, Answered, serverVars, socketVars, queryVars, callVars
<1>1. ASSUME NEW n \in Notices, Delete(n)
      PROVE  InboxInv'
  <2>1. /\ deleting' \in [Notices -> Progress] /\ deleting'[n] = "sent"
        /\ \A m \in Notices \ {n} : deleting'[m] = deleting[m]
    BY <1>1 DEF Delete, InboxTypeOK, Progress
  <2>2. InboxTypeOK' /\ n \in made
    BY <1>1, <2>1 DEF Delete, Shown, InboxTypeOK
  <2> QED
    BY <1>1, <2>1, <2>2 DEF Delete, InboxTypeOK
<1>2. ASSUME NEW n \in Notices, ServeDelete(n)
      PROVE  InboxInv'
  <2>1. PICK a \in {"ok", "error"} :
            /\ deleting' = [deleting EXCEPT ![n] = a]
            /\ \/ kept' = kept \ {n}
               \/ a = "error" /\ kept' = kept
    BY <1>2 DEF ServeDelete
  <2>2. /\ deleting' \in [Notices -> Progress] /\ deleting'[n] = a
        /\ \A m \in Notices \ {n} : deleting'[m] = deleting[m]
    BY <1>2, <2>1 DEF InboxTypeOK, Progress
  <2>3. InboxTypeOK' /\ n \in made
    BY <1>2, <2>1, <2>2 DEF ServeDelete, InboxTypeOK
  <2> QED
    BY <1>2, <2>1, <2>2, <2>3 DEF ServeDelete, InboxTypeOK
<1>3. ASSUME NEW n \in Notices, DeleteFails(n)
      PROVE  InboxInv'
  <2>1. /\ deleting' \in [Notices -> Progress] /\ deleting'[n] = "no"
        /\ \A m \in Notices \ {n} : deleting'[m] = deleting[m]
    BY <1>3 DEF DeleteFails, InboxTypeOK, Progress
  <2>2. InboxTypeOK'
    BY <1>3, <2>1 DEF DeleteFails, InboxTypeOK
  <2> QED
    BY <1>3, <2>1, <2>2 DEF DeleteFails, InboxTypeOK
<1>4. CASE Clear \/ ClearFails
  <2>1. InboxTypeOK'
    BY <1>4 DEF Clear, ClearFails, InboxTypeOK, Progress
  <2> QED
    BY <1>4, <2>1 DEF Clear, ClearFails
<1>5. CASE ServeClear
  <2>1. kept' \subseteq kept
    BY <1>5 DEF ServeClear
  <2>2. InboxTypeOK'
    BY <1>5, <2>1 DEF ServeClear, InboxTypeOK, Progress
  <2> QED
    BY <1>5, <2>1, <2>2 DEF ServeClear
<1> QED
  BY <1>1, <1>2, <1>3, <1>4, <1>5

\* The list that is taken as fresh follows the server, and what the player was told
\* is deleted stays away, however events, fetches, deletions and reconnections
\* overlap: for any number of notifications.
THEOREM InboxConsistentHolds == InboxSpec => []InboxConsistent
<1>1. InboxInv /\ UNCHANGED inboxVars => InboxInv'
  BY DEF InboxInv, InboxTypeOK, RoomInv, ListInv, DeletionInv, ListFollowsServer,
         TakenAsFresh, Answered, inboxVars, serverVars, socketVars, queryVars, callVars
<1>2. InboxInv /\ [InboxNext]_inboxVars => InboxInv'
  BY <1>1, ServerSideKeeps, SocketKeeps, LeavingKeeps, QueryKeeps, ServeFetchKeeps,
     InvalidationKeeps, PlayerKeeps DEF InboxNext
<1>3. InboxInv => InboxConsistent
  BY DEF InboxInv, InboxTypeOK, ListInv, DeletionInv, InboxConsistent, DeletedStaysAway,
         Shown
<1> QED
  BY <1>2, <1>3, InboxInvInit, PTL DEF InboxSpec

------------------------------------------------------------------------------
(* The server *)

\* A shutdown that found the startup done has closed the server and every
\* socket at once, and no store has been closed before its turn.
ServerInv ==
    /\ ServerTypeOK
    /\ stop = "no" => ~early /\ http # "closed" /\ (http = "listening" => boot = "done")
    /\ stop = "no" /\ boot = "done" => http = "listening"
    /\ stop # "no" /\ ~early =>
           boot = "done" /\ http = "closed" /\ \A c \in Clients : conn[c] = "closed"
    /\ ~early /\ boot \in {"redis", "sockets", "done"} /\ redis = "none" => stop = "mongo"
    /\ ~early /\ stop = "mongo" => redis = "none"
    /\ ~early /\ exit = "clean" => stop = "mongo" /\ mongo = "down"

LEMMA ServerInvInit == ServerInit => ServerInv
<1> SUFFICES ASSUME ServerInit
             PROVE  ServerInv
  OBVIOUS
<1>1. conn \in [Clients -> {"closed", "open"}] /\ handler \in [Clients -> {"none", "working"}]
  BY DEF ServerInit
<1>2. retryCount \in 0..MaxRetries
  BY ServerAssumption DEF ServerInit
<1>3. ServerTypeOK
  BY <1>1, <1>2 DEF ServerInit, ServerTypeOK
<1> QED
  BY <1>3 DEF ServerInit, ServerInv

LEMMA StartupKeeps ==
    ASSUME ServerInv,
           \/ MongoConnects \/ MongoRefuses \/ BackoffEnds \/ RedisConnects
           \/ SocketsReady \/ StartupFails
    PROVE  ServerInv'
<1> USE ServerAssumption DEF ServerInv, ServerTypeOK, Running, requestVars, storeVars,
        stopVars, bootVars
<1>1. CASE MongoConnects
  BY <1>1 DEF MongoConnects
<1>2. CASE MongoRefuses
  BY <1>2 DEF MongoRefuses, Retries, End
<1>3. CASE BackoffEnds
  BY <1>3 DEF BackoffEnds
<1>4. CASE RedisConnects
  BY <1>4 DEF RedisConnects
<1>5. CASE SocketsReady
  BY <1>5 DEF SocketsReady
<1>6. CASE StartupFails
  BY <1>6 DEF StartupFails, End
<1> QED
  BY <1>1, <1>2, <1>3, <1>4, <1>5, <1>6

LEMMA ServiceKeeps ==
    ASSUME ServerInv,
           \/ \E c \in Clients : Connect(c) \/ Request(c) \/ Answer(c) \/ Hangup(c)
           \/ LoseMongo \/ RecoverMongo \/ LoseRedis \/ RecoverRedis
    PROVE  ServerInv'
<1> USE DEF ServerInv, ServerTypeOK, Running, requestVars, storeVars, stopVars, bootVars
<1>1. ASSUME NEW c \in Clients, Connect(c) \/ Request(c) \/ Answer(c) \/ Hangup(c)
      PROVE  ServerInv'
  BY <1>1 DEF Connect, Request, Answer, Hangup
<1>2. CASE LoseMongo \/ RecoverMongo
  BY <1>2 DEF LoseMongo, RecoverMongo
<1>3. CASE LoseRedis \/ RecoverRedis
  BY <1>3 DEF LoseRedis, RecoverRedis
<1> QED
  BY <1>1, <1>2, <1>3

LEMMA ShutdownKeeps ==
    ASSUME ServerInv,
           \/ \E s \in Signals : Signal(s)
           \/ CloseHttp \/ CloseSockets \/ CloseRedis \/ CloseMongo \/ ForceExit
    PROVE  ServerInv'
<1> USE DEF ServerInv, ServerTypeOK, Running, requestVars, storeVars, stopVars, bootVars
<1>1. ASSUME NEW s \in Signals, Signal(s)
      PROVE  ServerInv'
  BY <1>1 DEF Signal, Arms, Destroyed, Active
<1>2. CASE CloseHttp \/ CloseSockets
  BY <1>2 DEF CloseHttp, CloseSockets
<1>3. CASE CloseRedis
  BY <1>3 DEF CloseRedis
<1>4. CASE CloseMongo
  BY <1>4 DEF CloseMongo
<1>5. CASE ForceExit
  BY <1>5 DEF ForceExit, End
<1> QED
  BY <1>1, <1>2, <1>3, <1>4, <1>5

\* Unless the signal came during the startup, no store is closed before the last
\* socket, and a clean exit leaves nothing open: whatever is lost, recovers or
\* connects meanwhile.
THEOREM ServerConsistentHolds == ServerSpec => []ServerConsistent
<1>1. ServerInv /\ UNCHANGED processVars => ServerInv'
  BY DEF ServerInv, ServerTypeOK, processVars, requestVars, storeVars, stopVars, bootVars
<1>2. ServerInv /\ [ServerNext]_processVars => ServerInv'
  BY <1>1, StartupKeeps, ServiceKeeps, ShutdownKeeps DEF ServerNext
<1>3. ServerInv => ServerConsistent
  BY DEF ServerInv, ServerConsistent, ClosedInOrder
<1> QED
  BY <1>2, <1>3, ServerInvInit, PTL DEF ServerSpec
==============================================================================
