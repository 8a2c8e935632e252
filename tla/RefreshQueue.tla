---------------------------- MODULE RefreshQueue -----------------------------
(***************************************************************************)
(* The web client's token refresh queue: the response interceptor of       *)
(* web/shared/lib/api.ts.  A call answered 401 starts one refresh; calls   *)
(* answered 401 meanwhile wait in failedQueue and are sent again, or given *)
(* up, when the refresh is answered.  The refresh is itself posted through *)
(* the same axios instance, so its answer passes the same interceptor.     *)
(*                                                                         *)
(* JavaScript runs one continuation at a time: each action is one run of   *)
(* the interceptor between two awaits, or a step of the server or of time. *)
(* failedQueue is a set: the order of its items makes no difference, since *)
(* they are all settled in one turn.                                       *)
(***************************************************************************)
EXTENDS Integers, FiniteSets

CONSTANTS
    Calls,          \* bound: the requests the application makes
    MaxExpiries     \* bound: how often the access token expires

ASSUME RefreshQueueAssumption == IsFiniteSet(Calls) /\ MaxExpiries \in Nat

VARIABLES
    call,           \* each request: its stage, _retry, and times sent
    refresh,        \* the refresh that a request started
    isRefreshing,
    failedQueue,
    cookie,         \* the access cookie: expiries when it was issued, so that
                    \*   it is accepted while it equals expiries
    session,        \* does the server accept the refresh cookie
    expiries

clientVars == <<call, refresh, isRefreshing, failedQueue>>
cookieVars == <<cookie, session, expiries>>
vars == <<call, refresh, isRefreshing, failedQueue, cookie, session, expiries>>

------------------------------------------------------------------------------
(* State *)

\* A response that has left the server and not reached the interceptor.
Responses == {"ok", "unauthorized", "error"}

CallStates ==
    [stage : {"idle", "sent", "queued", "refreshing", "resolved", "rejected"}
             \cup Responses,
     retry : BOOLEAN, sends : Nat, carried : 0..MaxExpiries]

RefreshStages == {"none", "sent", "queued"} \cup Responses

\* What waits in failedQueue: a request of the application or a refresh.
Items == [kind : {"call", "refresh"}, owner : Calls]

Item(kind, r) == [kind |-> kind, owner |-> r]

Settled(r) == call[r].stage \in {"resolved", "rejected"}

\* The refreshes that have been posted and not answered to their await.
Pending == {r \in Calls : refresh[r] # "none"}

Init ==
    /\ call = [r \in Calls |-> [stage |-> "idle", retry |-> FALSE, sends |-> 0,
                                carried |-> 0]]
    /\ refresh = [r \in Calls |-> "none"]
    /\ isRefreshing = FALSE
    /\ failedQueue = {}
    /\ cookie = 0
    /\ session = TRUE
    /\ expiries = 0

Move(r, stage) == call' = [call EXCEPT ![r].stage = stage]

\* A request goes out with the cookie that will be in the browser then.
Sent(c, k) ==
    [stage |-> "sent", retry |-> c.retry, sends |-> c.sends + 1, carried |-> k]

------------------------------------------------------------------------------
(* Requests and their answers *)

Send(r) ==
    /\ call[r].stage = "idle"
    /\ call' = [call EXCEPT ![r] = Sent(@, cookie)]
    /\ UNCHANGED <<refresh, isRefreshing, failedQueue, cookieVars>>

\* verifyAuth answers 401 when the access token it was sent has expired; any
\* other failure, a timeout included, is an error.
ServeCall(r) ==
    /\ call[r].stage = "sent"
    /\ \/ Move(r, IF call[r].carried = expiries THEN "ok" ELSE "unauthorized")
       \/ Move(r, "error")
    /\ UNCHANGED <<refresh, isRefreshing, failedQueue, cookieVars>>

\* rotateRefreshToken: new cookies, which the browser has when the answer is
\* there, or 401.
ServeRefresh(r) ==
    /\ refresh[r] = "sent"
    /\ refresh' = [refresh EXCEPT ![r] = IF session THEN "ok" ELSE "unauthorized"]
    /\ UNCHANGED <<call, isRefreshing, failedQueue, cookieVars>>

\* The refresh fails before it reaches the server, or its answer is lost after
\* the server has rotated the token, and the client keeps a used-up cookie.
LoseRefresh(r) ==
    /\ refresh[r] = "sent"
    /\ refresh' = [refresh EXCEPT ![r] = "error"]
    /\ session' \in {session, FALSE}
    /\ UNCHANGED <<call, isRefreshing, failedQueue, cookie, expiries>>

ReceiveOk(r) ==
    /\ call[r].stage = "ok"
    /\ Move(r, "resolved")
    /\ UNCHANGED <<refresh, isRefreshing, failedQueue, cookieVars>>

\* The end of the interceptor: a toast, and the caller's promise rejects.
ReceiveError(r) ==
    /\ \/ call[r].stage = "error"
       \/ call[r].stage = "unauthorized" /\ call[r].retry
    /\ Move(r, "rejected")
    /\ UNCHANGED <<refresh, isRefreshing, failedQueue, cookieVars>>

\* A first 401 while a refresh is in flight.
WaitForRefresh(r) ==
    /\ call[r].stage = "unauthorized" /\ ~call[r].retry
    /\ isRefreshing
    /\ call' = [call EXCEPT ![r].stage = "queued", ![r].retry = TRUE]
    /\ failedQueue' = failedQueue \cup {Item("call", r)}
    /\ UNCHANGED <<refresh, isRefreshing, cookieVars>>

\* Mutants of StartRefresh: it does not look whether one is in flight, or
\* forgets to mark the request.
StartAnyway(r) ==
    /\ call[r].stage = "unauthorized" /\ ~call[r].retry
    /\ isRefreshing' = TRUE
    /\ call' = [call EXCEPT ![r].stage = "refreshing", ![r].retry = TRUE]
    /\ refresh' = [refresh EXCEPT ![r] = "sent"]
    /\ UNCHANGED <<failedQueue, cookieVars>>

StartUnmarked(r) ==
    /\ call[r].stage = "unauthorized" /\ ~isRefreshing
    /\ isRefreshing' = TRUE
    /\ call' = [call EXCEPT ![r].stage = "refreshing"]
    /\ refresh' = [refresh EXCEPT ![r] = "sent"]
    /\ UNCHANGED <<failedQueue, cookieVars>>

\* A first 401 with no refresh in flight.
StartRefresh(r) ==
    /\ call[r].stage = "unauthorized" /\ ~call[r].retry
    /\ ~isRefreshing
    /\ isRefreshing' = TRUE
    /\ call' = [call EXCEPT ![r].stage = "refreshing", ![r].retry = TRUE]
    /\ refresh' = [refresh EXCEPT ![r] = "sent"]
    /\ UNCHANGED <<failedQueue, cookieVars>>

------------------------------------------------------------------------------
(* The answer to the refresh *)

\* processQueue: every item is sent again, or every item rejects; the request
\* that started the refresh goes the same way.
SettleAll(r, ok) ==
    /\ call' = [s \in Calls |->
                 IF s = r \/ Item("call", s) \in failedQueue
                   THEN IF ok THEN Sent(call[s], expiries)
                              ELSE [call[s] EXCEPT !.stage = "rejected"]
                   ELSE call[s]]
    /\ refresh' = [s \in Calls |->
                    IF s = r THEN "none"
                    ELSE IF Item("refresh", s) \in failedQueue
                      THEN IF ok THEN "sent" ELSE "error"
                    ELSE refresh[s]]
    /\ failedQueue' = {}

RefreshOk(r) ==
    /\ refresh[r] = "ok"
    /\ SettleAll(r, TRUE)
    /\ isRefreshing' = FALSE
    /\ cookie' = expiries
    /\ UNCHANGED <<session, expiries>>

\* Mutants of RefreshFailed: the queue is left waiting, or the flag stays up.
FailOwnerOnly(r) ==
    /\ refresh[r] = "error"
    /\ Move(r, "rejected")
    /\ refresh' = [refresh EXCEPT ![r] = "none"]
    /\ isRefreshing' = FALSE
    /\ UNCHANGED <<failedQueue, cookieVars>>

FailKeepingFlag(r) ==
    /\ refresh[r] = "error"
    /\ SettleAll(r, FALSE)
    /\ UNCHANGED <<isRefreshing, cookieVars>>

\* The catch branch: the queue rejects, the store logs out, the page goes to
\* the login form (where the client lives on).
RefreshFailed(r) ==
    /\ refresh[r] = "error"
    /\ SettleAll(r, FALSE)
    /\ isRefreshing' = FALSE
    /\ UNCHANGED cookieVars

\* The refresh is answered 401: it carries no _retry and isRefreshing is up, so
\* the interceptor puts the refresh itself in the queue.
RefreshUnauthorized(r) ==
    /\ refresh[r] = "unauthorized"
    /\ isRefreshing
    /\ refresh' = [refresh EXCEPT ![r] = "queued"]
    /\ failedQueue' = failedQueue \cup {Item("refresh", r)}
    /\ UNCHANGED <<call, isRefreshing, cookieVars>>

------------------------------------------------------------------------------
(* Time and the other devices of the user *)

ExpireAccess ==
    /\ cookie = expiries /\ expiries < MaxExpiries
    /\ expiries' = expiries + 1
    /\ UNCHANGED <<clientVars, cookie, session>>

\* The refresh token expires, or a revocation reaches it.
EndSession ==
    /\ session
    /\ session' = FALSE
    /\ UNCHANGED <<clientVars, cookie, expiries>>

Exchange(r) ==
    \/ ServeCall(r) \/ ServeRefresh(r) \/ LoseRefresh(r)
    \/ ReceiveOk(r) \/ ReceiveError(r) \/ WaitForRefresh(r) \/ StartRefresh(r)
    \/ RefreshOk(r) \/ RefreshFailed(r) \/ RefreshUnauthorized(r)

Next == \/ \E r \in Calls : Send(r) \/ Exchange(r)
        \/ ExpireAccess \/ EndSession

Spec == Init /\ [][Next]_vars

\* A request that was sent is answered or times out after 15 s, and the event
\* loop runs the continuation; nothing obliges the application to send one.
FairSpec == Spec /\ \A r \in Calls : WF_vars(Exchange(r))

------------------------------------------------------------------------------
(* Properties *)

\* Every variable has its type.
TypeOK ==
    /\ call \in [Calls -> CallStates]
    /\ refresh \in [Calls -> RefreshStages]
    /\ isRefreshing \in BOOLEAN
    /\ failedQueue \in SUBSET Items
    /\ cookie \in 0..MaxExpiries /\ session \in BOOLEAN
    /\ expiries \in 0..MaxExpiries

\* However many requests see a 401, one refresh is in flight, and isRefreshing
\* says so ("preventing a thundering herd of refresh calls").
OneRefreshInFlight ==
    /\ \A r, s \in Pending : r = s
    /\ isRefreshing <=> Pending # {}

\* Whatever waits in the queue waits for a refresh that is still pending, and
\* everything that waits is in the queue.
NobodyWaitsInVain ==
    /\ failedQueue # {} => \E r \in Pending : call[r].stage = "refreshing"
    /\ \A r \in Calls : call[r].stage = "queued" => Item("call", r) \in failedQueue

\* "Mark as retry so we don't loop infinitely": no request is sent more than
\* twice, however often the access token expires.
SentAtMostTwice == \A r \in Calls : call[r].sends <= 2

\* One refresh serves everything that waits, nothing waits without one, and nothing
\* is sent over and over.
OneRefreshServesAll == OneRefreshInFlight /\ NobodyWaitsInVain /\ SentAtMostTwice

\* Every request sent is settled, unless a refresh has been answered 401.
SettledUnlessRefused ==
    \A r \in Calls :
        call[r].stage = "sent" ~>
            (Settled(r) \/ \E s \in Calls : refresh[s] = "queued")
==============================================================================
