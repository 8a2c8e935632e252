-------------------------------- MODULE Inbox --------------------------------
(***************************************************************************)
(* The notification list of one page of one player: the socket that tells  *)
(* it of new notifications (SocketProvider.tsx, socket.ts, and the rooms   *)
(* of socket.gateway.ts), the cached query behind it (useNotifications,    *)
(* with staleTime Infinity) and the notifications the page hides before    *)
(* the server has deleted them (notification.store.ts).                    *)
(*                                                                         *)
(* The listeners of the hooks invalidate what the provider's listener      *)
(* invalidates as well, and are left out.  The calls are those of the      *)
(* NotifCard, which deletes broadcasts too, and of the BulkActionsBar.     *)
(***************************************************************************)
EXTENDS Integers, FiniteSets

CONSTANTS
    Personal,   \* the notifications to the player
    Broadcasts, \* the notifications to everyone
    MaxNotices, \* bound: notifications in all
    None

ASSUME InboxAssumption == Personal \cap Broadcasts = {} /\ MaxNotices \in Nat

VARIABLES
    made,       \* the notifications created so far
    kept,       \* those among them that the server lists for the player
    unsent,     \* those whose event has not been emitted yet
    signedIn,   \* user of the auth store
    socket,     \* the singleton: "open" is in the global room, "joined" in the player's
    wire,       \* events under way to the page
    mounted,    \* is the list on the screen
    cache,      \* the data of the query
    stale,      \* isInvalidated, or the last fetch failed
    fetch,      \* the fetch in flight, with what the server answered
    hidden,     \* optimisticDeletedIds
    deleting,   \* the deletion of each notification
    clearing,
    \* History
    deaf,       \* since the server last read the list, an event may have passed the page by
    swallowed,  \* an invalidation did not restart the fetch that was in flight
    failed,     \* deletions that were answered with an error
    deleted     \* deletions that were answered with success

Notices == Personal \cup Broadcasts

serverVars == <<made, kept, unsent>>
socketVars == <<signedIn, socket, wire>>
queryVars == <<cache, stale, fetch, swallowed>>
callVars == <<hidden, deleting, clearing, failed, deleted>>
inboxVars == <<serverVars, socketVars, mounted, queryVars, callVars, deaf>>

FetchStates == [answer : (SUBSET Notices) \cup {None}]

ASSUME NoneIsNoAnswer ==
    /\ \A list \in SUBSET Notices : list # None
    /\ \A f \in FetchStates : f # None

Progress == {"no", "sent", "ok", "error"}
Connected == {"open", "joining", "joined"}

InboxTypeOK ==
    /\ kept \subseteq made /\ unsent \subseteq made /\ made \subseteq Notices
    /\ signedIn \in BOOLEAN
    /\ socket \in {"none", "idle", "connecting"} \cup Connected
    /\ wire \subseteq made
    /\ mounted \in BOOLEAN
    /\ cache \in (SUBSET Notices) \cup {None}
    /\ stale \in BOOLEAN
    /\ fetch \in FetchStates \cup {None}
    /\ hidden \subseteq Notices
    /\ deleting \in [Notices -> Progress]
    /\ clearing \in Progress
    /\ {deaf, swallowed} \subseteq BOOLEAN
    /\ failed \subseteq Notices /\ deleted \subseteq Notices

\* What a page starts from, when it is loaded with or without a session.
Fresh(in) ==
    /\ signedIn' = in
    /\ socket' = IF in THEN "connecting" ELSE "none"
    /\ wire' = {}
    /\ mounted' = FALSE
    /\ cache' = None /\ stale' = FALSE /\ fetch' = None
    /\ hidden' = {} /\ deleting' = [n \in Notices |-> "no"] /\ clearing' = "no"
    /\ deaf' = TRUE /\ swallowed' = FALSE /\ failed' = {} /\ deleted' = {}

InboxInit ==
    /\ made = {} /\ kept = {} /\ unsent = {}
    /\ signedIn = FALSE /\ socket = "none" /\ wire = {}
    /\ mounted = FALSE
    /\ cache = None /\ stale = FALSE /\ fetch = None
    /\ hidden = {} /\ deleting = [n \in Notices |-> "no"] /\ clearing = "no"
    /\ deaf = TRUE /\ swallowed = FALSE /\ failed = {} /\ deleted = {}

-----------------------------------------------------------------------------
(* The server                                                               *)

\* create, which emits an event, or createBulk, which does not.
CreateNotice(n, bulk) ==
    /\ n \notin made /\ Cardinality(made) < MaxNotices
    /\ bulk => n \in Personal
    /\ made' = made \cup {n}
    /\ kept' = kept \cup {n}
    /\ unsent' = IF bulk THEN unsent ELSE unsent \cup {n}
    /\ deaf' = (deaf \/ bulk)
    /\ UNCHANGED <<socketVars, mounted, queryVars, callVars>>

\* newNotification: to the player's room, or to the global one.
Hears(n) == socket \in (IF n \in Broadcasts THEN Connected ELSE {"joined"})

\* safeEmit hides that an event could not be sent.
Emit(n) ==
    /\ n \in unsent
    /\ unsent' = unsent \ {n}
    /\ \/ Hears(n) /\ wire' = wire \cup {n} /\ UNCHANGED deaf
       \/ ~ Hears(n) /\ UNCHANGED <<wire, deaf>>
       \/ deaf' = TRUE /\ UNCHANGED wire
    /\ UNCHANGED <<made, kept, signedIn, socket, mounted, queryVars, callVars>>

\* An administrator, the TTL index, or another page of the player.
RemoveNotice(n) ==
    /\ n \in kept
    /\ kept' = kept \ {n}
    /\ UNCHANGED <<made, unsent, socketVars, mounted, queryVars, callVars, deaf>>

-----------------------------------------------------------------------------
(* The socket                                                               *)

\* The handler of "connect", which emits room:join, is there while a player is
\* signed in.
Connects ==
    /\ socket = "connecting"
    /\ socket' = IF signedIn THEN "joining" ELSE "open"
    /\ UNCHANGED <<serverVars, signedIn, wire, mounted, queryVars, callVars, deaf>>

JoinRooms ==
    /\ socket = "joining"
    /\ socket' = "joined"
    /\ UNCHANGED <<serverVars, signedIn, wire, mounted, queryVars, callVars, deaf>>

\* The manager connects again; what was under way is lost.
Drop ==
    /\ socket \in Connected
    /\ socket' = "connecting"
    /\ wire' = {}
    /\ deaf' = TRUE
    /\ UNCHANGED <<serverVars, signedIn, mounted, queryVars, callVars>>

\* reconnectionAttempts are used up.
GiveUp ==
    /\ socket = "connecting"
    /\ socket' = "idle"
    /\ UNCHANGED <<serverVars, signedIn, wire, mounted, queryVars, callVars, deaf>>

\* The effect of SocketProvider, when the player signs in or changes teams: a
\* socket that is connected is left as it is, in the rooms it is in.
Attached == IF socket \in Connected THEN socket ELSE "connecting"

SignIn ==
    /\ ~ signedIn
    /\ signedIn' = TRUE
    /\ socket' = Attached
    /\ UNCHANGED <<serverVars, wire, mounted, queryVars, callVars, deaf>>

ChangeTeam ==
    /\ signedIn
    /\ socket' = Attached
    /\ UNCHANGED <<serverVars, signedIn, wire, mounted, queryVars, callVars, deaf>>

\* A socket that is not connected is not disconnected: it goes on connecting.
\* useLogout clears the query cache; the logout of the administration, and the one
\* that follows a failed /auth/me, do not.
SignOut(clears) ==
    /\ signedIn
    /\ signedIn' = FALSE
    /\ socket' = IF socket \in Connected THEN "none" ELSE socket
    /\ wire' = {}
    /\ deaf' = TRUE
    /\ mounted' = FALSE
    /\ IF clears
       THEN cache' = None /\ stale' = FALSE /\ fetch' = None /\ swallowed' = FALSE
       ELSE UNCHANGED queryVars
    /\ UNCHANGED <<serverVars, callVars>>

\* Also when the session ends: redirectToLogin loads another page.
Reload ==
    /\ \E in \in {signedIn, FALSE} : Fresh(in)
    /\ UNCHANGED serverVars

-----------------------------------------------------------------------------
(* The query                                                                *)

NewFetch == [answer |-> None]

\* Mutant of Restarts: the fetch in flight is good enough.
RestartsIdle == mounted /\ fetch = None

\* invalidateQueries fetches at once what is on the screen, and cancels the fetch in
\* flight; except the first one, which it joins.
Restarts == mounted /\ (fetch = None \/ cache # None)

Invalidate ==
    /\ stale' = TRUE
    /\ fetch' = IF Restarts THEN NewFetch ELSE fetch
    /\ swallowed' = \/ fetch \notin {None, NewFetch} /\ (cache = None \/ ~ mounted)
                    \/ swallowed /\ ~ Restarts
    /\ UNCHANGED cache

\* "notification:new"; nobody listens while no player is signed in.
HandleEvent(n) ==
    /\ n \in wire
    /\ wire' = wire \ {n}
    /\ IF signedIn THEN Invalidate ELSE UNCHANGED queryVars
    /\ UNCHANGED <<serverVars, signedIn, socket, mounted, callVars, deaf>>

StartFetch ==
    /\ fetch' = NewFetch
    /\ swallowed' = FALSE
    /\ UNCHANGED <<cache, stale>>

Mount ==
    /\ signedIn /\ ~ mounted
    /\ mounted' = TRUE
    /\ IF fetch = None /\ (cache = None \/ stale) THEN StartFetch ELSE UNCHANGED queryVars
    /\ UNCHANGED <<serverVars, socketVars, callVars, deaf>>

\* The fetch in flight goes on.
Unmount ==
    /\ mounted
    /\ mounted' = FALSE
    /\ UNCHANGED <<serverVars, socketVars, queryVars, callVars, deaf>>

\* The window gets the focus, or "Try again": fresh data is left alone.
Refetch ==
    /\ mounted /\ fetch = None /\ (cache = None \/ stale)
    /\ StartFetch
    /\ UNCHANGED <<serverVars, socketVars, mounted, callVars, deaf>>

\* Data nobody looks at for five minutes is dropped.
CollectGarbage ==
    /\ ~ mounted /\ cache # None /\ fetch = None
    /\ cache' = None /\ stale' = FALSE /\ swallowed' = FALSE
    /\ UNCHANGED <<fetch, serverVars, socketVars, mounted, callVars, deaf>>

\* getMyNotifications.
ServeFetch ==
    /\ fetch = NewFetch
    /\ fetch' = [answer |-> kept]
    /\ deaf' = (socket # "joined")
    /\ UNCHANGED <<serverVars, socketVars, mounted, cache, stale, swallowed, callVars>>

\* The data is fresh, whatever was invalidated in the meantime.
FetchSucceeds ==
    /\ fetch \notin {None, NewFetch}
    /\ cache' = fetch.answer
    /\ stale' = FALSE
    /\ fetch' = None
    /\ UNCHANGED <<serverVars, socketVars, mounted, swallowed, callVars, deaf>>

FetchFails ==
    /\ fetch # None
    /\ stale' = TRUE
    /\ fetch' = None
    /\ UNCHANGED <<cache, swallowed, serverVars, socketVars, mounted, callVars, deaf>>

-----------------------------------------------------------------------------
(* The player                                                               *)

Shown == IF cache = None THEN {} ELSE cache \ hidden

\* useDeleteNotification, for a broadcast too.
Delete(n) ==
    /\ mounted /\ n \in Shown
    /\ deleting[n] = "no"
    /\ deleting' = [deleting EXCEPT ![n] = "sent"]
    /\ hidden' = hidden \cup {n}
    /\ UNCHANGED <<clearing, failed, deleted, serverVars, socketVars, mounted, queryVars, deaf>>

\* deleteMyNotification finds what is sent to the player alone.  The call may fail
\* before it does, and its answer may be lost.
ServeDelete(n) ==
    /\ deleting[n] = "sent"
    /\ \/ /\ n \in Personal \cap kept
          /\ kept' = kept \ {n}
          /\ deleting' \in {[deleting EXCEPT ![n] = a] : a \in {"ok", "error"}}
       \/ deleting' = [deleting EXCEPT ![n] = "error"] /\ UNCHANGED kept
    /\ UNCHANGED <<made, unsent, socketVars, mounted, queryVars, hidden, clearing, failed,
                   deleted, deaf>>

\* Mutant of DeleteSucceeds: nothing is fetched again.
DeleteSucceedsQuietly(n) ==
    /\ deleting[n] = "ok"
    /\ deleting' = [deleting EXCEPT ![n] = "no"]
    /\ deleted' = deleted \cup {n}
    /\ UNCHANGED <<hidden, clearing, failed, serverVars, socketVars, mounted, queryVars, deaf>>

DeleteSucceeds(n) ==
    /\ deleting[n] = "ok"
    /\ deleting' = [deleting EXCEPT ![n] = "no"]
    /\ deleted' = deleted \cup {n}
    /\ Invalidate
    /\ UNCHANGED <<hidden, clearing, failed, serverVars, socketVars, mounted, deaf>>

\* A message, and nothing else: the notification stays hidden.
DeleteFails(n) ==
    /\ deleting[n] = "error"
    /\ deleting' = [deleting EXCEPT ![n] = "no"]
    /\ failed' = failed \cup {n}
    /\ UNCHANGED <<hidden, clearing, deleted, serverVars, socketVars, mounted, queryVars, deaf>>

Clear ==
    /\ mounted /\ clearing = "no"
    /\ clearing' = "sent"
    /\ UNCHANGED <<hidden, deleting, failed, deleted, serverVars, socketVars, mounted,
                   queryVars, deaf>>

\* clearMyInbox.
ServeClear ==
    /\ clearing = "sent"
    /\ \/ kept' = kept \ Personal /\ clearing' \in {"ok", "error"}
       \/ clearing' = "error" /\ UNCHANGED kept
    /\ UNCHANGED <<made, unsent, socketVars, mounted, queryVars, hidden, deleting, failed,
                   deleted, deaf>>

\* clearOptimistic: also what is being deleted at the moment.
ClearSucceeds ==
    /\ clearing = "ok"
    /\ clearing' = "no"
    /\ hidden' = {}
    /\ Invalidate
    /\ UNCHANGED <<deleting, failed, deleted, serverVars, socketVars, mounted, deaf>>

ClearFails ==
    /\ clearing = "error"
    /\ clearing' = "no"
    /\ UNCHANGED <<hidden, deleting, failed, deleted, serverVars, socketVars, mounted,
                   queryVars, deaf>>

InboxNext ==
    \/ \E n \in Notices :
        \/ \E bulk \in BOOLEAN : CreateNotice(n, bulk)
        \/ Emit(n) \/ RemoveNotice(n) \/ HandleEvent(n)
        \/ Delete(n) \/ ServeDelete(n) \/ DeleteSucceeds(n) \/ DeleteFails(n)
    \/ Connects \/ JoinRooms \/ Drop \/ GiveUp
    \/ SignIn \/ ChangeTeam \/ Reload
    \/ \E clears \in BOOLEAN : SignOut(clears)
    \/ Mount \/ Unmount \/ Refetch \/ CollectGarbage
    \/ ServeFetch \/ FetchSucceeds \/ FetchFails
    \/ Clear \/ ServeClear \/ ClearSucceeds \/ ClearFails

InboxSpec == InboxInit /\ [][InboxNext]_inboxVars

-----------------------------------------------------------------------------
(* Properties                                                               *)

\* The data that is shown will not be fetched again by itself.
TakenAsFresh == cache # None /\ ~ stale

\* A list that the page takes as fresh shows every notification of the player, but
\* for those whose event is still to come: although it is fetched only when an event
\* says so, and fetches overlap with events.  Unless the socket has not stayed in the
\* player's room since the list was read, notifications were created in bulk or an
\* event was not sent, or an event came while the list was loaded for the first time,
\* or was loaded for a page that had been left.
ListFollowsServer ==
    TakenAsFresh /\ ~ deaf /\ ~ swallowed => kept \subseteq cache \cup unsent \cup wire

\* What the player was told is deleted appears on the page only while it is fetched
\* again, or the answer to such a fetch was taken for a newer one.  What the page
\* hides and the server keeps is being deleted, or its deletion failed: that is never
\* tried again and never undone.
DeletedStaysAway ==
    /\ deleted \cap Shown # {} => stale \/ swallowed
    /\ \A n \in hidden \cap kept : deleting[n] # "no" \/ n \in failed

\* The list of notifications as the page keeps it.
InboxConsistent ==
    /\ InboxTypeOK
    /\ ListFollowsServer
    /\ DeletedStaysAway
=============================================================================
