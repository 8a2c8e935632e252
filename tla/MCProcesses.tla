----------------------------- MODULE MCProcesses -----------------------------
(***************************************************************************)
(* The two kinds of process of the system for TLC: the API (Server) and a  *)
(* page of the web client, that is its refresh queue (RefreshQueue) or its *)
(* notifications (Inbox).  None of them reads what another one keeps, so   *)
(* that they run one at a time.                                            *)
(***************************************************************************)
EXTENDS RefreshQueue, Inbox, Server

VARIABLE part   \* which of them runs

ProcessesInit == Init /\ InboxInit /\ ServerInit /\ part \in {"queue", "inbox", "server"}

ProcessesNext ==
    /\ UNCHANGED part
    /\ \/ part = "queue" /\ Next /\ UNCHANGED <<inboxVars, processVars>>
       \/ part = "inbox" /\ InboxNext /\ UNCHANGED <<vars, processVars>>
       \/ part = "server" /\ ServerNext /\ UNCHANGED <<vars, inboxVars>>

\* The fairness of RefreshQueue and of Server.  A part that does not run owes nothing.
ProcessesSpec ==
    /\ ProcessesInit /\ [][ProcessesNext]_<<vars, inboxVars, processVars, part>>
    /\ \A r \in Calls : WF_vars(part = "queue" /\ Exchange(r))
    /\ WF_processVars(part = "server" /\ (MongoConnects \/ MongoRefuses))
    /\ WF_processVars(part = "server" /\ BackoffEnds)
    /\ WF_processVars(part = "server" /\ (RedisConnects \/ SocketsReady \/ StartupFails))
    /\ WF_processVars(part = "server" /\ ForceExit)

\* A startup and a shutdown end (EndsSomehow), where there is a server.
ServerEndsSomehow == part = "server" => EndsSomehow
==============================================================================
