------------------------------- MODULE Server -------------------------------
(***************************************************************************)
(* The life of the API process (server.ts with db/index.ts, lib/redis.ts   *)
(* and initSocket): the startup connects one service after the other, a    *)
(* signal or an uncaught error starts gracefulShutdown beside whatever     *)
(* runs, and a timer bounds it.                                            *)
(***************************************************************************)
EXTENDS Integers

CONSTANTS
    Clients,    \* each opens connections, one at a time
    Signals,    \* SIGINT and the like, and uncaught errors: each comes once
    MaxRetries  \* MAX_RETRIES of connectDB

ASSUME ServerAssumption == MaxRetries \in Nat

VARIABLES
    boot,       \* what the startup awaits
    retryCount,
    stop,       \* what gracefulShutdown awaits, "no" before it runs
    timer,      \* forceExitTimer is set
    signalled,  \* the signals that came
    exit,       \* how the process ended
    mongo,      \* the connection of mongoose
    redis,      \* _mainClient
    http,       \* httpServer
    conn,       \* the socket of each client
    handler,    \* whether it has a request that is being handled
    early       \* history: the shutdown began before the startup had ended

bootVars == <<boot, retryCount>>
stopVars == <<stop, timer, signalled, early>>
storeVars == <<mongo, redis>>
requestVars == <<conn, handler>>
processVars == <<bootVars, stopVars, exit, storeVars, http, requestVars>>

ServerTypeOK ==
    /\ boot \in {"mongo", "backoff", "redis", "sockets", "done"}
    /\ retryCount \in 0..MaxRetries
    /\ stop \in {"no", "http", "io", "redis", "mongo"}
    /\ timer \in BOOLEAN
    /\ signalled \subseteq Signals
    /\ exit \in {"no", "clean", "failed", "forced"}
    /\ mongo \in {"down", "up"}
    /\ redis \in {"none", "connecting", "up", "lost"}
    /\ http \in {"new", "listening", "closed"}
    /\ conn \in [Clients -> {"closed", "open"}]
    /\ handler \in [Clients -> {"none", "working"}]
    /\ early \in BOOLEAN

ServerInit ==
    /\ boot = "mongo" /\ retryCount = 0
    /\ stop = "no" /\ timer = FALSE /\ signalled = {} /\ early = FALSE
    /\ exit = "no"
    /\ mongo = "down" /\ redis = "none"
    /\ http = "new"
    /\ conn = [c \in Clients |-> "closed"]
    /\ handler = [c \in Clients |-> "none"]

Running == exit = "no"

\* process.exit: what the process held is gone.
End(how) ==
    /\ exit' = how
    /\ UNCHANGED <<bootVars, stopVars, storeVars, http, requestVars>>

-----------------------------------------------------------------------------
(* Startup                                                                  *)

\* connectRedis builds its client before it connects it.
MongoConnects ==
    /\ Running /\ boot = "mongo"
    /\ mongo' = "up"
    /\ retryCount' = 0
    /\ boot' = "redis"
    /\ redis' = "connecting"
    /\ UNCHANGED <<stopVars, exit, http, requestVars>>

\* Mutant of Retries: every failure starts the count again.
RetriesForever == retryCount' = 0 /\ boot' = "backoff"

Retries == retryCount' = retryCount + 1 /\ boot' = "backoff"

MongoRefuses ==
    /\ Running /\ boot = "mongo"
    /\ IF retryCount < MaxRetries
       THEN Retries /\ UNCHANGED <<stopVars, exit, storeVars, http, requestVars>>
       ELSE End("failed")

BackoffEnds ==
    /\ Running /\ boot = "backoff"
    /\ boot' = "mongo"
    /\ UNCHANGED <<retryCount, stopVars, exit, storeVars, http, requestVars>>

\* A client that the shutdown has disconnected cannot connect any more.
RedisConnects ==
    /\ Running /\ boot = "redis" /\ redis = "connecting"
    /\ redis' = "up"
    /\ boot' = "sockets"
    /\ UNCHANGED <<retryCount, stopVars, exit, mongo, http, requestVars>>

\* initSocket is done: the mail service needs no answer, and the server listens,
\* whether or not it has been closed in the meantime.
SocketsReady ==
    /\ Running /\ boot = "sockets"
    /\ boot' = "done"
    /\ http' = "listening"
    /\ UNCHANGED <<retryCount, stopVars, exit, storeVars, requestVars>>

StartupFails ==
    /\ Running /\ boot \in {"redis", "sockets"}
    /\ End("failed")

-----------------------------------------------------------------------------
(* Service                                                                  *)

Connect(c) ==
    /\ Running /\ http = "listening" /\ conn[c] = "closed" /\ handler[c] = "none"
    /\ conn' = [conn EXCEPT ![c] = "open"]
    /\ UNCHANGED <<bootVars, stopVars, exit, storeVars, http, handler>>

Request(c) ==
    /\ Running /\ conn[c] = "open" /\ handler[c] = "none"
    /\ handler' = [handler EXCEPT ![c] = "working"]
    /\ UNCHANGED <<bootVars, stopVars, exit, storeVars, http, conn>>

\* The handler returns, with an error if a store is gone.  The answer reaches the
\* client if the socket is still open.
Answer(c) ==
    /\ Running /\ handler[c] = "working"
    /\ handler' = [handler EXCEPT ![c] = "none"]
    /\ UNCHANGED <<bootVars, stopVars, exit, storeVars, http, conn>>

Hangup(c) ==
    /\ Running /\ conn[c] = "open"
    /\ conn' = [conn EXCEPT ![c] = "closed"]
    /\ UNCHANGED <<bootVars, stopVars, exit, storeVars, http, handler>>

\* Both drivers notice a lost connection and connect again on their own; Redis
\* is given up after ten attempts.
LoseMongo ==
    /\ Running /\ mongo = "up"
    /\ mongo' = "down"
    /\ UNCHANGED <<bootVars, stopVars, exit, redis, http, requestVars>>

RecoverMongo ==
    /\ Running /\ boot \notin {"mongo", "backoff"} /\ mongo = "down"
    /\ mongo' = "up"
    /\ UNCHANGED <<bootVars, stopVars, exit, redis, http, requestVars>>

LoseRedis ==
    /\ Running /\ redis = "up"
    /\ redis' = "lost"
    /\ UNCHANGED <<bootVars, stopVars, exit, mongo, http, requestVars>>

RecoverRedis ==
    /\ Running /\ redis = "lost"
    /\ redis' = "up"
    /\ UNCHANGED <<bootVars, stopVars, exit, mongo, http, requestVars>>

-----------------------------------------------------------------------------
(* gracefulShutdown                                                         *)

\* The sockets with _isActive.  The middleware that sets it is added behind the
\* 404 handler of index.ts, which answers whatever no route has answered, so no
\* request reaches it.
Active == {}

Destroyed == [c \in Clients |-> IF c \in Active THEN conn[c] ELSE "closed"]

\* Mutant of Arms.
ArmsLate == timer' = FALSE

Arms == timer' = TRUE

\* A duplicate is ignored.
Signal(s) ==
    /\ Running /\ s \notin signalled
    /\ signalled' = signalled \cup {s}
    /\ IF stop # "no"
       THEN UNCHANGED <<stop, timer, early, conn, http>>
       ELSE /\ stop' = "http"
            /\ Arms
            /\ early' = (boot # "done")
            /\ http' = IF http = "listening" THEN "closed" ELSE http
            /\ conn' = Destroyed
    /\ UNCHANGED <<bootVars, exit, storeVars, handler>>

\* Mutant of CloseHttp: the stores first.
CloseStoresFirst ==
    /\ Running /\ stop = "http"
    /\ redis' = "none"
    /\ stop' = "io"
    /\ UNCHANGED <<timer, signalled, early, bootVars, exit, mongo, http, requestVars>>

\* httpServer.close calls back when its last socket is closed; at once, with an
\* error, when the server was not listening.  Then io.close closes the server it
\* is attached to once more.
CloseHttp ==
    /\ Running /\ stop = "http"
    /\ http = "closed" => \A c \in Clients : conn[c] = "closed"
    /\ stop' = "io"
    /\ http' = IF http = "listening" THEN "closed" ELSE http
    /\ UNCHANGED <<timer, signalled, early, bootVars, exit, storeVars, requestVars>>

\* io.close calls back like the server, or never; before initSocket has ended
\* there is nothing to close.  The mail transporter needs no answer.
CloseSockets ==
    /\ Running /\ stop = "io"
    /\ http = "closed" => \A c \in Clients : conn[c] = "closed"
    /\ stop' = "redis"
    /\ UNCHANGED <<timer, signalled, early, bootVars, exit, storeVars, http, requestVars>>

\* A command times out, and then the client is disconnected.
CloseRedis ==
    /\ Running /\ stop = "redis"
    /\ redis' = "none"
    /\ stop' = "mongo"
    /\ UNCHANGED <<timer, signalled, early, bootVars, exit, mongo, http, requestVars>>

\* The close may never be answered, and is not asked for without a connection.
\* Nothing is awaited between it and the exit.
CloseMongo ==
    /\ Running /\ stop = "mongo"
    /\ mongo' = "down"
    /\ timer' = FALSE
    /\ exit' = "clean"
    /\ UNCHANGED <<stop, signalled, early, bootVars, redis, http, requestVars>>

ForceExit ==
    /\ Running /\ timer
    /\ End("forced")

ServerNext ==
    \/ MongoConnects \/ MongoRefuses \/ BackoffEnds \/ RedisConnects
    \/ SocketsReady \/ StartupFails
    \/ \E c \in Clients : Connect(c) \/ Request(c) \/ Answer(c) \/ Hangup(c)
    \/ LoseMongo \/ RecoverMongo \/ LoseRedis \/ RecoverRedis
    \/ \E s \in Signals : Signal(s)
    \/ CloseHttp \/ CloseSockets \/ CloseRedis \/ CloseMongo \/ ForceExit

ServerSpec == ServerInit /\ [][ServerNext]_processVars

\* An attempt to connect succeeds or fails, and timers fire.  Neither the clients
\* nor the closing of a service owe anything.
ServerFairSpec ==
    /\ ServerSpec
    /\ WF_processVars(MongoConnects \/ MongoRefuses)
    /\ WF_processVars(BackoffEnds)
    /\ WF_processVars(RedisConnects \/ SocketsReady \/ StartupFails)
    /\ WF_processVars(ForceExit)

-----------------------------------------------------------------------------
(* Properties                                                               *)

\* Unless the signal came during the startup, the stores are closed behind the
\* last socket: no client is connected while they are, or is told of an error
\* that the shutdown caused, and a clean exit leaves nothing open.
ClosedInOrder ==
    ~ early =>
        /\ stop \in {"redis", "mongo"} =>
               http = "closed" /\ \A c \in Clients : conn[c] = "closed"
        /\ boot = "done" /\ redis = "none" => stop = "mongo"
        /\ exit = "clean" => redis = "none" /\ mongo = "down"

ServerConsistent == ServerTypeOK /\ ClosedInOrder

\* A shutdown ends, even when a service never closes, and a startup ends in
\* service or in an exit, however often the database refuses.
ShutdownEnds == stop # "no" ~> exit # "no"
StartupEnds == <>(boot = "done" \/ exit # "no")
EndsSomehow == ShutdownEnds /\ StartupEnds
=============================================================================
