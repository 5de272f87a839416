------------------------------- MODULE Server -------------------------------
(***************************************************************************)
(* One API process, from start to exit and again: main() of server.js, the *)
(* connection to MongoDB and its readiness flag, the requests at work, and *)
(* the graceful shutdown with its forced end.                              *)
(*                                                                         *)
(* A request is known by its connection.  Its client may go away before    *)
(* the answer; the handler goes on all the same.  Times are left out: the  *)
(* ten seconds of grace may pass at any moment of a shutdown, for requests *)
(* may take thirty.                                                        *)
(***************************************************************************)
EXTENDS Naturals

CONSTANT Conns  \* connections

VARIABLES
    phase,      \* of the process
    code,       \* its exit code
    cause,      \* what began the shutdown
    driver,     \* mongoose's readyState is 1
    connected,  \* the flag of db/mongo.js
    errored,    \* the driver reported an error after its last `connected`
    conn,       \* connections of clients
    work        \* the handler of each connection's last request

mongo == <<driver, connected, errored>>
vars == <<phase, code, cause, mongo, conn, work>>

Phases == {"booting", "serving", "stopping", "closing", "exited"}

TypeOK ==
    /\ phase \in Phases
    /\ code \in {0, 1}
    /\ cause \in {"none", "signal", "uncaught", "listen"}
    /\ driver \in BOOLEAN /\ connected \in BOOLEAN /\ errored \in BOOLEAN
    /\ connected => driver
    /\ conn \in [Conns -> {"closed", "idle", "open"}]
    /\ work \in [Conns -> {"none", "working", "written", "stuck"}]
    /\ \A c \in Conns : conn[c] = "open" <=> conn[c] # "closed" /\ work[c] # "none"
    /\ (phase = "serving") = (cause = "none" /\ phase \notin {"booting", "exited"})

Init ==
    /\ phase = "booting" /\ code = 0 /\ cause = "none"
    /\ driver = FALSE /\ connected = FALSE /\ errored = FALSE
    /\ conn = [c \in Conns |-> "closed"]
    /\ work = [c \in Conns |-> "none"]

-----------------------------------------------------------------------------
(* Start and exit.                                                         *)

Exit(with) == phase' = "exited" /\ code' = with

\* The configuration is refused, MongoDB is not to be found, or a signal comes
\* before there is a handler for it.
AbortBoot ==
    /\ phase = "booting"
    /\ Exit(1)
    /\ UNCHANGED <<cause, mongo, conn, work>>

\* A mutant: the events are listened for once mongoose.connect has returned.
FlagMissed == FALSE

FlagOnConnected == TRUE

\* connectMongo(), then listen().  A port that cannot be had is an uncaught
\* `error` event, for which there is a handler by then.
Start ==
    /\ phase = "booting"
    /\ driver' = TRUE /\ connected' = FlagOnConnected /\ errored' = FALSE
    /\ \/ phase' = "serving" /\ UNCHANGED cause
       \/ phase' = "stopping" /\ cause' = "listen"
    /\ UNCHANGED <<code, conn, work>>

\* The container runtime starts the process again, with nothing kept.
Restart ==
    /\ phase = "exited"
    /\ phase' = "booting" /\ code' = 0 /\ cause' = "none"
    /\ driver' = FALSE /\ connected' = FALSE /\ errored' = FALSE
    /\ conn' = [c \in Conns |-> "closed"]
    /\ work' = [c \in Conns |-> "none"]

-----------------------------------------------------------------------------
(* The driver's events.                                                    *)

Started == phase \in {"serving", "stopping", "closing"}

Reconnected ==
    /\ Started /\ ~driver
    /\ driver' = TRUE /\ connected' = TRUE /\ errored' = FALSE
    /\ UNCHANGED <<phase, code, cause, conn, work>>

\* A mutant: the flag follows `connected` only.
FlagKept == connected

FlagOnDisconnected == FALSE

Disconnected ==
    /\ Started /\ driver
    /\ driver' = FALSE /\ connected' = FlagOnDisconnected
    /\ UNCHANGED <<phase, code, cause, errored, conn, work>>

DriverError ==
    /\ Started
    /\ connected' = FALSE /\ errored' = TRUE
    /\ UNCHANGED <<phase, code, cause, driver, conn, work>>

IsMongoReady == connected /\ driver

-----------------------------------------------------------------------------
(* Requests.                                                               *)

\* A new connection while the server listens, or one that is kept alive.
Request(c) ==
    /\ Started /\ work[c] = "none"
    /\ conn[c] = "idle" \/ (conn[c] = "closed" /\ phase = "serving")
    /\ conn' = [conn EXCEPT ![c] = "open"]
    /\ work' = [work EXCEPT ![c] = "working"]
    /\ UNCHANGED <<phase, code, cause, mongo>>

\* A handler changes a document, and has its audit entry still to append.
Write(c) ==
    /\ Started /\ work[c] = "working"
    /\ driver
    /\ work' = [work EXCEPT ![c] = "written"]
    /\ UNCHANGED <<phase, code, cause, mongo, conn>>

\* The handler comes to its end; the connection is kept alive, or not.
Finish(c) ==
    /\ Started /\ work[c] \in {"working", "written"}
    /\ work' = [work EXCEPT ![c] = "none"]
    /\ IF conn[c] = "open"
       THEN conn' \in {[conn EXCEPT ![c] = "idle"], [conn EXCEPT ![c] = "closed"]}
       ELSE UNCHANGED conn
    /\ UNCHANGED <<phase, code, cause, mongo>>

\* keepAliveTimeout, or the client closes; its request, if any, goes on.
Close(c) ==
    /\ Started /\ conn[c] # "closed"
    /\ conn' = [conn EXCEPT ![c] = "closed"]
    /\ UNCHANGED <<phase, code, cause, mongo, work>>

-----------------------------------------------------------------------------
(* Shutdown.                                                               *)

\* server.close closes the connections that are idle.
Shutdown(why) ==
    IF phase = "serving"
    THEN /\ phase' = "stopping" /\ cause' = why
         /\ conn' = [c \in Conns |-> IF conn[c] = "idle" THEN "closed" ELSE conn[c]]
    ELSE UNCHANGED <<phase, cause, conn>>

\* SIGTERM and SIGINT; a second one finds shuttingDown set.
Signal ==
    /\ Started
    /\ Shutdown("signal")
    /\ UNCHANGED <<code, mongo, work>>

\* uncaughtException and unhandledRejection: the request is never answered.
Uncaught(c) ==
    /\ Started /\ work[c] \in {"working", "written"}
    /\ work' = [work EXCEPT ![c] = "stuck"]
    /\ Shutdown("uncaught")
    /\ UNCHANGED <<code, mongo>>

\* A mutant: the database is closed next to the server, not after it.
AtOnce == TRUE

AllClosed == \A c \in Conns : conn[c] = "closed"

\* The callback of server.close.
Drained ==
    /\ phase = "stopping" /\ AllClosed
    /\ phase' = "closing"
    /\ UNCHANGED <<code, cause, mongo, conn, work>>

\* disconnectMongo, which may fail.
DisconnectMongo ==
    /\ phase = "closing"
    /\ \/ Exit(0) /\ driver' = FALSE /\ connected' = FALSE
       \/ Exit(1) /\ UNCHANGED <<driver, connected>>
    /\ UNCHANGED <<cause, errored, conn, work>>

\* A mutant: the timer is armed in the callback of server.close.
ArmedLate == phase = "closing"

Armed == phase \in {"stopping", "closing"}

\* The grace is over.
ForceExit ==
    /\ Armed
    /\ Exit(1)
    /\ UNCHANGED <<cause, mongo, conn, work>>

Next ==
    \/ AbortBoot \/ Start \/ Restart
    \/ Reconnected \/ Disconnected \/ DriverError
    \/ \E c \in Conns : Request(c) \/ Write(c) \/ Finish(c) \/ Close(c) \/ Uncaught(c)
    \/ Signal \/ Drained \/ DisconnectMongo \/ ForceExit

Spec == Init /\ [][Next]_vars

\* The timer of the grace runs out.
FairSpec == Spec /\ WF_vars(ForceExit)

-----------------------------------------------------------------------------
(* Properties.                                                             *)

Unfinished(c) == work[c] # "none"

\* "Graceful shutdown drains in-flight requests so a restart or redeploy does
\* not truncate a write" (server.js): from the closing of the database on, and
\* after an exit with 0, a request still at work has lost its client.
CleanExitCutsNothing ==
    (phase = "closing" \/ (phase = "exited" /\ code = 0)) =>
        \A c \in Conns : Unfinished(c) => conn[c] = "closed"

\* /readyz (app.js) never says ok without a connection, and says it with one,
\* unless the driver reported an error since it last connected.
ReadyFollowsDriver ==
    Started => /\ IsMongoReady => driver
               /\ driver /\ ~errored => IsMongoReady

\* A process that began to stop exits, whatever its requests, their clients and
\* the database do (shutdown, forceExit).
ShutdownEnds == phase = "stopping" ~> phase = "exited"
=============================================================================
