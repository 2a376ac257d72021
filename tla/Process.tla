------------------------------- MODULE Process -------------------------------
(***************************************************************************)
(* The life of the process: main of src/cmd/developer/main.go with Open    *)
(* and Close of src/internal/connections.  It opens the stores one after   *)
(* the other, serves, and on a signal drains for a while, closes what it   *)
(* opened in the reverse order and ends, whatever still runs.              *)
(*                                                                         *)
(* Shutdown of net/http, Close of pgxpool and the signal are modelled from *)
(* their use: Shutdown stops the listener and waits for the requests, of   *)
(* which it ends none; Close waits for the connections in use.             *)
(***************************************************************************)
EXTENDS FiniteSets, Naturals

CONSTANTS
    Streams,        \* requests for /v1/events
    Ordinary        \* all others, each one made once

Requests == Streams \cup Ordinary
Stores   == {"postgres", "redis", "mongo"}

ASSUME ProcessAssumption == Streams \cap Ordinary = {}

VARIABLES
    main,           \* where main is
    open,           \* the clients that are, and "publisher"
    signalled,      \* the context of main is done
    listener,       \* "off", "accepting" or "closed"
    expired,        \* Shutdown has given up
    request         \* where each request is

processVars == <<main, open, signalled, listener, expired, request>>

RequestStates == {"none", "running", "querying", "done", "cut"}

ProcessInit ==
    /\ main = "postgres" /\ open = {} /\ signalled = FALSE
    /\ listener = "off" /\ expired = FALSE
    /\ request = [r \in Requests |-> "none"]

MainGoes(from, to) == main = from /\ main' = to

In(state) == {r \in Requests : request[r] = state}

(***************************************************************************)
(* Start.  Every ping is under the context of main.                        *)
(***************************************************************************)
OpenPostgres ==
    /\ MainGoes("postgres", "redis") /\ ~signalled
    /\ open' = {"postgres"}
    /\ UNCHANGED <<signalled, listener, expired, request>>

OpenRedis ==
    /\ MainGoes("redis", "mongo") /\ ~signalled
    /\ open' = open \cup {"redis"}
    /\ UNCHANGED <<signalled, listener, expired, request>>

\* Mongo, and then the publisher, which dials when it is first used.
OpenMongo ==
    /\ MainGoes("mongo", "serving") /\ ~signalled
    /\ open' = open \cup {"mongo", "publisher"}
    /\ UNCHANGED <<signalled, listener, expired, request>>

\* What was opened before is closed, and os.Exit(1).  The client of Redis is
\* not when it is its own ping that fails.
OpenFails ==
    /\ main \in {"postgres", "redis", "mongo"} /\ main' = "exited"
    /\ open' = IF main = "redis" THEN {"redis"} ELSE {}
    /\ UNCHANGED <<signalled, listener, expired, request>>

\* The goroutine that main leaves to listen; after a Shutdown it does not.
Listen ==
    /\ main = "serving" /\ listener = "off"
    /\ listener' = "accepting"
    /\ UNCHANGED <<main, open, signalled, expired, request>>

\* ListenAndServe has failed: the context is done as by a signal.
ListenFails ==
    /\ main = "serving" /\ listener # "closed"
    /\ listener' = "closed" /\ signalled' = TRUE
    /\ UNCHANGED <<main, open, expired, request>>

(***************************************************************************)
(* Stop.                                                                   *)
(***************************************************************************)
Signal ==
    /\ ~signalled /\ main # "exited"
    /\ signalled' = TRUE
    /\ UNCHANGED <<main, open, listener, expired, request>>

\* Mutant: main goes on as soon as the listener is closed.
ShutdownAtOnce ==
    /\ MainGoes("serving", "publisher") /\ signalled
    /\ listener' = "closed"
    /\ UNCHANGED <<open, signalled, expired, request>>

\* Shutdown: the listener is closed and the requests are waited for,
Shutdown ==
    /\ MainGoes("serving", "draining") /\ signalled
    /\ listener' = "closed"
    /\ UNCHANGED <<open, signalled, expired, request>>

Drained ==
    /\ MainGoes("draining", "publisher")
    /\ In("running") \cup In("querying") = {}
    /\ UNCHANGED <<open, signalled, listener, expired, request>>

\* Mutant: until the last of them is done.
NoDeadline == FALSE /\ UNCHANGED processVars

\* for fifteen seconds and no longer.
GraceOver ==
    /\ MainGoes("draining", "publisher")
    /\ In("running") \cup In("querying") # {}
    /\ expired' = TRUE
    /\ UNCHANGED <<open, signalled, listener, request>>

\* The deferred calls, last first.
ClosePublisher ==
    /\ MainGoes("publisher", "closing")
    /\ open' = open \ {"publisher"}
    /\ UNCHANGED <<signalled, listener, expired, request>>

\* Postgres gives no connection any more, and waits for those in use; then
\* Redis.  Mongo is left.
ClosePostgres ==
    /\ MainGoes("closing", "closed")
    /\ open' = open \ {"postgres"}
    /\ UNCHANGED <<signalled, listener, expired, request>>

CloseRedis ==
    /\ MainGoes("closed", "ending")
    /\ In("querying") = {}
    /\ open' = open \ {"redis"}
    /\ UNCHANGED <<signalled, listener, expired, request>>

\* main returns, and whatever runs ends where it is.
End ==
    /\ MainGoes("ending", "exited")
    /\ request' = [r \in Requests |->
                      IF request[r] \in {"running", "querying"} THEN "cut" ELSE request[r]]
    /\ UNCHANGED <<open, signalled, listener, expired>>

(***************************************************************************)
(* The requests.                                                           *)
(***************************************************************************)
Moves(r, from, to) ==
    /\ main # "exited"
    /\ request[r] \in from /\ request' = [request EXCEPT ![r] = to]
    /\ UNCHANGED <<main, open, signalled, listener, expired>>

Accept(r)   == listener = "accepting" /\ Moves(r, {"none"}, "running")
Query(r)    == "postgres" \in open /\ Moves(r, {"running"}, "querying")
EndQuery(r) == Moves(r, {"querying"}, "running")

\* The handler returns: for a stream, because the client is gone or its
\* lifetime is over.
Respond(r)   == Moves(r, {"running"}, "done")

Start == OpenPostgres \/ OpenRedis \/ OpenMongo \/ OpenFails
Stop  ==
    \/ Shutdown \/ Drained \/ GraceOver
    \/ ClosePublisher \/ ClosePostgres \/ CloseRedis \/ End

ProcessNext ==
    \/ Start \/ Listen \/ ListenFails \/ Signal \/ Stop
    \/ \E r \in Requests : Accept(r) \/ Query(r) \/ EndQuery(r) \/ Respond(r)

ProcessSpec == ProcessInit /\ [][ProcessNext]_processVars

\* main goes on when it can, the fifteen seconds pass and a statement ends.
\* Nobody makes a client leave: of the handlers no return is assumed.
FairProcess ==
    /\ ProcessSpec
    /\ WF_processVars(Start) /\ WF_processVars(Stop)
    /\ \A r \in Requests : WF_processVars(EndQuery(r))
-----------------------------------------------------------------------------
\* The type invariant.
ProcessTypeOK ==
    /\ main \in {"postgres", "redis", "mongo", "serving", "draining",
               "publisher", "closing", "closed", "ending", "exited"}
    /\ open \subseteq Stores \cup {"publisher"}
    /\ signalled \in BOOLEAN /\ expired \in BOOLEAN
    /\ listener \in {"off", "accepting", "closed"}
    /\ request \in [Requests -> RequestStates]
    /\ In("cut") # {} => main = "exited"

\* A deploy takes nothing from a request that is done in time: all the clients
\* are open as long as a request runs, until Shutdown has given up; and only
\* then is a request cut off.
StoresOutlastRequests ==
    /\ In("running") \cup In("querying") # {} /\ ~expired =>
          open = Stores \cup {"publisher"}
    /\ In("cut") # {} => expired

\* "A deploy is not held hostage by one": after a signal, or when the listener
\* has failed, the process ends, whatever the clients of its streams do.
NotHeldHostage == signalled ~> (main = "exited")

(***************************************************************************)
(* What a comment or a document says, and the code does not keep.          *)
(***************************************************************************)
\* A stream is served "until it disconnects, the lifetime cap expires, or the
\* server shuts down": a shutdown ends it, and does not cut it off.
ShutdownEndsStreams == \A s \in Streams : request[s] # "cut"
=============================================================================
