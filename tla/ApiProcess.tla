------------------------------ MODULE ApiProcess ------------------------------
(***************************************************************************)
(* One API process from boot to its end, with the requests it serves: the  *)
(* boot order of index.ts, the request pipeline of app.ts around the       *)
(* handlers, the domain event bus, the health routes, and the shutdown     *)
(* terminus drives (stop accepting, drain, disconnect, signal again).      *)
(* What a query finds is left open here (other processes write too); what  *)
(* the cache does with it is the subject of ItemsCache.                    *)
(***************************************************************************)
EXTENDS EventBus, HttpRoutes, FiniteSets

CONSTANTS
    Request,      \* requests that may arrive
    Sends,        \* per request, the routes and bodies it may be sent with
    Logger,       \* the handler registerItemEventHandlers subscribes
    Visitors,     \* the events and handlers other modules subscribe after boot
    MaxFaults,    \* bound: outages, clients that leave
    MaxWrappers   \* bound: wrappers of one such handler on the emitter

Body == {"good", "invalid", "malformed"}
(* A wrong input needs a controller that parses one; the probes read none. *)
ASSUME SendsAssumption ==
    Sends \in [Request -> SUBSET {m \in Route \X Body :
                                     /\ m[2] = "invalid" => m[1] \in Parsing
                                     /\ m[1] \in Probes => m[2] = "good"}]
ASSUME EventAssumption  == Event = {EventOf[k] : k \in DOMAIN EventOf}
ASSUME LoggerAssumption == Logger \in Handler
ASSUME VisitorsAssumption == Visitors \subseteq Event \X (Handler \ {Logger})
ASSUME BoundAssumption  == MaxFaults \in Nat /\ MaxWrappers \in Nat

VARIABLES
    phase,        \* "boot", "cached", "listening", "draining", "closing", "closed", "down"
    exit,         \* what ended it: "no", "boot" (a failed start) or "signal"
    listeners,    \* who listens for SIGTERM and SIGINT: telemetry, terminus
    provider,     \* the cache provider chosen at boot: "noop" or "redis"
    conn,         \* its connections: "none", "waiting", "open", "closed", "failed"
    server,       \* is the server itself, MongoDB or Redis, reachable
    req,          \* per request, its record
    audit,        \* the audit log: a set of entries
    faults

procVars == <<phase, exit, listeners, provider, conn>>
vars == <<procVars, server, req, audit, busVars, faults>>

Server == {"mongo", "redis"}

(* The database's, the cache's, and that of the job queue, to Redis.       *)
Connection == Server \cup {"queue"}

NoRequest == [pc |-> "none", route |-> "unknown", body |-> "good", audited |-> FALSE,
              answer |-> "none", gone |-> FALSE, wrote |-> FALSE, heard |-> {},
              pings |-> {}, failed |-> FALSE, up |-> {}, down |-> {}]

(* Telemetry is imported first; importing the job router makes the queue,  *)
(* which waits for Redis.                                                  *)
Init ==
    /\ phase = "boot" /\ exit = "no" /\ provider = "noop"
    /\ listeners = {"telemetry"}
    /\ conn = [c \in Connection |-> IF c = "queue" THEN "waiting" ELSE "none"]
    /\ server \in [Server -> BOOLEAN]
    /\ req = [r \in Request |-> NoRequest]
    /\ audit = {} /\ faults = 0
    /\ BusInit

Fault      == faults < MaxFaults /\ faults' = faults + 1
InFlight(r) == req[r].pc \notin {"none", "over"}
Alive      == phase # "down"

(* The drain is over: nobody waits for the requests that still run.        *)
Closing    == phase \in {"closing", "closed"}

(***************************************************************************)
(* The outside: servers that go and come back, clients that leave.         *)
(***************************************************************************)
Outage(s) ==
    /\ Alive /\ server[s] /\ Fault
    /\ server' = [server EXCEPT ![s] = FALSE]
    /\ UNCHANGED <<procVars, req, audit, busVars>>

Recovery(s) ==
    /\ Alive /\ ~server[s]
    /\ server' = [server EXCEPT ![s] = TRUE]
    /\ UNCHANGED <<procVars, req, audit, busVars, faults>>

ClientLeaves(r) ==
    /\ Alive /\ InFlight(r) /\ ~req[r].gone /\ Fault
    /\ req' = [req EXCEPT ![r].gone = TRUE]
    /\ UNCHANGED <<procVars, server, audit, busVars>>

(***************************************************************************)
(* Boot.                                                                   *)
(***************************************************************************)
(* Cache.initialize: Redis has to answer a ping, or the process keeps the  *)
(* noop provider.                                                          *)
InitCache ==
    /\ phase = "boot"
    /\ phase' = "cached"
    /\ provider' = IF server["redis"] THEN "redis" ELSE "noop"
    /\ conn' = [conn EXCEPT !["redis"] = "open"]
    /\ UNCHANGED <<exit, listeners, server, req, audit, busVars, faults>>

(* registerItemEventHandlers: the logger hears every item event.           *)
Registered == Event \X {Logger}

(* Mongo is connected; the event handlers are registered, terminus is set  *)
(* up and the server listens with no await in between.                     *)
Start ==
    /\ phase = "cached" /\ server["mongo"]
    /\ phase' = "listening"
    /\ conn' = [conn EXCEPT !["mongo"] = "open"]
    /\ listeners' = listeners \cup {"terminus"}
    /\ SubscribeAll(Registered)
    /\ UNCHANGED <<exit, provider, server, req, audit, faults>>

(* Mutant: a failed start is logged and its exit status forgotten.         *)
StartFailsQuietly ==
    /\ phase = "cached" /\ ~server["mongo"]
    /\ phase' = "down"
    /\ UNCHANGED <<exit, listeners, provider, conn, server, req, audit, busVars, faults>>

StartFails ==
    /\ phase = "cached" /\ ~server["mongo"]
    /\ phase' = "down" /\ exit' = "boot"
    /\ UNCHANGED <<listeners, provider, conn, server, req, audit, busVars, faults>>

(* The first connection of the queue: its calls wait for it without limit. *)
QueueReady ==
    /\ Alive /\ conn["queue"] = "waiting" /\ server["redis"]
    /\ conn' = [conn EXCEPT !["queue"] = "open"]
    /\ UNCHANGED <<phase, exit, listeners, provider, server, req, audit, busVars, faults>>

(* Handlers of other modules may come and go while the process serves.     *)
BusCall(e, h) ==
    /\ phase \in {"listening", "draining"}
    /\ \/ emitter[e][h] < MaxWrappers /\ Subscribe(e, h)
       \/ Unsubscribe(e, h)
    /\ UNCHANGED <<procVars, server, req, audit, faults>>

(***************************************************************************)
(* A request.  Its steps are the awaits of its handler.                    *)
(***************************************************************************)
Step(r, pc)  == Alive /\ req[r].pc = pc
Becomes(r, record) == req' = [req EXCEPT ![r] = record]
Quiet        == UNCHANGED <<procVars, server, audit, busVars, faults>>
With(record, answer) == [record EXCEPT !.pc = "answered", !.answer = answer]

(* The fields up and down are history: the servers that were there when    *)
(* the request was told so, and those that were away when a call failed.   *)
Away == {s \in Server : ~server[s]}
Erring(r, s) == [With(req[r], "Error") EXCEPT !.down = {s} \cap Away]

(* What follows the body parser in one go: router, controller and parse,   *)
(* up to the first await of the handler or an answer that needs none.      *)
Dispatched(record) ==
    LET step == FirstStep(record.route)
    IN  IF record.body = "invalid" THEN With(record, "ZodError")
        ELSE CASE step = "noRoute"  -> With(record, "noRoute")
               [] step = "answered" -> With(record, "success")
               [] step = "ping"     -> [record EXCEPT !.pc = "ping", !.pings = Server]
               [] OTHER             -> [record EXCEPT !.pc = step]

Arriving(route, body) == [NoRequest EXCEPT !.pc = "body", !.route = route, !.body = body]

(* The probes are answered by terminus: no body parser, no audit.          *)
Arrive(r, route, body) ==
    /\ phase = "listening" /\ req[r].pc = "none"
    /\ Becomes(r, IF route \in Probes THEN Dispatched(Arriving(route, body))
                                      ELSE Arriving(route, body))
    /\ Quiet

(* Mutant: the audit middleware sits behind the routes.                    *)
AuditedBehindRoutes(r) == req[r].route = "unknownPost"

(* The audit middleware registers for the finish of a mutation.            *)
Audited(r) == Method(req[r].route) \in MutationMethods

(* The body parser comes before the audit middleware.  A client that left  *)
(* may have sent all of its body, or not.                                  *)
ParseBody(r) ==
    /\ Step(r, "body") /\ req[r].body # "malformed"
    /\ Becomes(r, Dispatched([req[r] EXCEPT !.audited = Audited(r)]))
    /\ Quiet

RejectBody(r) ==
    /\ Step(r, "body") /\ (req[r].body = "malformed" \/ req[r].gone)
    /\ Becomes(r, With(req[r], "BodyError"))
    /\ Quiet

(* When a call through the process's own connection may succeed, and when  *)
(* it may err.                                                             *)
Works(s) == server[s] /\ conn[s] # "closed"
Errs(s)  == ~server[s] \/ Closing

Find(r) ==
    /\ Step(r, "find") /\ Works("mongo")
    /\ \/ Becomes(r, [req[r] EXCEPT !.pc = "write"])
       \/ Becomes(r, With(req[r], "NOT_FOUND"))
    /\ Quiet

(* A read may be a hit, which asks only Redis.                             *)
Read(r) ==
    /\ Step(r, "read")
    /\ Works("mongo") \/ (provider = "redis" /\ Works("redis"))
    /\ \/ Becomes(r, With(req[r], "success"))
       \/ req[r].route = "show" /\ Becomes(r, With(req[r], "NOT_FOUND"))
    /\ Quiet

(* Mutant: a write that changed nothing is not noticed.                    *)
WriteUnnoticed(r) ==
    /\ Step(r, "write") /\ Works("mongo")
    /\ \/ Becomes(r, [req[r] EXCEPT !.pc = "refresh", !.wrote = TRUE])
       \/ req[r].route # "create" /\ Becomes(r, [req[r] EXCEPT !.pc = "refresh"])
    /\ Quiet

(* Another request may have deleted the item since it was found.           *)
Write(r) ==
    /\ Step(r, "write") /\ Works("mongo")
    /\ \/ Becomes(r, [req[r] EXCEPT !.pc = "refresh", !.wrote = TRUE])
       \/ req[r].route # "create" /\ Becomes(r, With(req[r], "INTERNAL"))
    /\ Quiet

(* Mutant: an error of a read is not handed on and nobody answers it.      *)
MongoErrorSwallowed(r) ==
    /\ req[r].pc \in {"find", "write"} /\ Alive /\ Errs("mongo")
    /\ \/ Becomes(r, Erring(r, "mongo"))
       \/ /\ req[r].pc = "write" /\ Works("mongo")
          /\ Becomes(r, [Erring(r, "mongo") EXCEPT !.wrote = TRUE])
    /\ Quiet

MongoError(r) ==
    /\ req[r].pc \in {"find", "read", "write"} /\ Alive /\ Errs("mongo")
    /\ \/ Becomes(r, Erring(r, "mongo"))
       \/ /\ req[r].pc = "write" /\ Works("mongo")    \* cut off after it was executed
          /\ Becomes(r, [Erring(r, "mongo") EXCEPT !.wrote = TRUE])
    /\ Quiet

(* The refresh of the cache never fails; publish starts the handlers and   *)
(* the response follows at once.                                           *)
Publish(r) ==
    /\ Step(r, "refresh")
    /\ Becomes(r, [With(req[r], "success") EXCEPT !.heard = Hearing(EventOf[req[r].route])])
    /\ Quiet

Enqueue(r) ==
    /\ Step(r, "queue") /\ conn["queue"] = "open" /\ server["redis"]
    /\ Becomes(r, [With(req[r], "success") EXCEPT !.wrote = req[r].route \in Mutating])
    /\ Quiet

(* A queue that was connected before gives a command up while Redis is     *)
(* away; the shutdown does not close it.                                   *)
QueueError(r) ==
    /\ Step(r, "queue") /\ conn["queue"] = "open" /\ ~server["redis"]
    /\ Becomes(r, Erring(r, "redis"))
    /\ Quiet

(* The server goes away after it executed a mutation and before it said so.*)
EffectUnacked(r, s) ==
    /\ Alive /\ req[r].pc = IF s = "mongo" THEN "write" ELSE "queue"
    /\ req[r].route \in Mutating /\ server[s] /\ Fault
    /\ IF s = "mongo" THEN conn[s] # "closed" ELSE conn["queue"] = "open"
    /\ server' = [server EXCEPT ![s] = FALSE]
    /\ Becomes(r, [With(req[r], "Error") EXCEPT !.wrote = TRUE, !.down = {s}])
    /\ UNCHANGED <<procVars, audit, busVars>>

(***************************************************************************)
(* Health: /healthcheck pings MongoDB, then the cache, and tells both; the *)
(* probe /readyz pings both at once and gives up at the first error.       *)
(***************************************************************************)
(* Mutant: the cache is taken to be up whatever its provider says.         *)
PingAnswersAlways(s) == s = "redis" \/ Works(s)

(* The noop provider answers every ping.                                   *)
PingAnswers(s) == Works(s) \/ (s = "redis" /\ provider = "noop")
PingErrs(s)    == Errs(s) /\ (s = "redis" => provider = "redis")

Verdict(record) ==
    IF record.pings # {} /\ ~(record.failed /\ record.route = "readyz") THEN record
    ELSE With(record, IF record.failed THEN "DOWN" ELSE "UP")

Ping(r, s) ==
    /\ Step(r, "ping") /\ s \in req[r].pings
    /\ req[r].route = "healthcheck" /\ s = "redis" => "mongo" \notin req[r].pings
    /\ LET left == [req[r] EXCEPT !.pings = @ \ {s}]
       IN  \/ /\ PingAnswers(s)
              /\ Becomes(r, Verdict([left EXCEPT !.up = @ \cup ({s} \ Away)]))
           \/ /\ PingErrs(s)
              /\ Becomes(r, Verdict([left EXCEPT !.failed = TRUE, !.down = @ \cup ({s} \cap Away)]))
    /\ Quiet

(***************************************************************************)
(* The end of a request: its response reaches the socket and finish is     *)
(* emitted, which writes the audit entry, unless the client is gone.       *)
(***************************************************************************)
Entry(r) ==
    LET route == req[r].route
    IN  [req |-> r, action |-> Action(Method(route)), resource |-> ResourceInfo(route),
         status |-> Status(route, req[r].answer)]

Finish(r) ==
    /\ Step(r, "answered")
    /\ Becomes(r, [req[r] EXCEPT !.pc = "over", !.heard = {}, !.up = {}, !.down = {},
                                 !.pings = {}, !.failed = FALSE])
    /\ audit' = IF req[r].audited /\ ~req[r].gone THEN audit \cup {Entry(r)} ELSE audit
    /\ UNCHANGED <<procVars, server, busVars, faults>>

(***************************************************************************)
(* Shutdown.                                                               *)
(***************************************************************************)
(* Once terminus listens.  Before that a signal only ends the telemetry:   *)
(* node's own answer to it is off and the boot goes on; one that comes     *)
(* during or after the shutdown changes nothing either.                    *)
Signal ==
    /\ phase = "listening" /\ "terminus" \in listeners
    /\ phase' = "draining"
    /\ UNCHANGED <<exit, listeners, provider, conn, server, req, audit, busVars, faults>>

(* Mutant: the connections are closed before the drain (beforeShutdown).   *)
DrainedAnyway == TRUE

(* No socket is left with a request on it.                                 *)
Drained == \A r \in Request : InFlight(r) => req[r].gone

DrainDone ==
    /\ phase = "draining" /\ Drained
    /\ phase' = "closing"
    /\ UNCHANGED <<exit, listeners, provider, conn, server, req, audit, busVars, faults>>

(* After 30 s the remaining sockets are destroyed; their handlers run on.  *)
DrainTimeout ==
    /\ phase = "draining" /\ ~Drained
    /\ phase' = "closing"
    /\ req' = [r \in Request |-> IF InFlight(r) THEN [req[r] EXCEPT !.gone = TRUE] ELSE req[r]]
    /\ UNCHANGED <<exit, listeners, provider, conn, server, audit, busVars, faults>>

(* onSignal disconnects MongoDB and the cache together.                    *)
Disconnect(s) ==
    /\ phase = "closing" /\ conn[s] = "open"
    /\ \/ conn' = [conn EXCEPT ![s] = "closed"]
       \/ ~server[s] /\ (s = "redis" => provider = "redis")
          /\ conn' = [conn EXCEPT ![s] = "failed"]
    /\ UNCHANGED <<phase, exit, listeners, provider, server, req, audit, busVars, faults>>

(* Mutant: Promise.all gives up at the first disconnect that fails.        *)
SettledAtFailure == \/ \A s \in Server : conn[s] # "open"
                    \/ \E s \in Server : conn[s] = "failed"

(* Mutant: the shutdown goes on only when both disconnects succeeded.      *)
SettledClosed == \A s \in Server : conn[s] = "closed"

Settled == \A s \in Server : conn[s] # "open"

(* What keeps the event loop alive when nothing else is to be done.        *)
Held == {c \in Connection : conn[c] \notin {"none", "closed"}}

(* terminus stops listening and sends itself the signal again: that ends   *)
(* the process if nobody else listens, or once no connection is held.      *)
Resend ==
    /\ phase = "closing" /\ Settled
    /\ listeners' = listeners \ {"terminus"}
    /\ IF listeners' = {} \/ Held = {}
       THEN phase' = "down" /\ exit' = "signal"
       ELSE phase' = "closed" /\ UNCHANGED exit
    /\ UNCHANGED <<provider, conn, server, req, audit, busVars, faults>>

(***************************************************************************)
(* Next and fairness.                                                      *)
(***************************************************************************)
Boot     == InitCache \/ Start \/ StartFails \/ QueueReady
Progress(r) ==
    \/ ParseBody(r) \/ RejectBody(r) \/ Find(r) \/ Read(r) \/ Write(r) \/ MongoError(r)
    \/ Publish(r) \/ Enqueue(r) \/ QueueError(r) \/ Finish(r)
    \/ \E s \in Server : Ping(r, s)
Shutdown == DrainDone \/ DrainTimeout \/ (\E s \in Server : Disconnect(s)) \/ Resend

(* What the process does by itself.                                        *)
Own == Boot \/ Shutdown \/ \E r \in Request : Progress(r)

Next ==
    \/ Own \/ Signal
    \/ \E v \in Visitors : BusCall(v[1], v[2])
    \/ \E s \in Server : Outage(s) \/ Recovery(s)
    \/ \E r \in Request :
          \/ ClientLeaves(r)
          \/ \E m \in Sends[r] : Arrive(r, m[1], m[2])
          \/ \E s \in Server : EffectUnacked(r, s)

Spec == Init /\ [][Next]_vars
(* The process does not stop while it has something to do: the event loop  *)
(* runs what is ready, the MongoDB driver and the cache answer or time     *)
(* out, so does a queue that was connected once, a body arrives or its     *)
(* socket is closed (requestTimeout), the drain has a timer.  No more is   *)
(* assumed: not that a server recovers, nor that any one request gets its  *)
(* turn.                                                                   *)
FairSpec == Spec /\ WF_vars(Own)

(***************************************************************************)
(* Properties.                                                             *)
(***************************************************************************)
Replied(r)  == req[r].pc \in {"answered", "over"}
StatusOf(r) == Status(req[r].route, req[r].answer)
Mutation(r) == req[r].route \in Mutating

Record ==
    [pc : {"none", "body", "find", "read", "write", "refresh", "queue", "ping", "answered",
           "over"},
     route : Route, body : Body, audited : BOOLEAN, answer : Answer \cup {"none"},
     gone : BOOLEAN, wrote : BOOLEAN, heard : SUBSET Handler,
     pings : SUBSET Server, failed : BOOLEAN, up : SUBSET Server, down : SUBSET Server]

(* Every variable holds a value of its kind, a request has an answer       *)
(* exactly when it replied, and only item mutations refresh the cache.     *)
TypeOK ==
    /\ phase \in {"boot", "cached", "listening", "draining", "closing", "closed", "down"}
    /\ exit \in {"no", "boot", "signal"}
    /\ listeners \subseteq {"telemetry", "terminus"}
    /\ phase = "down" <=> exit # "no"
    /\ provider \in {"noop", "redis"}
    /\ conn \in [Connection -> {"none", "waiting", "open", "closed", "failed"}]
    /\ server \in [Server -> BOOLEAN]
    /\ req \in [Request -> Record]
    /\ \A r \in Request : Replied(r) <=> req[r].answer # "none"
    /\ \A r \in Request : req[r].pc = "refresh" => req[r].route \in DOMAIN EventOf
    /\ BusTypeOK
    /\ faults \in 0..MaxFaults

(* A client that is still there is told of a failure (a 5xx) only because  *)
(* a server its request needs was away at some time of its life, or its    *)
(* item was deleted under it: never because the process is shutting down,  *)
(* although MongoDB and Redis are disconnected while handlers may run.     *)
FailuresExplained ==
    \A r \in Request :
        req[r].pc = "answered" /\ ~req[r].gone /\ Failed(StatusOf(r)) =>
            \/ req[r].answer = "INTERNAL"
            \/ req[r].route \notin JobRoutes /\ "mongo" \in req[r].down
            \/ req[r].route \in JobRoutes /\ "redis" \in req[r].down
            \/ req[r].answer = "DOWN" /\ provider = "redis" /\ "redis" \in req[r].down

(* A health route says 200 only if MongoDB, and Redis, were there at some  *)
(* moment while it looked; Redis need not have been if it was away at boot *)
(* and the process runs without a cache.                                   *)
HealthTruthful ==
    \A r \in Request :
        req[r].pc = "answered" /\ req[r].answer = "UP" =>
            /\ "mongo" \in req[r].up
            /\ "redis" \in req[r].up \/ provider = "noop"

(* The audit log: every mutation whose client stayed to the end has an     *)
(* entry, with the status it was answered, unless its body was not JSON    *)
(* (the parser runs before the audit middleware); nothing else has one.    *)
AuditComplete ==
    /\ \A r \in Request :
          req[r].pc = "over" /\ ~req[r].gone /\ Method(req[r].route) \in MutationMethods
             /\ req[r].answer # "BodyError" => Entry(r) \in audit
    /\ \A e \in audit :
          /\ e = Entry(e.req) /\ req[e.req].pc = "over" /\ ~req[e.req].gone
          /\ Method(req[e.req].route) \in MutationMethods

(* What an answer says of the effect: accepted, the mutation took effect   *)
(* and its event reached the handlers registered at boot; rejected (4xx),  *)
(* nothing happened and nobody heard of it.  Only a 5xx leaves it open.    *)
AnswersFit ==
    \A r \in Request :
        req[r].pc = "answered" /\ Mutation(r) =>
            /\ Accepted(StatusOf(r)) => req[r].wrote
            /\ Accepted(StatusOf(r)) /\ req[r].route \in ItemRoutes => Logger \in req[r].heard
            /\ Rejected(StatusOf(r)) => ~req[r].wrote /\ req[r].heard = {}

(* When terminus is through with a signal, the database and the cache were *)
(* disconnected, or their server was away when they were, and every        *)
(* request whose client waited for it has been answered and, if it is to   *)
(* be, audited.                                                            *)
GracefulEnd ==
    phase = "closed" =>
        /\ \A s \in Server : conn[s] \in {"closed", "failed"}
        /\ \A r \in Request : InFlight(r) => req[r].gone

(* A signal to a listening process is carried through to the disconnects,  *)
(* whatever its clients and the servers do.                                *)
ShutdownCompletes == phase = "draining" ~> phase \in {"closed", "down"}

(* What docs/architecture.md promises of a signal: the process exits.      *)
ShutdownEnds == phase = "draining" ~> phase = "down"

(* A job request whose queue never found Redis has nobody to end it.       *)
StuckOnQueue(r) == req[r].pc = "queue" /\ conn["queue"] = "waiting" /\ ~server["redis"]

(* The requests under way all end some day, whatever fails, but for those  *)
(* that ask a queue whose Redis has been away since the process began.     *)
EveryRequestEnds ==
    (\E r \in Request : InFlight(r)) ~> \A r \in Request : InFlight(r) => StuckOnQueue(r)
===============================================================================
