--------------------------- MODULE ApiProcessProofs ---------------------------
(***************************************************************************)
(* Proofs about ApiProcess, for any requests, handlers, visitors and       *)
(* failures.  Nearly all of it is about one request at a time: Fits says   *)
(* what its record may look like at each step of its way, and most actions *)
(* replace one record by another that fits.                                *)
(***************************************************************************)
EXTENDS ApiProcess, TLAPS

USE SendsAssumption, EventAssumption, LoggerAssumption, VisitorsAssumption, BoundAssumption

HealthRoutes == {"healthcheck", "readyz"}
ItemWrites   == {"create", "update", "delete"}

(* The routes of a record, by the step it is at.                           *)
OnItsWay(x) ==
    /\ x.pc = "find" => x.route \in {"update", "delete"}
    /\ x.pc \in {"write", "refresh"} => x.route \in ItemWrites
    /\ x.pc = "read" => x.route \in {"list", "show"}
    /\ x.pc = "queue" => x.route \in JobRoutes
    /\ x.pc = "ping" => x.route \in HealthRoutes
    /\ x.pc \in {"body", "find", "read", "write", "queue", "ping"} => ~x.wrote /\ x.heard = {}
    /\ x.pc = "refresh" => x.wrote
    /\ x.pc = "body" => ~x.failed

(* Why a health check that fails, or an error, may be told to a client.    *)
Blamed(x) == \/ "mongo" \in x.down
             \/ provider = "redis" /\ "redis" \in x.down
Pinging(x) ==
    x.pc = "ping" =>
        /\ ~x.failed => /\ "mongo" \in x.pings \cup x.up
                        /\ "redis" \in x.pings \cup x.up \/ provider = "noop"
        /\ x.failed /\ ~x.gone => Blamed(x)

(* What an answer says of the record it ends.                              *)
Told(x) ==
    /\ x.answer \in {"none", "success", "noRoute", "UP", "DOWN", "NOT_FOUND", "INTERNAL",
                     "ZodError", "BodyError", "Error"}
    /\ x.answer = "success" => /\ x.route \in Mutating => x.wrote
                               /\ x.route \in ItemWrites => Logger \in x.heard
    /\ x.answer \in {"noRoute", "NOT_FOUND", "ZodError", "BodyError"} => ~x.wrote /\ x.heard = {}
    /\ x.answer \in {"UP", "DOWN"} => x.route \in HealthRoutes
    /\ x.answer = "UP" => "mongo" \in x.up /\ ("redis" \in x.up \/ provider = "noop")
    /\ x.answer = "DOWN" /\ ~x.gone => Blamed(x)
    /\ x.answer = "Error" /\ ~x.gone =>
           IF x.route \in JobRoutes THEN "redis" \in x.down ELSE "mongo" \in x.down

(* Past the body parser the audit middleware has seen the request.         *)
Seen(x) ==
    /\ x.audited => Method(x.route) \in MutationMethods
    /\ x.pc \notin {"none", "body"} /\ x.answer # "BodyError" =>
           (x.audited <=> Method(x.route) \in MutationMethods)

Fits(x) ==
    /\ x \in Record
    /\ x.pc \in {"answered", "over"} <=> x.answer # "none"
    /\ OnItsWay(x) /\ Pinging(x) /\ Seen(x)
    /\ x.pc = "answered" => Told(x)

FitInv == req \in [Request -> Record] /\ \A r \in Request : Fits(req[r])

(* The phases: requests come after boot, connections close after the drain,*)
(* and then only requests without a client are left.                       *)
PhaseInv ==
    /\ phase \in {"boot", "cached", "listening", "draining", "closing", "closed", "down"}
    /\ exit \in {"no", "boot", "signal"}
    /\ listeners \subseteq {"telemetry", "terminus"}
    /\ phase = "down" <=> exit # "no"
    /\ provider \in {"noop", "redis"}
    /\ conn \in [Connection -> {"none", "waiting", "open", "closed", "failed"}]
    /\ server \in [Server -> BOOLEAN]
    /\ faults \in 0..MaxFaults
    /\ phase \in {"boot", "cached"} => \A r \in Request : req[r].pc = "none"
    /\ phase = "cached" => conn["redis"] = "open"
    /\ phase \in {"listening", "draining"} => \A s \in Server : conn[s] = "open"
    /\ phase = "closing" => \A s \in Server : conn[s] \in {"open", "closed", "failed"}
    /\ phase = "closed" => \A s \in Server : conn[s] \in {"closed", "failed"}
    /\ Closing => \A r \in Request : InFlight(r) => req[r].gone

(* The logger is on the emitter as long as the process serves.             *)
BusInv ==
    /\ BusTypeOK /\ SubscribersHear
    /\ phase \in {"listening", "draining", "closing", "closed"} =>
           \A e \in Event : Logger \in Hearing(e)

AuditInv ==
    /\ \A r \in Request :
          req[r].pc = "over" /\ req[r].audited /\ ~req[r].gone => Entry(r) \in audit
    /\ \A e \in audit :
          /\ e.req \in Request /\ e = Entry(e.req)
          /\ req[e.req].pc = "over" /\ ~req[e.req].gone /\ req[e.req].audited

IInv == FitInv /\ PhaseInv /\ BusInv /\ AuditInv

(* At the start there are no requests and no handlers.                     *)
LEMMA InitInv == Init => IInv
<1> SUFFICES ASSUME Init PROVE IInv
  OBVIOUS
<1>1. NoRequest \in Record
  BY DEF NoRequest, Record, Route, Body
<1>2. Fits(NoRequest)
  BY <1>1 DEF Fits, NoRequest, OnItsWay, Pinging, Seen
<1>3. FitInv
  BY <1>1, <1>2 DEF Init, FitInv
<1>4. PhaseInv
  BY DEF Init, PhaseInv, Closing, NoRequest, InFlight
<1>5. BusInv
  BY DEF Init, BusInit, BusInv, BusTypeOK, SubscribersHear, Hearing
<1>6. AuditInv
  BY DEF Init, AuditInv, NoRequest
<1> QED BY <1>3, <1>4, <1>5, <1>6 DEF IInv

(***************************************************************************)
(* Events.                                                                 *)
(***************************************************************************)
(* Who is subscribed hears; who hears and is not subscribed was twice.     *)
LEMMA SubscribeKeeps ==
    ASSUME BusTypeOK, SubscribersHear, NEW P \in SUBSET (Event \X Handler), SubscribeAll(P)
    PROVE  /\ BusTypeOK' /\ SubscribersHear'
           /\ \A e \in Event, h \in Handler :
                 h \in Hearing(e) \/ <<e, h>> \in P => h \in Hearing(e)'
<1> USE DEF BusTypeOK, SubscribeAll
<1>1. \A e \in Event, h \in Handler :
          emitter'[e][h] = IF <<e, h>> \in P THEN emitter[e][h] + 1 ELSE emitter[e][h]
  OBVIOUS
<1>2. BusTypeOK'
  OBVIOUS
<1>3. SubscribersHear'
  <2> SUFFICES ASSUME NEW e \in Event, NEW h \in Handler
               PROVE  /\ <<e, h>> \in handlerMap' => emitter'[e][h] > 0
                      /\ emitter'[e][h] > 0 /\ <<e, h>> \notin handlerMap' => <<e, h>> \in again'
                      /\ emitter'[e][h] > 1 => <<e, h>> \in again'
    BY DEF SubscribersHear, Hearing
  <2>1. /\ emitter[e][h] \in Nat
        /\ <<e, h>> \in handlerMap => emitter[e][h] > 0
        /\ emitter[e][h] > 0 /\ <<e, h>> \notin handlerMap => <<e, h>> \in again
        /\ emitter[e][h] > 1 => <<e, h>> \in again
    BY DEF SubscribersHear, Hearing
  <2>2. CASE <<e, h>> \in P
    BY <2>1, <2>2, <1>1
  <2>3. CASE <<e, h>> \notin P
    BY <2>1, <2>3, <1>1
  <2> QED BY <2>2, <2>3
<1>4. \A e \in Event, h \in Handler :
          h \in Hearing(e) \/ <<e, h>> \in P => h \in Hearing(e)'
  BY <1>1 DEF Hearing
<1> QED BY <1>2, <1>3, <1>4

LEMMA UnsubscribeKeeps ==
    ASSUME BusTypeOK, SubscribersHear, NEW e \in Event, NEW h \in Handler, Unsubscribe(e, h)
    PROVE  /\ BusTypeOK' /\ SubscribersHear'
           /\ \A f \in Event, g \in Handler : <<f, g>> # <<e, h>> /\ g \in Hearing(f) =>
                  g \in Hearing(f)'
<1> USE DEF BusTypeOK, Unsubscribe
<1>1. emitter[e][h] > 0
  BY DEF SubscribersHear, Hearing
<1>2. \A f \in Event, g \in Handler :
          emitter'[f][g] = IF <<f, g>> = <<e, h>> THEN emitter[f][g] - 1 ELSE emitter[f][g]
  OBVIOUS
<1>3. BusTypeOK'
  BY <1>1
<1>4. SubscribersHear'
  <2> SUFFICES ASSUME NEW f \in Event, NEW g \in Handler
               PROVE  /\ <<f, g>> \in handlerMap' => emitter'[f][g] > 0
                      /\ emitter'[f][g] > 0 /\ <<f, g>> \notin handlerMap' => <<f, g>> \in again'
                      /\ emitter'[f][g] > 1 => <<f, g>> \in again'
    BY DEF SubscribersHear, Hearing
  <2>1. /\ emitter[f][g] \in Nat
        /\ <<f, g>> \in handlerMap => emitter[f][g] > 0
        /\ emitter[f][g] > 0 /\ <<f, g>> \notin handlerMap => <<f, g>> \in again
        /\ emitter[f][g] > 1 => <<f, g>> \in again
    BY DEF SubscribersHear, Hearing
  <2>2. CASE <<f, g>> = <<e, h>>
    BY <2>1, <2>2, <1>2
  <2>3. CASE <<f, g>> # <<e, h>>
    BY <2>1, <2>3, <1>2
  <2> QED BY <2>2, <2>3
<1>5. \A f \in Event, g \in Handler : <<f, g>> # <<e, h>> /\ g \in Hearing(f) =>
          g \in Hearing(f)'
  BY <1>2 DEF Hearing
<1> QED BY <1>3, <1>4, <1>5

(***************************************************************************)
(* One request.                                                            *)
(***************************************************************************)
(* A record stays one when its fields get values of their kinds.           *)
LEMMA RecordMoves ==
    ASSUME NEW x \in Record,
           NEW p \in {"none", "body", "find", "read", "write", "refresh", "queue", "ping",
                     "answered", "over"},
           NEW a \in Answer \cup {"none"}
    PROVE  /\ [x EXCEPT !.pc = p] \in Record
           /\ [x EXCEPT !.pc = p, !.answer = a] \in Record
<1> DEFINE A == Answer \cup {"none"}
           P == {"none", "body", "find", "read", "write", "refresh", "queue", "ping",
                 "answered", "over"}
           H == SUBSET Handler
           S == SUBSET Server
<1>1. p \in P /\ a \in A
  OBVIOUS
<1>2. x \in [pc : P, route : Route, body : Body, audited : BOOLEAN, answer : A,
             gone : BOOLEAN, wrote : BOOLEAN, heard : H, pings : S, failed : BOOLEAN,
             up : S, down : S]
  BY DEF Record
<1> HIDE DEF A, P, H, S
<1>3. /\ [x EXCEPT !.pc = p]
            \in [pc : P, route : Route, body : Body, audited : BOOLEAN, answer : A,
                 gone : BOOLEAN, wrote : BOOLEAN, heard : H, pings : S, failed : BOOLEAN,
                 up : S, down : S]
      /\ [x EXCEPT !.pc = p, !.answer = a]
            \in [pc : P, route : Route, body : Body, audited : BOOLEAN, answer : A,
                 gone : BOOLEAN, wrote : BOOLEAN, heard : H, pings : S, failed : BOOLEAN,
                 up : S, down : S]
  BY <1>1, <1>2
<1> QED BY <1>3 DEF Record, A, P, H, S

LEMMA RecordFields ==
    ASSUME NEW x \in Record, NEW w \in BOOLEAN, NEW h \in SUBSET Handler, NEW d \in SUBSET Server
    PROVE  /\ [x EXCEPT !.audited = w] \in Record /\ [x EXCEPT !.gone = w] \in Record
           /\ [x EXCEPT !.wrote = w] \in Record /\ [x EXCEPT !.failed = w] \in Record
           /\ [x EXCEPT !.heard = h] \in Record /\ [x EXCEPT !.pings = d] \in Record
           /\ [x EXCEPT !.up = d] \in Record /\ [x EXCEPT !.down = d] \in Record
           /\ [x EXCEPT !.wrote = w, !.down = d] \in Record
           /\ [x EXCEPT !.failed = w, !.down = d] \in Record
<1> DEFINE A == Answer \cup {"none"}
           P == {"none", "body", "find", "read", "write", "refresh", "queue", "ping",
                 "answered", "over"}
           H == SUBSET Handler
           S == SUBSET Server
           B == BOOLEAN
           Kind == [pc : P, route : Route, body : Body, audited : B, answer : A, gone : B,
                    wrote : B, heard : H, pings : S, failed : B, up : S, down : S]
<1>1. w \in B /\ h \in H /\ d \in S
  OBVIOUS
<1>2. x \in Kind /\ Kind = Record
  BY DEF Record
<1> HIDE DEF A, P, H, S, B
<1>3. /\ [x EXCEPT !.audited = w] \in Kind /\ [x EXCEPT !.gone = w] \in Kind
      /\ [x EXCEPT !.wrote = w] \in Kind /\ [x EXCEPT !.failed = w] \in Kind
      /\ [x EXCEPT !.heard = h] \in Kind /\ [x EXCEPT !.pings = d] \in Kind
      /\ [x EXCEPT !.up = d] \in Kind /\ [x EXCEPT !.down = d] \in Kind
      /\ [x EXCEPT !.wrote = w, !.down = d] \in Kind
      /\ [x EXCEPT !.failed = w, !.down = d] \in Kind
  BY <1>1, <1>2
<1> HIDE DEF Kind
<1> QED BY <1>2, <1>3

(* Such a record is left when a request is over.                           *)
LEMMA RecordEnds ==
    ASSUME NEW x \in Record, NEW h \in SUBSET Handler, NEW n \in SUBSET Server
    PROVE  [x EXCEPT !.pc = "over", !.heard = h, !.up = n, !.down = n, !.pings = n,
                     !.failed = FALSE] \in Record
<1> DEFINE A == Answer \cup {"none"}
           P == {"none", "body", "find", "read", "write", "refresh", "queue", "ping",
                 "answered", "over"}
           H == SUBSET Handler
           S == SUBSET Server
           Kind == [pc : P, route : Route, body : Body, audited : BOOLEAN, answer : A,
                    gone : BOOLEAN, wrote : BOOLEAN, heard : H, pings : S,
                    failed : BOOLEAN, up : S, down : S]
<1>1. h \in H /\ n \in S /\ "over" \in P
  OBVIOUS
<1>2. x \in Kind /\ Kind = Record
  BY DEF Record
<1> HIDE DEF A, P, H, S
<1>3. [x EXCEPT !.pc = "over", !.heard = h, !.up = n, !.down = n, !.pings = n,
                !.failed = FALSE] \in Kind
  BY <1>1, <1>2
<1> HIDE DEF Kind
<1> QED BY <1>2, <1>3

(* The answers of the model are answers.                                   *)
LEMMA AnswerType ==
    \A a \in {"success", "noRoute", "UP", "DOWN", "NOT_FOUND", "INTERNAL", "ZodError",
              "BodyError", "Error"} : a \in Answer
BY DEF Answer, Health, DomainStatus, ErrorStatus

(* What Dispatched makes of a record that is about to be dispatched.       *)
Dispatchable(x) ==
    /\ x \in Record /\ x.pc = "body" /\ x.answer = "none"
    /\ ~x.wrote /\ x.heard = {} /\ ~x.failed
    /\ x.audited <=> Method(x.route) \in MutationMethods

LEMMA DispatchedFits ==
    ASSUME NEW x, Dispatchable(x)
    PROVE  /\ Fits(Dispatched(x))
           /\ Dispatched(x).gone = x.gone /\ Dispatched(x).pc # "none"
           /\ Dispatched(x).pc # "over"
<1> USE DEF Dispatchable
<1> DEFINE step == FirstStep(x.route)
<1>1. x.route \in Route
  BY DEF Record
<1>2. CASE x.body = "invalid"
  <2>1. Dispatched(x) = With(x, "ZodError")
    BY <1>2 DEF Dispatched
  <2>2. With(x, "ZodError") \in Record
    BY RecordMoves, AnswerType DEF With
  <2> QED BY <2>1, <2>2 DEF Fits, With, OnItsWay, Pinging, Seen, Told, Record
<1>3. CASE x.body # "invalid" /\ step = "noRoute"
  <2>1. Dispatched(x) = With(x, "noRoute")
    BY <1>3 DEF Dispatched
  <2>2. With(x, "noRoute") \in Record
    BY RecordMoves, AnswerType DEF With
  <2> QED BY <2>1, <2>2 DEF Fits, With, OnItsWay, Pinging, Seen, Told, Record
<1>4. CASE x.body # "invalid" /\ step = "answered"
  <2>1. Dispatched(x) = With(x, "success")
    BY <1>4 DEF Dispatched
  <2>2. With(x, "success") \in Record
    BY RecordMoves, AnswerType DEF With
  <2>3. x.route \notin Mutating /\ x.route \notin ItemWrites
    BY <1>1, <1>4 DEF FirstStep, Mutating, ItemWrites, JobRoutes
  <2> QED BY <2>1, <2>2, <2>3 DEF Fits, With, OnItsWay, Pinging, Seen, Told, Record
<1>5. CASE x.body # "invalid" /\ step = "ping"
  <2>1. Dispatched(x) = [x EXCEPT !.pc = "ping", !.pings = Server]
    BY <1>5 DEF Dispatched
  <2>2. [x EXCEPT !.pc = "ping", !.pings = Server] \in Record
    BY DEF Record
  <2>3. x.route \in HealthRoutes
    BY <1>1, <1>5 DEF FirstStep, HealthRoutes
  <2> QED BY <2>1, <2>2, <2>3 DEF Fits, OnItsWay, Pinging, Seen, Told, Record, Server
<1>6. CASE x.body # "invalid" /\ step \notin {"noRoute", "answered", "ping"}
  <2>1. Dispatched(x) = [x EXCEPT !.pc = step]
    BY <1>6 DEF Dispatched
  <2>2. /\ step \in {"find", "write", "read", "queue"}
        /\ step = "find" => x.route \in {"update", "delete"}
        /\ step = "write" => x.route = "create"
        /\ step = "read" => x.route \in {"list", "show"}
        /\ step = "queue" => x.route \in JobRoutes
    BY <1>1, <1>6 DEF FirstStep
  <2>3. [x EXCEPT !.pc = step] \in Record
    BY <2>2, RecordMoves
  <2> QED BY <2>1, <2>2, <2>3 DEF Fits, OnItsWay, Pinging, Seen, Told, Record, ItemWrites
<1> QED BY <1>2, <1>3, <1>4, <1>5, <1>6

(* Fits depends on the state only through the provider.                    *)
LEMMA FitsStays == ASSUME NEW x, provider' = provider, Fits(x) PROVE Fits(x)'
BY DEF Fits, OnItsWay, Pinging, Blamed, Seen, Told

(* So do the records the requests get.                                     *)
LEMMA FitsStaysAt ==
    ASSUME NEW q \in Request, provider' = provider, Fits(req'[q])
    PROVE  Fits(req[q])'
<1> SUFFICES ASSUME NEW x, x = req'[q], Fits(x) PROVE Fits(req[q])'
  OBVIOUS
<1> QED BY DEF Fits, OnItsWay, Pinging, Blamed, Seen, Told

(* A step of one request from a record that fits to one that fits.         *)
LEMMA RequestStep ==
    ASSUME IInv, NEW r \in Request, NEW x, Fits(x), req' = [req EXCEPT ![r] = x],
           UNCHANGED <<procVars, audit, busVars>>,
           server' \in [Server -> BOOLEAN], faults' \in 0..MaxFaults,
           req[r].pc # "over", x.pc \notin {"none", "over"}, Closing => x.gone,
           (InFlight(r) /\ phase # "down") \/ phase = "listening"
    PROVE  IInv'
<1> USE DEF procVars, busVars
<1>1. /\ req'[r] = x /\ \A q \in Request : q # r => req'[q] = req[q]
      /\ req' \in [Request -> Record]
  BY DEF IInv, FitInv, Fits
<1>2. FitInv'
  <2>1. \A q \in Request : Fits(req'[q])
    BY <1>1 DEF IInv, FitInv
  <2>2. \A q \in Request : Fits(req[q])'
    BY <1>1, <2>1, FitsStaysAt DEF procVars
  <2> QED BY <1>1, <2>2 DEF FitInv
<1>3. PhaseInv'
  <2>1. phase \notin {"boot", "cached", "down"}
    BY DEF IInv, PhaseInv, Closing, InFlight
  <2>3. Closing => \A q \in Request : InFlight(q)' => req'[q].gone
    BY <1>1 DEF IInv, PhaseInv, Closing, InFlight
  <2>4. exit = "no"
    BY <2>1 DEF IInv, PhaseInv, Closing
  <2> QED BY <2>1, <2>3, <2>4 DEF IInv, PhaseInv, Closing
<1>4. BusInv'
  BY DEF IInv, BusInv, BusTypeOK, SubscribersHear, Hearing
<1>5. AuditInv'
  <2>1. \A q \in Request : q # r => Entry(q)' = Entry(q)
    BY <1>1 DEF Entry
  <2>2. \A q \in Request : req'[q].pc = "over" => q # r /\ req'[q] = req[q]
    BY <1>1
  <2>3. \A e \in audit : e.req # r
    BY DEF IInv, AuditInv
  <2> QED BY <1>1, <2>1, <2>2, <2>3 DEF IInv, AuditInv
<1> QED BY <1>2, <1>3, <1>4, <1>5 DEF IInv

(* The same when nothing but the request changes, as in most steps.        *)
LEMMA QuietStep ==
    ASSUME IInv, NEW r \in Request, NEW x, Fits(x), Becomes(r, x), Quiet,
           InFlight(r), Alive, x.pc \notin {"none", "over"}, req[r].gone => x.gone
    PROVE  IInv'
<1>1. UNCHANGED <<procVars, audit, busVars>>
  BY DEF Quiet
<1>2. server' \in [Server -> BOOLEAN] /\ faults' \in 0..MaxFaults
  BY DEF Quiet, IInv, PhaseInv
<1>3. Closing => x.gone
  BY DEF IInv, PhaseInv, Closing
<1>4. req' = [req EXCEPT ![r] = x]
  BY DEF Becomes
<1>5. req[r].pc # "over" /\ phase # "down"
  BY DEF InFlight, Alive
<1> QED BY <1>1, <1>2, <1>3, <1>4, <1>5, RequestStep

LEMMA ArriveInv ==
    ASSUME IInv, NEW r \in Request, NEW m \in Sends[r], Arrive(r, m[1], m[2]) PROVE IInv'
<1> DEFINE y == Arriving(m[1], m[2])
<1>1. m[1] \in Route /\ m[2] \in Body
  OBVIOUS
<1>2. y \in Record /\ y.pc = "body" /\ y.answer = "none" /\ ~y.wrote /\ y.heard = {}
      /\ ~y.failed /\ ~y.audited /\ ~y.gone /\ y.route = m[1]
  BY <1>1 DEF Arriving, NoRequest, Record
<1>a. UNCHANGED <<procVars, audit, busVars>> /\ phase = "listening" /\ req[r].pc # "over"
  BY DEF Arrive, Quiet
<1>b. server' \in [Server -> BOOLEAN] /\ faults' \in 0..MaxFaults
  BY DEF Arrive, Quiet, IInv, PhaseInv
<1>3. CASE m[1] \in Probes
  <2>1. Method(m[1]) \notin MutationMethods
    BY <1>3 DEF Method, MutationMethods, Probes
  <2>2. Dispatchable(y)
    BY <1>2, <2>1 DEF Dispatchable
  <2> HIDE DEF y
  <2>3. Fits(Dispatched(y)) /\ Dispatched(y).pc \notin {"none", "over"}
    BY <2>2, DispatchedFits
  <2>4. req' = [req EXCEPT ![r] = Dispatched(y)]
    BY <1>3 DEF Arrive, Becomes, y
  <2> QED BY <2>3, <2>4, <1>a, <1>b, RequestStep DEF Closing
<1>4. CASE m[1] \notin Probes
  <2>1. Fits(y)
    BY <1>2 DEF Fits, OnItsWay, Pinging, Seen
  <2> HIDE DEF y
  <2>2. req' = [req EXCEPT ![r] = y]
    BY <1>4 DEF Arrive, Becomes, y
  <2> QED BY <2>1, <2>2, <1>2, <1>a, <1>b, RequestStep DEF Closing
<1> QED BY <1>3, <1>4

(* What Fits says of the record of a request under way.                    *)
LEMMA Here ==
    ASSUME IInv, NEW r \in Request
    PROVE  /\ Fits(req[r]) /\ req[r] \in Record
           /\ Closing /\ InFlight(r) => req[r].gone
BY DEF IInv, FitInv, PhaseInv, Closing, Fits

LEMMA BodyInv ==
    ASSUME IInv, NEW r \in Request, ParseBody(r) \/ RejectBody(r) PROVE IInv'
<1>1. Fits(req[r]) /\ req[r] \in Record /\ req[r].pc = "body" /\ Alive /\ Quiet
  BY Here DEF ParseBody, RejectBody, Step
<1>2. InFlight(r)
  BY <1>1 DEF InFlight
<1>3. ~req[r].wrote /\ req[r].heard = {} /\ req[r].answer = "none"
  BY <1>1 DEF Fits, OnItsWay
<1>4. CASE ParseBody(r)
  <2> SUFFICES ASSUME NEW x, x = [req[r] EXCEPT !.audited = Audited(r)] PROVE IInv'
    OBVIOUS
  <2>1. Audited(r) \in BOOLEAN
    BY DEF Audited
  <2>2. x \in Record
    BY <1>1, <2>1, RecordFields
  <2>3. /\ x.pc = "body" /\ x.answer = "none" /\ ~x.wrote /\ x.heard = {} /\ x.gone = req[r].gone
        /\ x.failed = req[r].failed /\ x.audited = Audited(r) /\ x.route = req[r].route
    BY <1>1, <1>3 DEF Record
  <2>4. ~x.failed
    BY <1>1, <2>3 DEF Fits, OnItsWay
  <2>5. Dispatchable(x)
    BY <2>1, <2>2, <2>3, <2>4 DEF Dispatchable, Audited
  <2>6. /\ Fits(Dispatched(x)) /\ Dispatched(x).gone = req[r].gone
        /\ Dispatched(x).pc \notin {"none", "over"}
    BY <2>3, <2>5, DispatchedFits
  <2>7. Becomes(r, Dispatched(x))
    BY <1>4 DEF ParseBody
  <2> SUFFICES ASSUME NEW y, y = Dispatched(x) PROVE IInv'
    OBVIOUS
  <2> QED BY <1>1, <1>2, <2>6, <2>7, QuietStep
<1>5. CASE RejectBody(r)
  <2> SUFFICES ASSUME NEW x, x = With(req[r], "BodyError") PROVE IInv'
    OBVIOUS
  <2>1. x \in Record
    BY <1>1, RecordMoves, AnswerType DEF With
  <2>2. Fits(x) /\ x.gone = req[r].gone /\ x.pc = "answered"
    BY <1>1, <1>3, <2>1 DEF Fits, With, OnItsWay, Pinging, Seen, Told, Record
  <2>3. Becomes(r, x)
    BY <1>5 DEF RejectBody
  <2> QED BY <1>1, <1>2, <2>2, <2>3, QuietStep
<1> QED BY <1>4, <1>5

(* The handlers of the item routes, up to the refresh of the cache.        *)
LEMMA FindInv ==
    ASSUME IInv, NEW r \in Request, Find(r) PROVE IInv'
<1>1. Fits(req[r]) /\ req[r] \in Record /\ req[r].pc = "find" /\ Alive /\ Quiet
  BY Here DEF Find, Step
<1>2. InFlight(r)
  BY <1>1 DEF InFlight
<1>3. CASE Becomes(r, [req[r] EXCEPT !.pc = "write"])
  <2> SUFFICES ASSUME NEW x, x = [req[r] EXCEPT !.pc = "write"] PROVE IInv'
    OBVIOUS
  <2>1. x \in Record
    BY <1>1, RecordMoves
  <2>2. Fits(x) /\ x.gone = req[r].gone /\ x.pc = "write"
    BY <1>1, <2>1 DEF Fits, OnItsWay, Pinging, Seen, Record, ItemWrites
  <2> QED BY <1>1, <1>2, <1>3, <2>2, QuietStep
<1>4. CASE Becomes(r, With(req[r], "NOT_FOUND"))
  <2> SUFFICES ASSUME NEW x, x = With(req[r], "NOT_FOUND") PROVE IInv'
    OBVIOUS
  <2>1. x \in Record
    BY <1>1, RecordMoves, AnswerType DEF With
  <2>2. Fits(x) /\ x.gone = req[r].gone /\ x.pc = "answered"
    BY <1>1, <2>1 DEF Fits, With, OnItsWay, Pinging, Seen, Told, Record
  <2> QED BY <1>1, <1>2, <1>4, <2>2, QuietStep
<1> QED BY <1>3, <1>4 DEF Find

LEMMA ReadInv ==
    ASSUME IInv, NEW r \in Request, Read(r) PROVE IInv'
<1>1. Fits(req[r]) /\ req[r] \in Record /\ req[r].pc = "read" /\ Alive /\ Quiet
  BY Here DEF Read, Step
<1>2. InFlight(r)
  BY <1>1 DEF InFlight
<1> SUFFICES ASSUME NEW a \in {"success", "NOT_FOUND"}, NEW x, x = With(req[r], a),
                    Becomes(r, x)
             PROVE  IInv'
  BY DEF Read
<1>3. x \in Record
  BY <1>1, RecordMoves, AnswerType DEF With
<1>4. req[r].route \notin Mutating /\ req[r].route \notin ItemWrites
  BY <1>1 DEF Fits, OnItsWay, Mutating, ItemWrites
<1>5. Fits(x) /\ x.gone = req[r].gone /\ x.pc = "answered"
  BY <1>1, <1>3, <1>4 DEF Fits, With, OnItsWay, Pinging, Seen, Told, Record
<1> QED BY <1>1, <1>2, <1>5, QuietStep

LEMMA WriteInv ==
    ASSUME IInv, NEW r \in Request, Write(r) PROVE IInv'
<1>1. Fits(req[r]) /\ req[r] \in Record /\ req[r].pc = "write" /\ Alive /\ Quiet
  BY Here DEF Write, Step
<1>2. InFlight(r)
  BY <1>1 DEF InFlight
<1>3. CASE Becomes(r, [req[r] EXCEPT !.pc = "refresh", !.wrote = TRUE])
  <2> SUFFICES ASSUME NEW x, x = [[req[r] EXCEPT !.pc = "refresh"] EXCEPT !.wrote = TRUE]
               PROVE  IInv'
    OBVIOUS
  <2>1. x \in Record
    BY <1>1, RecordMoves, RecordFields
  <2>2. Fits(x) /\ x.gone = req[r].gone /\ x.pc = "refresh"
    BY <1>1, <2>1 DEF Fits, OnItsWay, Pinging, Seen, Record
  <2>3. Becomes(r, x)
    BY <1>3
  <2> QED BY <1>1, <1>2, <2>2, <2>3, QuietStep
<1>4. CASE Becomes(r, With(req[r], "INTERNAL"))
  <2> SUFFICES ASSUME NEW x, x = With(req[r], "INTERNAL") PROVE IInv'
    OBVIOUS
  <2>1. x \in Record
    BY <1>1, RecordMoves, AnswerType DEF With
  <2>2. Fits(x) /\ x.gone = req[r].gone /\ x.pc = "answered"
    BY <1>1, <2>1 DEF Fits, With, OnItsWay, Pinging, Seen, Told, Record
  <2> QED BY <1>1, <1>2, <1>4, <2>2, QuietStep
<1> QED BY <1>3, <1>4 DEF Write

LEMMA PublishInv ==
    ASSUME IInv, NEW r \in Request, Publish(r) PROVE IInv'
<1>1. Fits(req[r]) /\ req[r] \in Record /\ req[r].pc = "refresh" /\ Alive /\ Quiet
  BY Here DEF Publish, Step
<1>2. InFlight(r)
  BY <1>1 DEF InFlight
<1>3. req[r].route \in DOMAIN EventOf /\ req[r].wrote
  BY <1>1 DEF Fits, OnItsWay, ItemWrites, EventOf
<1>4. phase \notin {"boot", "cached", "down"}
  BY <1>1 DEF IInv, PhaseInv, Closing, Alive
<1>5. Logger \in Hearing(EventOf[req[r].route])
  BY <1>3, <1>4 DEF IInv, PhaseInv, BusInv
<1> SUFFICES ASSUME NEW h, h = Hearing(EventOf[req[r].route]),
                    NEW x, x = [With(req[r], "success") EXCEPT !.heard = h]
             PROVE  IInv'
  OBVIOUS
<1>6. h \in SUBSET Handler
  BY DEF Hearing
<1>7. x \in Record
  BY <1>1, <1>6, RecordMoves, RecordFields, AnswerType DEF With
<1>8. Fits(x) /\ x.gone = req[r].gone /\ x.pc = "answered"
  BY <1>1, <1>3, <1>5, <1>7 DEF Fits, With, OnItsWay, Pinging, Seen, Told, Record
<1>9. Becomes(r, x)
  BY DEF Publish
<1> QED BY <1>1, <1>2, <1>8, <1>9, QuietStep

(* A driver error names the server that was away, unless the connections   *)
(* were closing, when nobody is left to be told.                           *)
LEMMA ErringFits ==
    ASSUME NEW r \in Request, Fits(req[r]), NEW s \in Server,
           req[r].pc \in {"find", "read", "write", "queue"},
           s = IF req[r].pc = "queue" THEN "redis" ELSE "mongo",
           ~server[s] \/ req[r].gone
    PROVE  /\ Fits(Erring(r, s)) /\ Erring(r, s).gone = req[r].gone
           /\ Erring(r, s).pc = "answered" /\ Erring(r, s).answer = "Error"
<1> SUFFICES ASSUME NEW d, d = {s} \cap Away, NEW x, x = [With(req[r], "Error") EXCEPT !.down = d]
             PROVE  Fits(x) /\ x.gone = req[r].gone /\ x.pc = "answered" /\ x.answer = "Error"
  BY DEF Erring
<1>1. d \in SUBSET Server /\ req[r] \in Record
  BY DEF Fits
<1>2. x \in Record
  BY <1>1, RecordMoves, RecordFields, AnswerType DEF With
<1>3. ~server[s] => s \in d
  BY DEF Away
<1>4. IF req[r].route \in JobRoutes THEN req[r].pc = "queue" ELSE req[r].pc # "queue"
  BY DEF Fits, OnItsWay, JobRoutes, ItemWrites
<1> QED BY <1>1, <1>2, <1>3, <1>4 DEF Fits, With, OnItsWay, Pinging, Seen, Told, Record

LEMMA MongoErrorInv ==
    ASSUME IInv, NEW r \in Request, MongoError(r) PROVE IInv'
<1>1. /\ Fits(req[r]) /\ req[r] \in Record /\ req[r].pc \in {"find", "read", "write"}
      /\ Alive /\ Quiet
  BY Here DEF MongoError
<1>2. InFlight(r)
  BY <1>1 DEF InFlight
<1>3. ~server["mongo"] \/ req[r].gone
  BY <1>2, Here DEF MongoError, Errs
<1>4. "mongo" \in Server /\ req[r].pc # "queue"
  BY <1>1 DEF Server
<1>5. /\ Fits(Erring(r, "mongo")) /\ Erring(r, "mongo").gone = req[r].gone
      /\ Erring(r, "mongo").pc = "answered" /\ Erring(r, "mongo").answer = "Error"
  BY <1>1, <1>3, <1>4, ErringFits
<1> SUFFICES ASSUME NEW x, x = Erring(r, "mongo") PROVE IInv'
  OBVIOUS
<1>6. CASE Becomes(r, x)
  BY <1>1, <1>2, <1>5, <1>6, QuietStep
<1>7. CASE Becomes(r, [x EXCEPT !.wrote = TRUE])
  <2> SUFFICES ASSUME NEW y, y = [x EXCEPT !.wrote = TRUE] PROVE IInv'
    OBVIOUS
  <2>1. x \in Record
    BY <1>5 DEF Fits
  <2>2. y \in Record
    BY <2>1, RecordFields
  <2>3. Fits(y) /\ y.gone = req[r].gone /\ y.pc = "answered"
    BY <1>5, <2>1, <2>2 DEF Fits, OnItsWay, Pinging, Seen, Told, Record
  <2> QED BY <1>1, <1>2, <1>7, <2>3, QuietStep
<1> QED BY <1>6, <1>7 DEF MongoError

(* The handlers of the job routes.                                         *)
LEMMA QueueInv ==
    ASSUME IInv, NEW r \in Request, Enqueue(r) \/ QueueError(r) PROVE IInv'
<1>1. Fits(req[r]) /\ req[r] \in Record /\ req[r].pc = "queue" /\ Alive /\ Quiet
  BY Here DEF Enqueue, QueueError, Step
<1>2. InFlight(r)
  BY <1>1 DEF InFlight
<1>3. CASE Enqueue(r)
  <2> SUFFICES ASSUME NEW w, w = (req[r].route \in Mutating),
                      NEW x, x = [With(req[r], "success") EXCEPT !.wrote = w]
               PROVE  IInv'
    OBVIOUS
  <2>1. w \in BOOLEAN /\ (w <=> req[r].route \in Mutating)
    <3>1. w \in BOOLEAN
      OBVIOUS
    <3>2. w <=> req[r].route \in Mutating
      BY Zenon
    <3> QED BY <3>1, <3>2
  <2>2. x \in Record
    BY <1>1, <2>1, RecordMoves, RecordFields, AnswerType DEF With
  <2>3. req[r].route \notin ItemWrites
    BY <1>1 DEF Fits, OnItsWay, JobRoutes, ItemWrites
  <2>4. Fits(x) /\ x.gone = req[r].gone /\ x.pc = "answered"
    BY <1>1, <2>1, <2>2, <2>3 DEF Fits, With, OnItsWay, Pinging, Seen, Told, Record
  <2>5. Becomes(r, x)
    BY <1>3, Zenon DEF Enqueue
  <2> QED BY <1>1, <1>2, <2>4, <2>5, QuietStep
<1>4. CASE QueueError(r)
  <2>1. "redis" \in Server /\ ~server["redis"]
    BY <1>4 DEF Server, QueueError
  <2>2. Fits(Erring(r, "redis")) /\ Erring(r, "redis").gone = req[r].gone
        /\ Erring(r, "redis").pc = "answered"
    BY <1>1, <2>1, ErringFits
  <2> SUFFICES ASSUME NEW x, x = Erring(r, "redis") PROVE IInv'
    OBVIOUS
  <2>3. Becomes(r, x)
    BY <1>4 DEF QueueError
  <2> QED BY <1>1, <1>2, <2>2, <2>3, QuietStep
<1> QED BY <1>3, <1>4

LEMMA EffectUnackedInv ==
    ASSUME IInv, NEW r \in Request, NEW s \in Server, EffectUnacked(r, s) PROVE IInv'
<1>1. /\ Fits(req[r]) /\ req[r] \in Record /\ Alive
      /\ req[r].pc = IF s = "mongo" THEN "write" ELSE "queue"
      /\ Closing /\ InFlight(r) => req[r].gone
  BY Here DEF EffectUnacked
<1>2. InFlight(r)
  BY <1>1 DEF InFlight
<1> SUFFICES ASSUME NEW x, x = [With(req[r], "Error") EXCEPT !.wrote = TRUE, !.down = {s}]
             PROVE  IInv'
  OBVIOUS
<1>3. x \in Record
  <2>1. With(req[r], "Error") \in Record
    BY <1>1, RecordMoves, AnswerType DEF With
  <2> SUFFICES ASSUME NEW y \in Record, NEW d \in SUBSET Server
               PROVE  [y EXCEPT !.wrote = TRUE, !.down = d] \in Record
    BY <2>1
  <2> QED BY RecordFields
<1>4. IF req[r].route \in JobRoutes THEN s = "redis" ELSE s = "mongo"
  BY <1>1 DEF Fits, OnItsWay, JobRoutes, ItemWrites, Server
<1>5. Fits(x) /\ x.gone = req[r].gone /\ x.pc = "answered"
  BY <1>1, <1>3, <1>4 DEF Fits, With, OnItsWay, Pinging, Seen, Told, Record
<1>6. req' = [req EXCEPT ![r] = x] /\ UNCHANGED <<procVars, audit, busVars>>
  BY DEF EffectUnacked, Becomes
<1>7. server' \in [Server -> BOOLEAN] /\ faults' \in 0..MaxFaults
  BY DEF EffectUnacked, Fault, IInv, PhaseInv
<1>8. req[r].pc # "over" /\ phase # "down" /\ (Closing => x.gone)
  BY <1>1, <1>2, <1>5 DEF Alive, InFlight
<1> QED BY <1>2, <1>5, <1>6, <1>7, <1>8, RequestStep

LEMMA ClientLeavesInv ==
    ASSUME IInv, NEW r \in Request, ClientLeaves(r) PROVE IInv'
<1>1. Fits(req[r]) /\ req[r] \in Record /\ InFlight(r) /\ Alive
  BY Here DEF ClientLeaves
<1> SUFFICES ASSUME NEW x, x = [req[r] EXCEPT !.gone = TRUE] PROVE IInv'
  OBVIOUS
<1>2. x \in Record
  BY <1>1, RecordFields
<1>3. Fits(x) /\ x.gone /\ x.pc = req[r].pc
  BY <1>1, <1>2 DEF Fits, OnItsWay, Pinging, Seen, Told, Record
<1>4. req' = [req EXCEPT ![r] = x] /\ UNCHANGED <<procVars, audit, busVars>>
  BY DEF ClientLeaves
<1>5. server' \in [Server -> BOOLEAN] /\ faults' \in 0..MaxFaults
  BY DEF ClientLeaves, Fault, IInv, PhaseInv
<1>6. req[r].pc \notin {"none", "over"} /\ phase # "down"
  BY <1>1 DEF Alive, InFlight
<1> QED BY <1>1, <1>3, <1>4, <1>5, <1>6, RequestStep

(* The record of a health check fits as long as its pings do.              *)
LEMMA PingFits ==
    ASSUME NEW x, Fits(x), NEW z \in Record, x.pc = "ping", z.pc = "ping", z.route = x.route,
           z.answer = x.answer, z.wrote = x.wrote, z.heard = x.heard, z.audited = x.audited,
           Pinging(z)
    PROVE  Fits(z)
<1>1. OnItsWay(z) /\ Seen(z)
  BY DEF Fits, OnItsWay, Seen
<1> QED BY <1>1 DEF Fits

(* A ping that is answered has met its server up, or asked no server.      *)
LEMMA PingInv ==
    ASSUME IInv, NEW r \in Request, NEW s \in Server, Ping(r, s) PROVE IInv'
<1>1. /\ Fits(req[r]) /\ req[r] \in Record /\ req[r].pc = "ping" /\ Alive /\ Quiet
      /\ s \in req[r].pings /\ (Closing /\ InFlight(r) => req[r].gone)
  BY Here DEF Ping, Step
<1>2. InFlight(r)
  BY <1>1 DEF InFlight
<1>3. /\ ~req[r].wrote /\ req[r].heard = {} /\ req[r].route \in HealthRoutes
      /\ ~req[r].failed => /\ "mongo" \in req[r].pings \cup req[r].up
                           /\ "redis" \in req[r].pings \cup req[r].up \/ provider = "noop"
      /\ req[r].failed /\ ~req[r].gone => Blamed(req[r])
  BY <1>1 DEF Fits, OnItsWay, Pinging
<1>0. SUFFICES ASSUME NEW y, y = [req[r] EXCEPT !.pings = @ \ {s}] PROVE IInv'
  OBVIOUS
<1>4. y \in Record
  <2> SUFFICES ASSUME NEW d, d = req[r].pings \ {s} PROVE [req[r] EXCEPT !.pings = d] \in Record
    BY <1>0
  <2>1. d \in SUBSET Server
    BY <1>1 DEF Record
  <2> QED BY <1>1, <2>1, RecordFields
<1>5. /\ y.pc = "ping" /\ y.route = req[r].route /\ y.answer = req[r].answer
      /\ y.gone = req[r].gone /\ y.wrote = req[r].wrote /\ y.heard = req[r].heard
      /\ y.pings = req[r].pings \ {s} /\ y.failed = req[r].failed /\ y.up = req[r].up
      /\ y.down = req[r].down /\ y.audited = req[r].audited
  BY <1>0, <1>1 DEF Record
<1>6. SUFFICES ASSUME NEW z, z \in Record, z.pc = "ping", Fits(z), z.gone = req[r].gone,
                      Becomes(r, Verdict(z))
               PROVE  IInv'
  <2>1. CASE PingAnswers(s) /\ Becomes(r, Verdict([y EXCEPT !.up = @ \cup ({s} \ Away)]))
    <3>0. SUFFICES ASSUME NEW u, u = y.up \cup ({s} \ Away), NEW z, z = [y EXCEPT !.up = u],
                        Becomes(r, Verdict(z))
                 PROVE  z \in Record /\ z.pc = "ping" /\ Fits(z) /\ z.gone = req[r].gone
      BY <2>1, <1>6
    <3>1. u \in SUBSET Server
      BY <1>4, <3>0 DEF Record
    <3>2. z \in Record
      BY <1>4, <3>0, <3>1, RecordFields
    <3>3. s \in u \/ (s = "redis" /\ provider = "noop")
      BY <2>1, <3>0 DEF PingAnswers, Works, Away
    <3>4. /\ z.pc = "ping" /\ z.route = y.route /\ z.answer = y.answer /\ z.gone = y.gone
          /\ z.wrote = y.wrote /\ z.heard = y.heard /\ z.pings = y.pings /\ z.up = u
          /\ z.failed = y.failed /\ z.down = y.down /\ z.audited = y.audited
      BY <1>4, <1>5, <3>0 DEF Record
    <3>5. Pinging(z)
      <4>1. \A n \in Server : n \in req[r].pings \cup req[r].up =>
               n \in z.pings \cup z.up \/ (n = "redis" /\ provider = "noop")
        BY <1>5, <3>0, <3>3, <3>4
      <4>2. z.failed = req[r].failed /\ z.gone = req[r].gone /\ z.down = req[r].down
        BY <1>5, <3>4
      <4>3. "mongo" \in Server /\ "redis" \in Server
        BY DEF Server
      <4> QED BY <1>3, <4>1, <4>2, <4>3 DEF Pinging, Blamed
    <3>6. Fits(z)
      BY <1>1, <1>5, <3>2, <3>4, <3>5, PingFits
    <3> QED BY <1>5, <3>2, <3>4, <3>6
  <2>2. CASE /\ PingErrs(s)
             /\ Becomes(r, Verdict([y EXCEPT !.failed = TRUE, !.down = @ \cup ({s} \cap Away)]))
    <3>0. SUFFICES ASSUME NEW d, d = y.down \cup ({s} \cap Away),
                        NEW z, z = [y EXCEPT !.failed = TRUE, !.down = d],
                        Becomes(r, Verdict(z))
                 PROVE  z \in Record /\ z.pc = "ping" /\ Fits(z) /\ z.gone = req[r].gone
      BY <2>2, <1>6
    <3>1. d \in SUBSET Server
      BY <1>4, <3>0 DEF Record
    <3>2. z \in Record
      BY <1>4, <3>0, <3>1, RecordFields
    <3>3. req[r].gone \/ (s \in d /\ (s = "redis" => provider = "redis"))
      BY <2>2, <1>1, <1>2, <3>0 DEF PingErrs, Errs, Away
    <3>4. /\ z.pc = "ping" /\ z.route = y.route /\ z.answer = y.answer /\ z.gone = y.gone
          /\ z.wrote = y.wrote /\ z.heard = y.heard /\ z.pings = y.pings /\ z.up = y.up
          /\ z.failed /\ z.down = d /\ z.audited = y.audited
      BY <1>4, <1>5, <3>0 DEF Record
    <3>5. Pinging(z)
      <4>1. z.gone \/ (s \in z.down /\ (s = "redis" => provider = "redis"))
        BY <1>5, <3>3, <3>4
      <4>2. s = "mongo" \/ s = "redis"
        BY DEF Server
      <4> QED BY <3>4, <4>1, <4>2 DEF Pinging, Blamed
    <3>6. Fits(z)
      BY <1>1, <1>5, <3>2, <3>4, <3>5, PingFits
    <3> QED BY <1>5, <3>2, <3>4, <3>6
  <2> QED BY <1>0, <1>1, <2>1, <2>2 DEF Ping
<1>7. CASE z.pings # {} /\ ~(z.failed /\ z.route = "readyz")
  <2>1. Verdict(z) = z
    BY <1>7 DEF Verdict
  <2> QED BY <1>1, <1>2, <1>6, <2>1, QuietStep
<1>8. CASE ~(z.pings # {} /\ ~(z.failed /\ z.route = "readyz"))
  <2> SUFFICES ASSUME NEW a, a = IF z.failed THEN "DOWN" ELSE "UP", NEW x, x = With(z, a)
               PROVE  IInv'
    OBVIOUS
  <2>1. Becomes(r, x)
    BY <1>6, <1>8 DEF Verdict
  <2>2. x \in Record
    BY <1>6, RecordMoves, AnswerType DEF With
  <2>3. ~z.failed => z.pings = {}
    BY <1>8
  <2>4. Fits(x) /\ x.gone = req[r].gone /\ x.pc = "answered"
    BY <1>6, <2>2, <2>3
       DEF Fits, With, OnItsWay, Pinging, Blamed, Seen, Told, Record, HealthRoutes,
           ItemWrites, Mutating
  <2> QED BY <1>1, <1>2, <2>1, <2>4, QuietStep
<1> QED BY <1>7, <1>8

(* The end of a request adds the entry of this request and no other.       *)
LEMMA FinishInv ==
    ASSUME IInv, NEW r \in Request, Finish(r) PROVE IInv'
<1> USE DEF procVars, busVars
<1>1. Fits(req[r]) /\ req[r] \in Record /\ req[r].pc = "answered" /\ phase # "down"
  BY Here DEF Finish, Step, Alive
<1> SUFFICES ASSUME NEW x,
                    x = [req[r] EXCEPT !.pc = "over", !.heard = {}, !.up = {}, !.down = {},
                                       !.pings = {}, !.failed = FALSE]
             PROVE  IInv'
  OBVIOUS
<1>2. /\ x.pc = "over" /\ x.route = req[r].route /\ x.answer = req[r].answer
      /\ x.gone = req[r].gone /\ x.audited = req[r].audited /\ x.wrote = req[r].wrote
  BY <1>1 DEF Record
<1>3. x \in Record
  <2> SUFFICES ASSUME NEW h \in SUBSET Handler, NEW n \in SUBSET Server
               PROVE  [req[r] EXCEPT !.pc = "over", !.heard = h, !.up = n, !.down = n,
                                     !.pings = n, !.failed = FALSE] \in Record
    OBVIOUS
  <2> QED BY <1>1, RecordEnds
<1>4. Fits(x)
  BY <1>1, <1>2, <1>3 DEF Fits, OnItsWay, Pinging, Seen
<1>5. /\ req'[r] = x /\ \A q \in Request : q # r => req'[q] = req[q]
      /\ req' \in [Request -> Record]
  BY <1>3 DEF Finish, Becomes, IInv, FitInv
<1>6. FitInv'
  <2>1. \A q \in Request : Fits(req'[q])
    BY <1>4, <1>5 DEF IInv, FitInv
  <2>2. \A q \in Request : Fits(req[q])'
    BY <1>5, <2>1, FitsStaysAt DEF Finish
  <2> QED BY <1>5, <2>2 DEF FitInv
<1>7. PhaseInv'
  <2>1. phase \notin {"boot", "cached", "down"} /\ exit = "no"
    BY <1>1 DEF IInv, PhaseInv, Closing
  <2>2. Closing => \A q \in Request : InFlight(q)' => req'[q].gone
    BY <1>2, <1>5 DEF IInv, PhaseInv, Closing, InFlight
  <2> QED BY <1>5, <2>1, <2>2 DEF Finish, IInv, PhaseInv, Closing
<1>8. BusInv'
  BY DEF Finish, IInv, BusInv, BusTypeOK, SubscribersHear, Hearing
<1>9. AuditInv'
  <2>1. \A q \in Request : Entry(q)' = Entry(q)
    BY <1>2, <1>5 DEF Entry
  <2>2. audit' = IF req[r].audited /\ ~req[r].gone THEN audit \cup {Entry(r)} ELSE audit
    BY DEF Finish
  <2>3. \A q \in Request : req'[q].pc = "over" /\ req'[q].audited /\ ~req'[q].gone =>
            Entry(q)' \in audit'
    <3>1. ASSUME NEW q \in Request, q # r,
                 req'[q].pc = "over", req'[q].audited, ~req'[q].gone
          PROVE  Entry(q)' \in audit'
      BY <1>5, <2>1, <2>2, <3>1 DEF IInv, AuditInv
    <3>2. ASSUME req'[r].audited, ~req'[r].gone PROVE Entry(r)' \in audit'
      BY <1>2, <1>5, <2>1, <2>2, <3>2
    <3> QED BY <3>1, <3>2
  <2>4. ASSUME NEW e \in audit'
        PROVE  /\ e.req \in Request /\ e = Entry(e.req)
               /\ req'[e.req].pc = "over" /\ ~req'[e.req].gone /\ req'[e.req].audited
    <3>1. CASE e \in audit
      BY <1>1, <1>5, <3>1 DEF IInv, AuditInv
    <3>2. CASE e \notin audit
      <4>1. e = Entry(r) /\ req[r].audited /\ ~req[r].gone
        BY <2>2, <3>2
      <4>2. e.req = r
        BY <4>1 DEF Entry
      <4> QED BY <1>2, <1>5, <4>1, <4>2
    <3> QED BY <3>1, <3>2
  <2>5. \A e \in audit' : e.req \in Request /\ e = Entry(e.req)'
    BY <2>1, <2>4
  <2> QED BY <2>3, <2>4, <2>5 DEF AuditInv
<1> QED BY <1>6, <1>7, <1>8, <1>9 DEF IInv

(***************************************************************************)
(* The process and its servers.                                            *)
(***************************************************************************)
(* The parts of the invariant that such a step leaves alone.               *)
LEMMA FitKept ==
    ASSUME IInv, UNCHANGED <<req, provider>> PROVE FitInv'
BY DEF IInv, FitInv, Fits, OnItsWay, Pinging, Blamed, Seen, Told

LEMMA AuditKept ==
    ASSUME IInv, UNCHANGED <<req, audit>> PROVE AuditInv'
BY DEF IInv, AuditInv, Entry

LEMMA BusKept ==
    ASSUME IInv, UNCHANGED busVars,
           phase' \in {"listening", "draining", "closing", "closed"} =>
               phase \in {"listening", "draining", "closing", "closed"}
    PROVE  BusInv'
BY DEF IInv, BusInv, busVars, BusTypeOK, SubscribersHear, Hearing

LEMMA ServerInv ==
    ASSUME IInv, NEW s \in Server, Outage(s) \/ Recovery(s) PROVE IInv'
<1> USE DEF procVars
<1>1. UNCHANGED <<procVars, req, audit, busVars>>
  BY DEF Outage, Recovery
<1>2. server' \in [Server -> BOOLEAN] /\ faults' \in 0..MaxFaults
  <2>1. server \in [Server -> BOOLEAN] /\ faults \in 0..MaxFaults
    BY DEF IInv, PhaseInv
  <2>2. CASE Outage(s)
    BY <2>1, <2>2 DEF Outage, Fault
  <2>3. CASE Recovery(s)
    BY <2>1, <2>3 DEF Recovery
  <2> QED BY <2>2, <2>3
<1>3. PhaseInv'
  BY <1>1, <1>2 DEF IInv, PhaseInv, Closing, InFlight
<1> QED BY <1>1, <1>3, FitKept, AuditKept, BusKept DEF IInv

LEMMA BootInv ==
    ASSUME IInv, Boot PROVE IInv'
<1>1. CASE InitCache
  <2>1. \A r \in Request : req[r].pc = "none"
    BY <1>1 DEF InitCache, IInv, PhaseInv
  <2>2. PhaseInv'
    BY <1>1, <2>1 DEF InitCache, IInv, PhaseInv, Closing, InFlight, Server, Connection
  <2>3. FitInv'
    BY <1>1, <2>1 DEF InitCache, IInv, FitInv, Fits, OnItsWay, Pinging, Seen
  <2> QED BY <1>1, <2>2, <2>3, AuditKept, BusKept DEF InitCache, IInv
<1>2. CASE Start
  <2>1. PhaseInv'
    BY <1>2 DEF Start, IInv, PhaseInv, Closing, InFlight, Server, Connection
  <2>2. Registered \in SUBSET (Event \X Handler)
    BY DEF Registered
  <2>3. /\ BusTypeOK' /\ SubscribersHear'
        /\ \A e \in Event, h \in Handler : <<e, h>> \in Registered => h \in Hearing(e)'
    BY <1>2, <2>2, SubscribeKeeps DEF Start, IInv, BusInv
  <2>4. BusInv'
    BY <2>3 DEF BusInv, Registered
  <2> QED BY <1>2, <2>1, <2>4, FitKept, AuditKept DEF Start, IInv
<1>3. CASE StartFails
  <2>1. PhaseInv'
    BY <1>3 DEF StartFails, IInv, PhaseInv, Closing, InFlight
  <2> QED BY <1>3, <2>1, FitKept, AuditKept, BusKept DEF StartFails, IInv
<1>4. CASE QueueReady
  <2>1. PhaseInv'
    BY <1>4 DEF QueueReady, IInv, PhaseInv, Closing, InFlight, Server, Connection
  <2> QED BY <1>4, <2>1, FitKept, AuditKept, BusKept DEF QueueReady, IInv
<1> QED BY <1>1, <1>2, <1>3, <1>4 DEF Boot

(* A handler of another module comes and goes: the logger stays.           *)
LEMMA BusCallInv ==
    ASSUME IInv, NEW v \in Visitors, BusCall(v[1], v[2]) PROVE IInv'
<1> USE DEF procVars
<1>1. v[1] \in Event /\ v[2] \in Handler /\ v[2] # Logger
  OBVIOUS
<1>2. UNCHANGED <<procVars, server, req, audit, faults>>
  BY DEF BusCall
<1>3. phase \in {"listening", "draining"} /\ BusTypeOK /\ SubscribersHear
      /\ \A e \in Event : Logger \in Hearing(e)
  BY DEF BusCall, IInv, BusInv
<1>4. PhaseInv'
  BY <1>2 DEF IInv, PhaseInv, Closing, InFlight
<1>5. BusInv'
  <2>1. CASE Subscribe(v[1], v[2])
    <3>1. {<<v[1], v[2]>>} \in SUBSET (Event \X Handler)
      BY <1>1
    <3>2. BusTypeOK' /\ SubscribersHear' /\ \A e \in Event, h \in Handler :
              h \in Hearing(e) => h \in Hearing(e)'
      BY <1>3, <2>1, <3>1, SubscribeKeeps DEF Subscribe
    <3> QED BY <1>3, <3>2 DEF BusInv
  <2>2. CASE Unsubscribe(v[1], v[2])
    <3>1. BusTypeOK' /\ SubscribersHear'
          /\ \A f \in Event, g \in Handler : <<f, g>> # <<v[1], v[2]>> /\ g \in Hearing(f) =>
                 g \in Hearing(f)'
      BY <1>1, <1>3, <2>2, UnsubscribeKeeps
    <3> QED BY <1>1, <1>3, <3>1 DEF BusInv
  <2> QED BY <2>1, <2>2 DEF BusCall
<1> QED BY <1>2, <1>4, <1>5, FitKept, AuditKept DEF IInv

(* A signal, and the shutdown: a drain that runs out takes the clients away*)
(* and leaves the rest of their requests as it was.                        *)
LEMMA TimeoutInv ==
    ASSUME IInv, DrainTimeout PROVE IInv'
<1>1. UNCHANGED <<exit, listeners, provider, conn, server, audit, busVars, faults>>
      /\ phase = "draining" /\ phase' = "closing"
  BY DEF DrainTimeout
<1>2. \A r \in Request : req[r] \in Record /\ Fits(req[r])
  BY DEF IInv, FitInv
<1>3. ASSUME NEW r \in Request
      PROVE  /\ req'[r] \in Record /\ Fits(req'[r]) /\ Entry(r)' = Entry(r)
             /\ req'[r].pc = req[r].pc /\ req'[r].audited = req[r].audited
             /\ (InFlight(r) => req'[r].gone) /\ (~InFlight(r) => req'[r] = req[r])
  <2>1. CASE InFlight(r)
    <3> SUFFICES ASSUME NEW x, x = [req[r] EXCEPT !.gone = TRUE]
                 PROVE  /\ x \in Record /\ Fits(x) /\ x.gone
                        /\ x.pc = req[r].pc /\ x.audited = req[r].audited
                        /\ x.route = req[r].route /\ x.answer = req[r].answer
      BY <2>1 DEF DrainTimeout, Entry
    <3>1. x \in Record
      BY <1>2, RecordFields
    <3> QED BY <1>2, <3>1 DEF Fits, OnItsWay, Pinging, Seen, Told, Record
  <2>2. CASE ~InFlight(r)
    <3>1. req'[r] = req[r]
      BY <2>2 DEF DrainTimeout
    <3> QED BY <1>2, <2>2, <3>1 DEF Entry
  <2> QED BY <2>1, <2>2
<1>4. FitInv'
  <2>1. req' \in [Request -> Record]
    BY <1>3 DEF DrainTimeout
  <2>2. \A r \in Request : Fits(req[r])'
    BY <1>1, <1>3 DEF Fits, OnItsWay, Pinging, Blamed, Seen, Told
  <2> QED BY <2>1, <2>2 DEF FitInv
<1>5. PhaseInv'
  <2>1. \A r \in Request : InFlight(r)' => req'[r].gone
    BY <1>3 DEF InFlight
  <2> QED BY <1>1, <2>1 DEF IInv, PhaseInv, Closing
<1>6. BusInv'
  BY <1>1, BusKept
<1>7. AuditInv'
  <2>1. \A r \in Request : req[r].pc = "over" => req'[r] = req[r] /\ Entry(r)' = Entry(r)
    BY <1>3 DEF InFlight
  <2>2. \A r \in Request : req'[r].pc = "over" => req[r].pc = "over"
    BY <1>3
  <2> QED BY <1>1, <2>1, <2>2 DEF IInv, AuditInv
<1> QED BY <1>4, <1>5, <1>6, <1>7 DEF IInv

LEMMA ShutdownInv ==
    ASSUME IInv, Shutdown \/ Signal PROVE IInv'
<1>1. CASE DrainDone
  <2>1. PhaseInv'
    BY <1>1 DEF DrainDone, Drained, IInv, PhaseInv, Closing, InFlight
  <2> QED BY <1>1, <2>1, FitKept, AuditKept, BusKept DEF DrainDone, IInv
<1>2. CASE DrainTimeout
  BY <1>2, TimeoutInv
<1>3. ASSUME NEW s \in Server, Disconnect(s) PROVE IInv'
  <2>1. /\ conn' \in [Connection -> {"none", "waiting", "open", "closed", "failed"}]
        /\ (\A q \in Server : conn'[q] \in {"open", "closed", "failed"}) /\ phase = "closing"
    BY <1>3 DEF Disconnect, IInv, PhaseInv, Connection
  <2>2. PhaseInv'
    BY <1>3, <2>1 DEF Disconnect, IInv, PhaseInv, Closing, InFlight
  <2> QED BY <1>3, <2>2, FitKept, AuditKept, BusKept DEF Disconnect, IInv
<1>4. CASE Resend
  <2>1. \A s \in Server : conn[s] \in {"closed", "failed"}
    BY <1>4 DEF Resend, Settled, IInv, PhaseInv
  <2>2. \/ phase' = "down" /\ exit' = "signal"
        \/ phase' = "closed" /\ exit' = exit
    BY <1>4 DEF Resend
  <2>3. PhaseInv'
    BY <1>4, <2>1, <2>2 DEF Resend, IInv, PhaseInv, Closing, InFlight
  <2>4. BusInv'
    BY <1>4, <2>2, BusKept DEF Resend
  <2> QED BY <1>4, <2>3, <2>4, FitKept, AuditKept DEF Resend, IInv
<1>5. CASE Signal
  <2>1. PhaseInv'
    BY <1>5 DEF Signal, IInv, PhaseInv, Closing, InFlight
  <2>2. phase' = "draining" /\ phase = "listening"
    BY <1>5 DEF Signal
  <2> QED BY <1>5, <2>1, <2>2, FitKept, AuditKept, BusKept DEF Signal, IInv
<1> QED BY <1>1, <1>2, <1>3, <1>4, <1>5 DEF Shutdown

(***************************************************************************)
(* The specification.                                                      *)
(***************************************************************************)
LEMMA NextInv == IInv /\ [Next]_vars => IInv'
<1> SUFFICES ASSUME IInv, [Next]_vars PROVE IInv'
  OBVIOUS
<1>1. CASE Own
  <2>1. ASSUME NEW r \in Request, Progress(r) PROVE IInv'
    <3>1. CASE ParseBody(r) \/ RejectBody(r)
      BY <3>1, BodyInv
    <3>2. CASE Find(r)
      BY <3>2, FindInv
    <3>3. CASE Read(r)
      BY <3>3, ReadInv
    <3>4. CASE Write(r)
      BY <3>4, WriteInv
    <3>5. CASE MongoError(r)
      BY <3>5, MongoErrorInv
    <3>6. CASE Publish(r)
      BY <3>6, PublishInv
    <3>7. CASE Enqueue(r) \/ QueueError(r)
      BY <3>7, QueueInv
    <3>8. CASE Finish(r)
      BY <3>8, FinishInv
    <3>9. CASE \E s \in Server : Ping(r, s)
      BY <3>9, PingInv
    <3> QED BY <2>1, <3>1, <3>2, <3>3, <3>4, <3>5, <3>6, <3>7, <3>8, <3>9 DEF Progress
  <2> QED BY <1>1, <2>1, BootInv, ShutdownInv DEF Own
<1>2. CASE Signal
  BY <1>2, ShutdownInv
<1>3. CASE \E v \in Visitors : BusCall(v[1], v[2])
  BY <1>3, BusCallInv
<1>4. CASE \E s \in Server : Outage(s) \/ Recovery(s)
  BY <1>4, ServerInv
<1>5. ASSUME NEW r \in Request,
             \/ ClientLeaves(r)
             \/ \E m \in Sends[r] : Arrive(r, m[1], m[2])
             \/ \E s \in Server : EffectUnacked(r, s)
      PROVE  IInv'
  BY <1>5, ClientLeavesInv, ArriveInv, EffectUnackedInv
<1>6. CASE UNCHANGED vars
  <2>1. PhaseInv'
    BY <1>6 DEF vars, procVars, IInv, PhaseInv, Closing, InFlight
  <2> QED BY <1>6, <2>1, FitKept, AuditKept, BusKept DEF IInv, vars, procVars
<1> QED BY <1>1, <1>2, <1>3, <1>4, <1>5, <1>6 DEF Next

LEMMA SpecInv == Spec => []IInv
BY InitInv, NextInv, PTL DEF Spec

(* Which answers have a status of which class.                             *)
LEMMA StatusClass ==
    ASSUME NEW route,
           NEW a \in {"success", "noRoute", "UP", "DOWN", "NOT_FOUND", "INTERNAL", "ZodError",
                      "BodyError", "Error"}
    PROVE  /\ Failed(Status(route, a)) => a \in {"DOWN", "INTERNAL", "Error"}
           /\ Accepted(Status(route, a)) => a \in {"success", "UP"}
           /\ Rejected(Status(route, a)) => a \in {"noRoute", "NOT_FOUND", "ZodError", "BodyError"}
<1>1. SuccessStatus(route) \in {200, 201, 204}
  BY DEF SuccessStatus
<1> USE DEF Status, Failed, Accepted, Rejected, Health, DomainStatus, ErrorStatus
<1>2. CASE a = "success"
  BY <1>1, <1>2
<1>3. CASE a = "noRoute"
  BY <1>3
<1>4. CASE a \in {"UP", "DOWN"}
  BY <1>4
<1>5. CASE a \in {"NOT_FOUND", "INTERNAL"}
  BY <1>5
<1>6. CASE a \in {"ZodError", "BodyError", "Error"}
  BY <1>6
<1> HIDE DEF Status, Failed, Accepted, Rejected
<1> QED BY <1>2, <1>3, <1>4, <1>5, <1>6

(* Every variable of the process holds a value of its kind, and a request  *)
(* has an answer exactly when it replied.                                  *)
THEOREM TypeCorrect == Spec => []TypeOK
<1>1. IInv => TypeOK
  BY DEF IInv, FitInv, PhaseInv, BusInv, TypeOK, Fits, OnItsWay, Replied, ItemWrites, EventOf
<1> QED BY <1>1, SpecInv, PTL

(* Nobody is told a 5xx because the process shuts down: the drain is over, *)
(* and nobody is left, before MongoDB and Redis are disconnected.          *)
THEOREM FailuresAreExplained == Spec => []FailuresExplained
<1>1. IInv => FailuresExplained
  <2> SUFFICES ASSUME IInv, NEW r \in Request, req[r].pc = "answered", ~req[r].gone,
                      Failed(StatusOf(r))
               PROVE  \/ req[r].answer = "INTERNAL"
                      \/ req[r].route \notin JobRoutes /\ "mongo" \in req[r].down
                      \/ req[r].route \in JobRoutes /\ "redis" \in req[r].down
                      \/ req[r].answer = "DOWN" /\ provider = "redis" /\ "redis" \in req[r].down
    BY DEF FailuresExplained
  <2>1. Told(req[r]) /\ req[r].answer # "none"
    BY Here DEF Fits
  <2>2. req[r].answer \in {"DOWN", "INTERNAL", "Error"}
    BY <2>1, StatusClass DEF Told, StatusOf
  <2> QED BY <2>1, <2>2 DEF Told, Blamed, HealthRoutes, JobRoutes
<1> QED BY <1>1, SpecInv, PTL

(* A health route that says 200 has met every server it vouches for.       *)
THEOREM HealthIsTruthful == Spec => []HealthTruthful
<1>1. IInv => HealthTruthful
  BY DEF IInv, FitInv, Fits, Told, HealthTruthful
<1> QED BY <1>1, SpecInv, PTL

(* The audit log has the mutations whose clients stayed, and only those.   *)
THEOREM AuditIsComplete == Spec => []AuditComplete
<1>1. IInv => AuditComplete
  <2> SUFFICES ASSUME IInv PROVE AuditComplete
    OBVIOUS
  <2>1. \A r \in Request : Seen(req[r])
    BY Here DEF Fits
  <2> QED BY <2>1 DEF IInv, AuditInv, AuditComplete, Seen
<1> QED BY <1>1, SpecInv, PTL

(* Accepted means done and heard of; rejected means nothing happened.      *)
THEOREM AnswersAreFit == Spec => []AnswersFit
<1>1. IInv => AnswersFit
  <2> SUFFICES ASSUME IInv, NEW r \in Request, req[r].pc = "answered", Mutation(r)
               PROVE  /\ Accepted(StatusOf(r)) => req[r].wrote
                      /\ Accepted(StatusOf(r)) /\ req[r].route \in ItemRoutes =>
                             Logger \in req[r].heard
                      /\ Rejected(StatusOf(r)) => ~req[r].wrote /\ req[r].heard = {}
    BY DEF AnswersFit
  <2>1. Told(req[r]) /\ req[r].answer # "none"
    BY Here DEF Fits
  <2>2. /\ Accepted(StatusOf(r)) => req[r].answer \in {"success", "UP"}
        /\ Rejected(StatusOf(r)) =>
               req[r].answer \in {"noRoute", "NOT_FOUND", "ZodError", "BodyError"}
    BY <2>1, StatusClass DEF Told, StatusOf
  <2>3. req[r].answer # "UP" /\ (req[r].route \in ItemRoutes => req[r].route \in ItemWrites)
    BY <2>1 DEF Told, Mutation, Mutating, HealthRoutes, ItemRoutes, ItemWrites
  <2> QED BY <2>1, <2>2, <2>3 DEF Told, Mutation
<1> QED BY <1>1, SpecInv, PTL

(* When terminus is through with a signal, the disconnects of MongoDB and  *)
(* the cache have each succeeded or failed, and no client waits for an     *)
(* answer.  Of the queue's connection, which stays, nothing is said.       *)
THEOREM ShutdownIsSettled == Spec => []GracefulEnd
<1>1. IInv => GracefulEnd
  BY DEF IInv, PhaseInv, Closing, GracefulEnd
<1> QED BY <1>1, SpecInv, PTL

(* Subscribed handlers hear their events; others only if they subscribed   *)
(* twice.                                                                  *)
THEOREM SubscribersDoHear == Spec => []SubscribersHear
<1>1. IInv => SubscribersHear
  BY DEF IInv, BusInv
<1> QED BY <1>1, SpecInv, PTL
===============================================================================
