------------------------------ MODULE RateLimit -------------------------------
(***************************************************************************)
(* The rate limiters and their middleware, behind the JWT middleware where *)
(* the limit is per user.  Counters live in Redis, shared by the           *)
(* processes; each process has a counter in memory that insures a call     *)
(* Redis did not answer.  A counter starts with its first point and is     *)
(* dropped when its duration is over (rate-limiter-flexible, modelled from *)
(* how the code uses it).                                                  *)
(***************************************************************************)
EXTENDS Naturals, FiniteSets

CONSTANTS
    Request,        \* requests that may arrive, numbered in the order they do
    Proc,           \* API processes
    Initializing,   \* those whose start calls RateLimiter.initialize (none, today)
    Ip, User,       \* what counts are kept by: addresses and user ids
    Nobody,         \* no user id
    Unforwarded,    \* no X-Forwarded-For header
    Nothing,        \* what a request that has not arrived was sent as
    Points,         \* per kind of limiter, RATE_LIMIT_..._POINTS
    Sends,          \* the requests that are sent
    MaxFaults       \* bound: calls Redis does not answer, crashes

Kind == {"global", "public", "authenticated", "webhook"}
Key  == Ip \cup User
(* A token: absent (no Bearer header), undecodable, or decoded; then it may *)
(* name its user in one of three claims.                                   *)
Token == [read : {"absent", "undecodable", "decoded"},
          sub : User \cup {Nobody}, userId : User \cup {Nobody}, id : User \cup {Nobody}]

ASSUME RequestAssumption == Request \subseteq Nat
ASSUME ProcAssumption   == Initializing \subseteq Proc /\ {"redis", "nowhere"} \cap Proc = {}
ASSUME KeyAssumption    == Nobody \notin User /\ Unforwarded \notin Ip
ASSUME PointsAssumption == Points \in [Kind -> Nat \ {0}]
(* forwarded is the first address of the header, from the client or a proxy;*)
(* peer is req.ip, the address of the connection.                          *)
ASSUME SendsAssumption  ==
    Sends \subseteq [proc : Proc, kind : Kind, peer : Ip, forwarded : Ip \cup {Unforwarded},
                     token : Token]
ASSUME BoundAssumption  == MaxFaults \in Nat

(* Where points are counted: in Redis or in the memory of a process.       *)
Store  == {"redis"} \cup Proc
Bucket == Kind \X Key
Nowhere == <<"nowhere", 0>>

VARIABLES
    limiter,    \* per process: "none", "redis" (with insurance) or "memory"
    counter,    \* per store and bucket: the points consumed
    window,     \* per store and bucket: how many counters came before this one
    req,        \* per request, its record
    faults

vars == <<limiter, counter, window, req, faults>>

Zero == [b \in Bucket |-> 0]
NoRequest == [pc |-> "none", sent |-> Nothing, over |-> FALSE, judged |-> Nowhere, counted |-> {}]

Init ==
    /\ limiter = [p \in Proc |-> "none"]
    /\ counter = [s \in Store |-> Zero] /\ window  = [s \in Store |-> Zero]
    /\ req = [r \in Request |-> NoRequest]
    /\ faults = 0

Fault == faults < MaxFaults /\ faults' = faults + 1
Quiet == UNCHANGED <<limiter, counter, window, faults>>

(***************************************************************************)
(* Start-up.  Connecting to Redis is not awaited, so initialize hardly     *)
(* ever takes the branch without Redis, even when Redis is away.           *)
(***************************************************************************)
(* Mutant: a second call makes new limiters, by whichever branch it takes. *)
InitializeAgain(p) ==
    /\ p \in Initializing
    /\ \E kind \in {"redis", "memory"} : limiter' = [limiter EXCEPT ![p] = kind]
    /\ counter' = [counter EXCEPT ![p] = Zero]
    /\ UNCHANGED <<window, req, faults>>

Initialize(p) ==
    /\ p \in Initializing /\ limiter[p] = "none"
    /\ \E kind \in {"redis", "memory"} : limiter' = [limiter EXCEPT ![p] = kind]
    /\ UNCHANGED <<counter, window, req, faults>>

(***************************************************************************)
(* The JWT middleware and the key of a request.                            *)
(***************************************************************************)
FirstOf(a, b) == IF a # Nobody THEN a ELSE b
UserOf(token) ==
    IF token.read # "decoded" THEN Nobody
    ELSE FirstOf(token.sub, FirstOf(token.userId, token.id))

(* Only the authenticated limiter sits behind the JWT middleware.          *)
Unauthorized(m) == m.kind = "authenticated" /\ UserOf(m.token) = Nobody

IpOf(m) == IF m.forwarded # Unforwarded THEN m.forwarded ELSE m.peer

KeyOf(m) ==
    IF m.kind = "authenticated" /\ UserOf(m.token) # Nobody THEN UserOf(m.token) ELSE IpOf(m)

(* Mutant: the limiters share one key prefix.                              *)
BucketShared(m) == <<"global", KeyOf(m)>>

(* Each limiter has a key prefix of its own.                               *)
BucketOf(m) == <<m.kind, KeyOf(m)>>

(* A process that initializes does so before it listens.                   *)
Arrive(r, m) ==
    /\ req[r].pc = "none" /\ \A q \in Request : q < r => req[q].pc # "none"
    /\ (m.proc \in Initializing => limiter[m.proc] # "none")
    /\ req' = [req EXCEPT ![r].sent = m,
                          ![r].pc = IF Unauthorized(m) THEN "unauthorized" ELSE "consume"]
    /\ Quiet

(***************************************************************************)
(* The middleware: consume a point, pass or refuse.                        *)
(***************************************************************************)
Of(r)         == req[r].sent
Waiting(r)    == req[r].pc \in {"consume", "replied"}
Verdict(over) == IF over THEN "refused" ELSE "passed"

(* One point of r is counted in store s; the point is consumed even when   *)
(* the request is refused.                                                 *)
Count(r, s) ==
    counter' = [counter EXCEPT ![s][BucketOf(Of(r))] = @ + 1]
Exceeds(r, s) == counter[s][BucketOf(Of(r))] + 1 > Points[Of(r).kind]
Here(r, s)    == <<s, window[s][BucketOf(Of(r))]>>

(* The limiter was never initialized: consume of undefined throws, and the *)
(* middleware lets the request pass.                                       *)
FailOpen(r) ==
    /\ req[r].pc = "consume" /\ limiter[Of(r).proc] = "none"
    /\ req' = [req EXCEPT ![r].pc = "passed"]
    /\ Quiet

(* Counted and judged in the memory of the process, with no await.         *)
JudgedInMemory(r) ==
    LET p == Of(r).proc
    IN  /\ Count(r, p)
        /\ req' = [req EXCEPT ![r].pc = Verdict(Exceeds(r, p)), ![r].over = Exceeds(r, p),
                              ![r].judged = Here(r, p), ![r].counted = @ \cup {Here(r, p)}]

ConsumeMemory(r) ==
    /\ req[r].pc = "consume" /\ limiter[Of(r).proc] = "memory"
    /\ JudgedInMemory(r)
    /\ UNCHANGED <<limiter, window, faults>>

(* Redis counts in one script; the reply is on its way.                    *)
ConsumeRedis(r) ==
    /\ req[r].pc = "consume" /\ limiter[Of(r).proc] = "redis"
    /\ Count(r, "redis")
    /\ req' = [req EXCEPT ![r].pc = "replied", ![r].over = Exceeds(r, "redis"),
                          ![r].judged = Here(r, "redis"),
                          ![r].counted = @ \cup {Here(r, "redis")}]
    /\ UNCHANGED <<limiter, window, faults>>

Reply(r) ==
    /\ req[r].pc = "replied"
    /\ req' = [req EXCEPT ![r].pc = Verdict(req[r].over)]
    /\ Quiet

(* Mutant: without insurance, the error reaches the middleware.            *)
InsureNot(r) == req' = [req EXCEPT ![r].pc = "passed"] /\ UNCHANGED counter

Insure(r) == JudgedInMemory(r)

(* Redis does not answer, whether or not it counted the point.             *)
RedisError(r) ==
    /\ \/ req[r].pc = "consume" /\ limiter[Of(r).proc] = "redis"
       \/ req[r].pc = "replied"
    /\ Fault /\ Insure(r)
    /\ UNCHANGED <<limiter, window>>

(***************************************************************************)
(* Time and failures.                                                      *)
(***************************************************************************)
(* The duration of a counter is over.                                      *)
Expire(s, b) ==
    /\ counter[s][b] > 0
    /\ counter' = [counter EXCEPT ![s][b] = 0]
    /\ window'  = [window EXCEPT ![s][b] = @ + 1]
    /\ UNCHANGED <<limiter, req, faults>>

Forgets(p) ==
    /\ limiter' = [limiter EXCEPT ![p] = "none"]
    /\ counter' = [counter EXCEPT ![p] = Zero]
    /\ window'  = [window EXCEPT ![p] = [b \in Bucket |->
                                     IF counter[p][b] > 0 THEN @[b] + 1 ELSE @[b]]]

(* A process dies with its requests and its memory, and starts again.      *)
Restart(p) ==
    /\ Fault /\ Forgets(p)
    /\ req' = [r \in Request |->
                  IF Waiting(r) /\ Of(r).proc = p
                  THEN [req[r] EXCEPT !.pc = "lost"] ELSE req[r]]

Decide(r) == FailOpen(r) \/ ConsumeMemory(r) \/ ConsumeRedis(r) \/ Reply(r)

Next ==
    \/ \E r \in Request : Decide(r) \/ RedisError(r) \/ \E m \in Sends : Arrive(r, m)
    \/ \E p \in Proc : Initialize(p) \/ Restart(p)
    \/ \E s \in Store, b \in Bucket : Expire(s, b)

Spec == Init /\ [][Next]_vars

(***************************************************************************)
(* Properties.                                                             *)
(***************************************************************************)
SameBucket(q, r) == Of(q).kind = Of(r).kind /\ KeyOf(Of(q)) = KeyOf(Of(r))

Record ==
    [pc : {"none", "unauthorized", "consume", "replied", "passed", "refused", "lost"},
     sent : Sends \cup {Nothing}, over : BOOLEAN,
     judged : (Store \X Nat) \cup {Nowhere}, counted : SUBSET (Store \X Nat)]

(* Records, counters and limiters have their shapes, and a request waits   *)
(* for a reply only in a process whose limiter asks Redis.                 *)
TypeOK ==
    /\ limiter \in [Proc -> {"none", "redis", "memory"}]
    /\ \A p \in Proc \ Initializing : limiter[p] = "none"
    /\ counter \in [Store -> [Bucket -> Nat]] /\ window \in [Store -> [Bucket -> Nat]]
    /\ req \in [Request -> Record]
    /\ \A r \in Request :
          /\ req[r].pc # "none" => Of(r) \in Sends
          /\ req[r].pc = "replied" => limiter[Of(r).proc] = "redis"
    /\ faults \in 0..MaxFaults

(* Of the requests of one kind and key that one counter judged, at most    *)
(* the points of the kind pass, whichever processes served them and in     *)
(* whatever order the replies came.  While Redis is away every process     *)
(* counts for itself, so the limit then holds per process.                 *)
LimitHolds ==
    \A r \in Request :
        req[r].pc = "passed" /\ req[r].judged # Nowhere =>
            Cardinality({q \in Request : /\ req[q].pc = "passed" /\ SameBucket(q, r)
                                         /\ req[q].judged = req[r].judged})
                <= Points[Of(r).kind]

(* A request is refused only when its own kind and key have used up their  *)
(* points in the counter that judged it: more requests than the points     *)
(* have been counted there, itself included.                               *)
RefusedOnlySpent ==
    \A r \in Request :
        req[r].pc = "refused" =>
            Cardinality({q \in Request : /\ req[q].pc # "none" /\ SameBucket(q, r)
                                         /\ req[r].judged \in req[q].counted})
                > Points[Of(r).kind]

(* A request passes without having been counted only in a process whose    *)
(* start does not initialize the limiters; an error of Redis is insured.   *)
PassedCounted ==
    \A r \in Request :
        req[r].pc = "passed" /\ Of(r).proc \in Initializing =>
            /\ req[r].judged \in req[r].counted
            /\ req[r].judged[1] \in {"redis", Of(r).proc}
===============================================================================
