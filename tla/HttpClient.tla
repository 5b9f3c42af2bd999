------------------------------ MODULE HttpClient ------------------------------
(***************************************************************************)
(* One DataSource and the one Request it owns, shared by the calls of a    *)
(* process.  A call sets its params and headers on the data source, waits  *)
(* for before(), copies the fields of the data source into the Request and *)
(* sends; a retry reads the fields of the Request again; the end of any    *)
(* call clears the fields of the data source.  Beside it, one instance of  *)
(* the facade Http, which makes a Request for each call and clears nothing.*)
(* Params and headers are named by the call that set them.                 *)
(***************************************************************************)
EXTENDS Naturals, FiniteSets

CONSTANTS
    Call,         \* calls made
    Facade,       \* those made on the Http instance, not on the data source
    Shared,       \* the Request of the data source
    Querying,     \* the calls that set params
    Labelling,    \* the calls that set headers
    RetryTimes,   \* DataSource.retryTimes
    MaxLost       \* bound: attempts that time out

ASSUME CallAssumption == Facade \subseteq Call /\ Shared \notin Call
ASSUME WantAssumption == Querying \subseteq Call /\ Labelling \subseteq Call
ASSUME BoundAssumption == RetryTimes \in Nat /\ MaxLost \in Nat

VARIABLES
    source,       \* DataSource.params and runtimeHeaders
    http,         \* Http.params and headers
    request,      \* per Request: its _params (or those in its url) and _headers
    pc,           \* per call: "idle", "before", "waiting", "failed", "finally", "done"
    attempt,      \* per call: the failed attempts that have been retried
    reply,        \* per call: what its caller gets
    sent,         \* per call: the fields of its last attempt
    executed,     \* ghost: per call: how often the server executed it
    lost,         \* ghost: per call: attempts that may have been executed unanswered
    overlap,      \* ghost: per call of the data source: those in flight with it
    earlier,      \* ghost: per call of the facade: those made on it before
    losses        \* attempts that timed out

fields == <<source, http, request>>
ghosts == <<executed, lost, overlap, earlier>>
vars   == <<fields, pc, attempt, reply, sent, ghosts, losses>>

Empty  == [params |-> {}, headers |-> {}]
Direct == Call \ Facade
InFlight == {c \in Direct : pc[c] \in {"before", "waiting", "failed", "finally"}}
Goto(c, step) == pc' = [pc EXCEPT ![c] = step]

Init ==
    /\ source = Empty /\ http = Empty
    /\ request = [o \in Facade \cup {Shared} |-> Empty]
    /\ pc = [c \in Call |-> "idle"]
    /\ attempt = [c \in Call |-> 0]
    /\ reply = [c \in Call |-> "none"]
    /\ sent = [c \in Call |-> Empty]
    /\ executed = [c \in Call |-> 0] /\ lost = [c \in Call |-> 0]
    /\ overlap = [c \in Call |-> {}] /\ earlier = [c \in Call |-> {}]
    /\ losses = 0

(* What a call sets: params and headers are both optional.                 *)
Own(c) == [params |-> Querying \cap {c}, headers |-> Labelling \cap {c}]

(* Mutant: the facade keeps one Request as the data source does.           *)
RequestOfShared(c) == Shared

RequestOf(c) == IF c \in Facade THEN c ELSE Shared

(* withParams replaces the params of the data source, withHeaders adds to  *)
(* its headers.                                                            *)
With(c) == [params  |-> IF c \in Querying THEN {c} ELSE source.params,
            headers |-> source.headers \cup Own(c).headers]

(* The other way round, param adds to the facade's params and withHeaders  *)
(* replaces its headers.                                                   *)
WithHttp(c) == [params  |-> http.params \cup Own(c).params,
                headers |-> IF c \in Labelling THEN {c} ELSE http.headers]

Put(c, f) == sent' = [sent EXCEPT ![c] = f]

(* The caller sets what it wants and calls get, post, ...: all of it runs  *)
(* up to the await of before().                                            *)
Begin(c) ==
    /\ c \in Direct /\ pc[c] = "idle"
    /\ source' = With(c)
    /\ Goto(c, "before")
    /\ overlap' = [d \in Call |-> IF d = c THEN InFlight
                                  ELSE IF d \in InFlight THEN overlap[d] \cup {c}
                                  ELSE overlap[d]]
    /\ UNCHANGED <<http, request, attempt, reply, sent, executed, lost, earlier, losses>>

(* The facade has no before(): the first attempt is sent in the same go.   *)
BeginHttp(c) ==
    /\ c \in Facade /\ pc[c] = "idle"
    /\ http' = WithHttp(c)
    /\ request' = [request EXCEPT ![RequestOf(c)] = WithHttp(c)]
    /\ Put(c, WithHttp(c))
    /\ Goto(c, "waiting")
    /\ earlier' = [earlier EXCEPT ![c] = {d \in Facade : pc[d] # "idle"}]
    /\ UNCHANGED <<source, attempt, reply, executed, lost, overlap, losses>>

(* Mutant: params that are not set are not copied.                         *)
SendOnlySet(c) ==
    /\ pc[c] = "before"
    /\ LET copy == [params |-> IF source.params = {} THEN request[Shared].params
                                                      ELSE source.params,
                    headers |-> source.headers]
       IN  request' = [request EXCEPT ![Shared] = copy] /\ Put(c, copy)
    /\ Goto(c, "waiting")
    /\ UNCHANGED <<source, http, attempt, reply, ghosts, losses>>

(* Past before(): the fields are copied and the first attempt is sent, all *)
(* in one go.                                                              *)
Send(c) ==
    /\ pc[c] = "before"
    /\ request' = [request EXCEPT ![RequestOf(c)] = source]
    /\ Put(c, source)
    /\ Goto(c, "waiting")
    /\ UNCHANGED <<source, http, attempt, reply, ghosts, losses>>

(* The loop is over; only the data source has a finally.                   *)
Ends(c) == Goto(c, IF c \in Facade THEN "done" ELSE "finally")

(* Mutant: an answer of the 5xx kind is taken for a network error.         *)
AnswerRetried(c) ==
    /\ pc[c] = "waiting"
    /\ executed' = [executed EXCEPT ![c] = @ + 1]
    /\ Goto(c, "failed")
    /\ UNCHANGED <<fields, attempt, reply, sent, lost, overlap, earlier, losses>>

(* The server executed the request and answered: a response of any status, *)
(* its data null when the body breaks off or is no JSON, ends the loop.    *)
Answer(c) ==
    /\ pc[c] = "waiting"
    /\ executed' = [executed EXCEPT ![c] = @ + 1]
    /\ reply' = [reply EXCEPT ![c] = "response"]
    /\ Ends(c)
    /\ UNCHANGED <<fields, attempt, sent, lost, overlap, earlier, losses>>

(* No connection: the server saw nothing.                                  *)
Refused(c) ==
    /\ pc[c] = "waiting"
    /\ Goto(c, "failed")
    /\ UNCHANGED <<fields, attempt, reply, sent, ghosts, losses>>

(* No answer in time, or the connection broke: the server may have         *)
(* executed the request.  undici's errors carry no statusCode either.      *)
TimedOut(c) ==
    /\ pc[c] = "waiting" /\ losses < MaxLost
    /\ Goto(c, "failed")
    /\ losses' = losses + 1
    /\ lost' = [lost EXCEPT ![c] = @ + 1]
    /\ executed' \in {executed, [executed EXCEPT ![c] = @ + 1]}
    /\ UNCHANGED <<fields, attempt, reply, sent, overlap, earlier>>

(* The error leaves the loop.                                              *)
GiveUp(c) ==
    /\ reply' = [reply EXCEPT ![c] = "error"]
    /\ Ends(c)
    /\ UNCHANGED <<fields, attempt, sent, ghosts, losses>>

(* Another attempt, with the fields the Request has now.                   *)
SendAgain(c) ==
    /\ Put(c, request[RequestOf(c)])
    /\ Goto(c, "waiting")
    /\ UNCHANGED <<fields, reply, ghosts, losses>>

Counted(c) == attempt' = [attempt EXCEPT ![c] = @ + 1]

(* Mutant: one attempt too many.                                           *)
RetryOnce(c) ==
    /\ pc[c] = "failed"
    /\ IF attempt[c] > RetryTimes THEN GiveUp(c) ELSE SendAgain(c) /\ Counted(c)

(* Mutant: the attempts are not counted.                                   *)
RetryUncounted(c) ==
    /\ pc[c] = "failed"
    /\ IF attempt[c] >= RetryTimes THEN GiveUp(c) ELSE SendAgain(c) /\ UNCHANGED attempt

(* The catch of the loop, which takes any error for one of the network.    *)
Retry(c) ==
    /\ pc[c] = "failed"
    /\ IF attempt[c] >= RetryTimes THEN GiveUp(c) ELSE SendAgain(c) /\ Counted(c)

(* Mutant: the headers are cleared, the params stay.                       *)
FinallyKeepsParams(c) ==
    /\ pc[c] = "finally"
    /\ source' = [source EXCEPT !.headers = {}]
    /\ Goto(c, "done")
    /\ UNCHANGED <<http, request, attempt, reply, sent, ghosts, losses>>

(* The finally block of DataSource.execute, whoever set the fields since.  *)
Finally(c) ==
    /\ pc[c] = "finally"
    /\ source' = Empty
    /\ Goto(c, "done")
    /\ UNCHANGED <<http, request, attempt, reply, sent, ghosts, losses>>

Outcome(c) == Answer(c) \/ Refused(c) \/ TimedOut(c)
Step(c) == Send(c) \/ Outcome(c) \/ Retry(c) \/ Finally(c)
Next == \E c \in Call : Begin(c) \/ BeginHttp(c) \/ Step(c)

Spec == Init /\ [][Next]_vars

(* before() resolves, and an attempt is answered, is refused or times out  *)
(* (headersTimeout, bodyTimeout); which of them is not assumed.            *)
FairSpec == Spec /\ \A c \in Call : WF_vars(Step(c))

-----------------------------------------------------------------------------
Fields == [params : SUBSET Call, headers : SUBSET Call]

(* Every variable holds what the code can put in it.                       *)
TypeOK ==
    /\ source \in Fields /\ http \in Fields
    /\ request \in [Facade \cup {Shared} -> Fields]
    /\ pc \in [Call -> {"idle", "before", "waiting", "failed", "finally", "done"}]
    /\ attempt \in [Call -> 0..RetryTimes]
    /\ reply \in [Call -> {"none", "response", "error"}]
    /\ sent \in [Call -> Fields]
    /\ executed \in [Call -> Nat] /\ lost \in [Call -> Nat]
    /\ overlap \in [Call -> SUBSET Call] /\ earlier \in [Call -> SUBSET Facade]
    /\ losses \in 0..MaxLost

(* A request of the data source carries params and headers of its own call *)
(* or of calls in flight at the same time, never what a call that was over *)
(* left behind.                                                            *)
NoLeftovers ==
    \A c \in Direct : sent[c].params \cup sent[c].headers \subseteq overlap[c] \cup {c}

(* A call that is alone on its data source sends at every attempt exactly  *)
(* what it set, although the fields it sends are shared.                   *)
AloneSendsItsOwn ==
    \A c \in Direct :
        pc[c] \in {"waiting", "failed", "finally"} /\ overlap[c] = {} => sent[c] = Own(c)

(* An Http instance forgets nothing and mixes nothing: each attempt of a   *)
(* call sends the params of all calls made on the instance up to this one, *)
(* and its own headers or those of one earlier call, whatever calls are    *)
(* made between the attempts.                                              *)
FacadeSendsAllSoFar ==
    \A c \in Facade : pc[c] # "idle" =>
        /\ sent[c].params = Querying \cap (earlier[c] \cup {c})
        /\ sent[c].headers \in {{}} \cup {{d} : d \in earlier[c] \cup {c}}
        /\ c \in Labelling => sent[c].headers = {c}

(* The server executes a call once, and once more at most for each attempt *)
(* that ended without an answer: an answer, of whatever status, ends it.   *)
ExecutedOncePerLoss == \A c \in Call : executed[c] <= 1 + lost[c]

(* Every call ends, whatever becomes of its attempts.                      *)
EveryCallEnds == \A c \in Call : pc[c] # "idle" ~> pc[c] = "done"

(* The documentation's rule: a retry follows only a failure to connect, so *)
(* there is none once an attempt may have been executed unanswered.        *)
RetriesOnlyRefused == [][\A c \in Call : attempt'[c] > attempt[c] => lost[c] = 0]_vars
==============================================================================
