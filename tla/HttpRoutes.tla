------------------------------ MODULE HttpRoutes ------------------------------
(***************************************************************************)
(* What the request pipeline of one API process decides without state: the *)
(* routes, their methods and success statuses, what the audit middleware   *)
(* records of a request, and the status each kind of error becomes.        *)
(***************************************************************************)
EXTENDS Naturals

ItemRoutes == {"list", "create", "show", "update", "delete"}
JobRoutes  == {"immediate", "delayed", "retryDemo",
               "schedulers", "upsertScheduler", "removeScheduler"}
(* Routes of the server itself: terminus answers them before Express.      *)
Probes == {"livez", "readyz"}
Route == ItemRoutes \cup JobRoutes \cup Probes
             \cup {"healthcheck", "metrics", "docs", "unknown", "unknownPost"}

Method(route) ==
    CASE route \in {"create", "immediate", "delayed", "retryDemo", "upsertScheduler",
                    "unknownPost"} -> "POST"
      [] route = "update" -> "PATCH"
      [] route \in {"delete", "removeScheduler"} -> "DELETE"
      [] OTHER -> "GET"

(***************************************************************************)
(* The audit middleware.                                                   *)
(***************************************************************************)
MutationMethods == {"POST", "PUT", "PATCH", "DELETE"}

Action(method) ==
    [POST |-> "CREATE", PUT |-> "UPDATE", PATCH |-> "UPDATE", DELETE |-> "DELETE"][method]

(* The first two segments of the path: of the item routes these are the    *)
(* collection and the item; of the job routes they never name a scheduler. *)
ResourceInfo(route) ==
    CASE route \in {"list", "create"}           -> <<"items", "null">>
      [] route \in {"show", "update", "delete"} -> <<"items", "id">>
      [] route \in {"immediate", "delayed", "retryDemo"} -> <<"job-examples", route>>
      [] route \in {"schedulers", "upsertScheduler", "removeScheduler"} ->
             <<"job-examples", "schedulers">>
      [] OTHER                                  -> <<"elsewhere", "null">>

(***************************************************************************)
(* How an answer gets its status.  Answers are success; noRoute, from      *)
(* Express' final handler; UP and DOWN, of the health routes; the domain   *)
(* errors; and what a handler throws, for the error handler.               *)
(***************************************************************************)
DomainStatus ==
    [NOT_FOUND |-> 404, VALIDATION |-> 400, CONFLICT |-> 409, UNAUTHORIZED |-> 401,
     FORBIDDEN |-> 403, EXTERNAL_SERVICE |-> 502, INTERNAL |-> 500]

(* A Zod error is a 400; a malformed or aborted body carries err.status    *)
(* 400 (body-parser); anything else is a 500.                              *)
ErrorStatus == [ZodError |-> 400, BodyError |-> 400, Error |-> 500]

(* What the controllers make of a result: created, noContent or ok.        *)
Created   == {"create", "immediate", "delayed", "retryDemo", "upsertScheduler"}
NoContent == {"delete"}
SuccessStatus(route) ==
    IF route \in Created THEN 201 ELSE IF route \in NoContent THEN 204 ELSE 200

Health == [UP |-> 200, DOWN |-> 503]

Answer == {"success", "noRoute"} \cup DOMAIN Health \cup DOMAIN DomainStatus
              \cup DOMAIN ErrorStatus

Status(route, answer) ==
    CASE answer = "success"               -> SuccessStatus(route)
      [] answer = "noRoute"               -> 404
      [] answer \in DOMAIN Health         -> Health[answer]
      [] answer \in DOMAIN DomainStatus   -> DomainStatus[answer]
      [] answer \in DOMAIN ErrorStatus    -> ErrorStatus[answer]

(* The classes of a status.                                                *)
Rejected(status) == status \in 400..499
Failed(status)   == status >= 500
Accepted(status) == status \in 200..299

(***************************************************************************)
(* What each route does after its input has been parsed.                   *)
(***************************************************************************)
Mutating == {"create", "update", "delete", "immediate", "delayed", "retryDemo",
             "upsertScheduler", "removeScheduler"}
(* Routes whose controller parses an input that can be wrong (a scheduler  *)
(* id taken from the path cannot).                                         *)
Parsing == (ItemRoutes \cup JobRoutes) \ {"schedulers", "removeScheduler"}
(* The event an item mutation publishes.                                   *)
EventOf == [create |-> "item.created", update |-> "item.updated", delete |-> "item.deleted"]

FirstStep(route) ==
    CASE route \in {"update", "delete"} -> "find"
      [] route = "create"               -> "write"
      [] route \in {"list", "show"}     -> "read"
      [] route \in JobRoutes            -> "queue"
      [] route \in {"healthcheck", "readyz"} -> "ping"
      [] route \in {"unknown", "unknownPost"} -> "noRoute"
      [] OTHER                          -> "answered"
===============================================================================
