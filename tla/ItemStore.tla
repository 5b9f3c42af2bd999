------------------------------ MODULE ItemStore ------------------------------
(***************************************************************************)
(* What the items API promises its clients, with no cache, no token and no *)
(* process in it: writes take effect once, atomically, on a live item;     *)
(* reads may be stale, but serve only what was really stored; "not found"  *)
(* is never stale.  ItemsCache implements it (ItemsCache!Promise).         *)
(***************************************************************************)
CONSTANTS
    Req,        \* client requests
    Id,         \* item identifiers
    Seeded,     \* the items stored before the first request
    Absent,     \* the version of an item that is not stored
    Original,   \* the version of a seeded item
    ListKey     \* the key of the listing

VARIABLES
    db,         \* the version of every item
    hist,       \* every version an item has had so far
    job,        \* the request's operation, or NoJob
    did,        \* what the request has established so far
    reply       \* the answer it got, or NoReply

vars == <<db, hist, job, did, reply>>

NoJob    == [kind |-> "none", key |-> ListKey]
Reads    == {"show", "list"}
Changes  == {"update", "delete"}
Scope(k) == IF k = ListKey THEN Id ELSE {k}
NoVal    == [i \in {} |-> Absent]
NoReply  == [status |-> "none", val |-> NoVal]
Status(s) == [status |-> s, val |-> NoVal]
Found(v) == [status |-> "ok", val |-> v]

Init ==
    /\ db = [i \in Id |-> IF i \in Seeded THEN Original ELSE Absent]
    /\ hist = [i \in Id |-> {db[i]}]
    /\ job = [r \in Req |-> NoJob]
    /\ did = [r \in Req |-> "nothing"]
    /\ reply = [r \in Req |-> NoReply]

(* A client sends a request. *)
Submit(r) ==
    /\ job[r] = NoJob
    /\ \E kind \in Reads \cup Changes \cup {"create"}, k \in Id \cup {ListKey} :
          /\ kind = "list" <=> k = ListKey
          /\ job' = [job EXCEPT ![r] = [kind |-> kind, key |-> k]]
    /\ UNCHANGED <<db, hist, did, reply>>

Pending(r) == job[r] # NoJob /\ reply[r] = NoReply

(* The one step at which a write takes effect. *)
Apply(r) ==
    LET i == job[r].key
        v == IF job[r].kind = "delete" THEN Absent ELSE r
    IN  /\ Pending(r) /\ did[r] = "nothing" /\ i \in Id
        /\ \/ job[r].kind \in Changes /\ db[i] # Absent
           \/ job[r].kind = "create" /\ hist[i] = {Absent}
        /\ db' = [db EXCEPT ![i] = v]
        /\ hist' = [hist EXCEPT ![i] = @ \cup {v}]
        /\ did' = [did EXCEPT ![r] = "wrote"]
        /\ UNCHANGED <<job, reply>>

(* The request finds its item missing; it may say so later. *)
NoteAbsent(r) ==
    /\ Pending(r) /\ did[r] = "nothing" /\ job[r].kind = "show"
    /\ db[job[r].key] = Absent
    /\ did' = [did EXCEPT ![r] = "absent"]
    /\ UNCHANGED <<db, hist, job, reply>>

Permitted(r) ==
    LET k == job[r].key
        stored(i) == IF k = ListKey THEN hist[i] ELSE hist[i] \ {Absent}
    IN  CASE job[r].kind \in Reads ->
                 {Found(v) : v \in {f \in [Scope(k) -> UNION {hist[i] : i \in Id}] :
                                       \A i \in Scope(k) : f[i] \in stored(i)}}
                 \cup IF k # ListKey /\ (did[r] = "absent" \/ db[k] = Absent)
                      THEN {Status("NOT_FOUND")} ELSE {}
          [] did[r] = "wrote" -> {Status("ok")}
          [] OTHER -> IF job[r].kind \in Changes /\ db[k] = Absent
                      THEN {Status("NOT_FOUND"), Status("INTERNAL")} ELSE {}

(* An answer: only what Permitted allows, or a failure (500, or no answer).*)
Respond(r) ==
    /\ Pending(r)
    /\ \E a \in Permitted(r) \cup {Status("ERROR"), Status("LOST")} :
          reply' = [reply EXCEPT ![r] = a]
    /\ did' = [did EXCEPT ![r] = "nothing"]
    /\ UNCHANGED <<db, hist, job>>

(* A server crash loses the answers of all the requests it was serving.    *)
Lose ==
    /\ \E R \in SUBSET {r \in Req : Pending(r)} :
          /\ reply' = [r \in Req |-> IF r \in R THEN Status("LOST") ELSE reply[r]]
          /\ did' = [r \in Req |-> IF r \in R THEN "nothing" ELSE did[r]]
    /\ UNCHANGED <<db, hist, job>>

Next == Lose \/ \E r \in Req : Submit(r) \/ Apply(r) \/ NoteAbsent(r) \/ Respond(r)

Spec == Init /\ [][Next]_vars
==============================================================================
