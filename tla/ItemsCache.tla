----------------------------- MODULE ItemsCache ------------------------------
(***************************************************************************)
(* The items module's five use cases (create, update, delete, show, list)  *)
(* run by several API processes over one MongoDB collection and one Redis  *)
(* cache whose keys carry the namespace token of "items".                  *)
(*                                                                         *)
(* Every await of the source is a point where other requests may run, so   *)
(* each remote call (a Mongo query, a Redis command) is one step and the   *)
(* program counter pc says which call a request makes next.  A version of  *)
(* an item is named by the request that wrote it; a value read from the    *)
(* database or the cache is the function from the items a key covers to    *)
(* their versions.                                                         *)
(***************************************************************************)
EXTENDS Naturals, FiniteSets

CONSTANTS
    Req,          \* client requests, each sent at most once
    Proc,         \* API processes
    NoProc,       \* the process of a request not sent yet
    Id,           \* item identifiers (Mongo ObjectIds)
    Seeded,       \* the items stored before the first request
    Absent,       \* the version of an item that is not stored
    Original,     \* the version of a seeded item
    ListKey,      \* the cache key of the listing, "list:..."
    Fallback,     \* the token 'fallback' used when Redis errs
    Sends,        \* bound: the requests clients send, as [kind, key] records
    MaxFaults     \* bound: calls that err, crashes and losses of the token key

ASSUME SeededAssumption == Seeded \subseteq Id
ASSUME VersionAssumption == Absent # Original /\ Absent \notin Req /\ Original \notin Req
ASSUME KeyAssumption == Id # {} /\ ListKey \notin Id
ASSUME ProcAssumption == NoProc \notin Proc
ASSUME TokenAssumption == Fallback \notin Nat
ASSUME SendsAssumption ==
    Sends \subseteq [kind : {"list"}, key : {ListKey}]
                    \cup [kind : {"show", "create", "update", "delete"}, key : Id]
ASSUME BoundAssumption == MaxFaults \in Nat

VARIABLES
    db,           \* Mongo: the version of every item
    used,         \* ids handed out so far (mongoose generates them)
    token,        \* Redis: the namespace token key, or NoToken
    minted,       \* tokens generated so far (randomUUID never repeats)
    entries,      \* Redis: the cached entries
    provider,     \* per process: the cache provider CacheManager settled on
    pc,           \* per request: the next remote call
    op,           \* per request: what it asks, and the process serving it
    tok,          \* per request: the token its cache key is built with
    cand,         \* per request: the newToken of getNamespaceToken
    val,          \* per request: freshValue of remember, or NoVal
    readTok,      \* ghost: the namespace token when val was read
    reply,        \* per request: its answer, or NoReply
    events,       \* domain events published on the event bus
    hist,         \* ghost: every version each item has had
    wrote,        \* ghost: the requests whose write took effect
    refreshed,    \* ghost: the requests whose token refresh took effect
    faults        \* how much of the bound is used

dbVars    == <<db, used, hist, wrote>>
redisVars == <<token, minted, entries>>
reqVars   == <<pc, op, tok, cand, val, readTok, reply>>
vars      == <<dbVars, redisVars, provider, reqVars, events, refreshed, faults>>

(***************************************************************************)
(* Keys, values and answers.                                               *)
(***************************************************************************)
Key        == Id \cup {ListKey}
Version    == Req \cup {Original, Absent}
NoToken    == 0
Token      == Nat \cup {Fallback}
Reads      == {"show", "list"}
Changes    == {"update", "delete"}
Writes     == Changes \cup {"create"}
Scope(k)   == IF k = ListKey THEN Id ELSE {k}
View(k)    == [i \in Scope(k) |-> db[i]]
NoVal      == [i \in {} |-> Absent]
Value      == UNION {[S -> Version] : S \in SUBSET Id}
(* findById answers null for a missing item; paginate never answers null.  *)
IsNull(k, v) == k # ListKey /\ v[k] = Absent

NoOp       == [kind |-> "none", key |-> ListKey, proc |-> NoProc]
NoReply    == [status |-> "none", val |-> NoVal]
Status(s)  == [status |-> s, val |-> NoVal]
Found(v)   == [status |-> "ok", val |-> v]
Result(k, v) == IF IsNull(k, v) THEN Status("NOT_FOUND") ELSE Found(v)

InFlight(r) == pc[r] \notin {"idle", "done"}
Cached(r)   == provider[op[r].proc] = "redis"

(* The request finishes with answer a; its local variables are gone.       *)
Finish(r, a) ==
    /\ pc' = [pc EXCEPT ![r] = "done"]
    /\ reply' = [reply EXCEPT ![r] = a]
    /\ tok' = [tok EXCEPT ![r] = NoToken]
    /\ cand' = [cand EXCEPT ![r] = NoToken]
    /\ val' = [val EXCEPT ![r] = NoVal]
    /\ readTok' = [readTok EXCEPT ![r] = NoToken]
    /\ UNCHANGED op

(* The request goes on to its next call, keeping everything else it holds. *)
Goto(r, step) ==
    /\ pc' = [pc EXCEPT ![r] = step]
    /\ UNCHANGED <<op, tok, cand, val, readTok, reply>>

Fault == /\ faults < MaxFaults
         /\ faults' = faults + 1

Init ==
    /\ db = [i \in Id |-> IF i \in Seeded THEN Original ELSE Absent]
    /\ used = Seeded
    /\ hist = [i \in Id |-> {db[i]}]
    /\ token = NoToken /\ minted = 0 /\ entries = {}
    /\ provider \in [Proc -> {"redis", "noop"}]
    /\ pc = [r \in Req |-> "idle"]
    /\ op = [r \in Req |-> NoOp]
    /\ tok = [r \in Req |-> NoToken]
    /\ cand = [r \in Req |-> NoToken]
    /\ val = [r \in Req |-> NoVal]
    /\ readTok = [r \in Req |-> NoToken]
    /\ reply = [r \in Req |-> NoReply]
    /\ events = {} /\ wrote = {} /\ refreshed = {}
    /\ faults = 0

(***************************************************************************)
(* A request arrives at a process and runs to its first remote call.  A    *)
(* create already has its id: mongoose generates it in the process.        *)
(***************************************************************************)
FirstCall(kind, p) ==
    CASE kind \in Reads   -> IF provider[p] = "redis" THEN "tokenGet" ELSE "load"
      [] kind \in Changes -> "find"
      [] kind = "create"  -> "write"

Arrive(r, s, p) ==
    /\ pc[r] = "idle"
    /\ IF s.kind = "create" THEN s.key \notin used /\ used' = used \cup {s.key}
                            ELSE UNCHANGED used
    /\ pc' = [pc EXCEPT ![r] = FirstCall(s.kind, p)]
    /\ op' = [op EXCEPT ![r] = [kind |-> s.kind, key |-> s.key, proc |-> p]]
    /\ UNCHANGED <<db, hist, wrote, redisVars, provider, tok, cand, val, readTok, reply,
                   events, refreshed, faults>>

(***************************************************************************)
(* RedisCacheProvider.getNamespaceToken: GET, SET NX when there is none,   *)
(* GET again when another request was first.  remember runs it twice, in   *)
(* get and again in set; val tells which one the request is in.            *)
(***************************************************************************)
WithToken(r, t) ==
    /\ tok' = [tok EXCEPT ![r] = t]
    /\ cand' = [cand EXCEPT ![r] = NoToken]
    /\ pc' = [pc EXCEPT ![r] = IF val[r] = NoVal THEN "entryGet" ELSE "entrySet"]
    /\ UNCHANGED <<op, val, readTok, reply>>

TokenGet(r) ==
    /\ pc[r] = "tokenGet"
    /\ IF token # NoToken
       THEN WithToken(r, token) /\ UNCHANGED minted
       ELSE /\ minted' = minted + 1
            /\ cand' = [cand EXCEPT ![r] = minted']
            /\ pc' = [pc EXCEPT ![r] = "tokenNx"]
            /\ UNCHANGED <<op, tok, val, readTok, reply>>
    /\ UNCHANGED <<dbVars, token, entries, provider, events, refreshed, faults>>

TokenSetNx(r) ==
    /\ pc[r] = "tokenNx"
    /\ IF token = NoToken
       THEN token' = cand[r] /\ WithToken(r, cand[r])
       ELSE UNCHANGED token /\ Goto(r, "tokenReget")
    /\ UNCHANGED <<dbVars, minted, entries, provider, events, refreshed, faults>>

TokenReget(r) ==
    /\ pc[r] = "tokenReget"
    /\ WithToken(r, IF token # NoToken THEN token ELSE cand[r])
    /\ UNCHANGED <<dbVars, redisVars, provider, events, refreshed, faults>>

(* Mutant: the catch logs and answers nothing.                             *)
TokenErrorUndefined(r) ==
    /\ pc[r] \in {"tokenGet", "tokenNx", "tokenReget"}
    /\ Fault
    /\ \/ UNCHANGED token
       \/ pc[r] = "tokenNx" /\ token = NoToken /\ token' = cand[r]
    /\ WithToken(r, NoToken)
    /\ UNCHANGED <<dbVars, minted, entries, provider, events, refreshed>>

(* A Redis error inside getNamespaceToken: the catch answers 'fallback'.   *)
(* A SET NX that errs may still have been executed.                        *)
TokenError(r) ==
    /\ pc[r] \in {"tokenGet", "tokenNx", "tokenReget"}
    /\ Fault
    /\ \/ UNCHANGED token
       \/ pc[r] = "tokenNx" /\ token = NoToken /\ token' = cand[r]
    /\ WithToken(r, Fallback)
    /\ UNCHANGED <<dbVars, minted, entries, provider, events, refreshed>>

(***************************************************************************)
(* The rest of remember: the GET of the entry, the resolver, the SET.      *)
(***************************************************************************)
At(t, k) == {e \in entries : e.tok = t /\ e.key = k}

(* Mutant: a miss looks the key up again, for another request to fill it.  *)
EntryGetRetry(r) ==
    LET k == op[r].key
        hits == {e \in At(tok[r], k) : ~IsNull(k, e.val)}
    IN  /\ pc[r] = "entryGet"
        /\ \/ \E e \in hits : Finish(r, Found(e.val))
           \/ hits = {} /\ Goto(r, "tokenGet")
        /\ UNCHANGED <<dbVars, redisVars, provider, events, refreshed, faults>>

(* A hit answers the request; a missing entry, or one holding null, is a   *)
(* miss.                                                                   *)
EntryGet(r) ==
    LET k == op[r].key
        hits == {e \in At(tok[r], k) : ~IsNull(k, e.val)}
    IN  /\ pc[r] = "entryGet"
        /\ \/ \E e \in hits : Finish(r, Found(e.val))
           \/ hits = {} /\ Goto(r, "load")
        /\ UNCHANGED <<dbVars, redisVars, provider, events, refreshed, faults>>

EntryGetError(r) ==
    /\ pc[r] = "entryGet"
    /\ Fault
    /\ Goto(r, "load")
    /\ UNCHANGED <<dbVars, redisVars, provider, events, refreshed>>

(* The resolver reads the database: findById or paginate.                  *)
Load(r) ==
    LET k == op[r].key
    IN  /\ pc[r] = "load"
        /\ IF Cached(r)
           THEN /\ val' = [val EXCEPT ![r] = View(k)]
                /\ readTok' = [readTok EXCEPT ![r] = token]
                /\ pc' = [pc EXCEPT ![r] = "tokenGet"]
                /\ UNCHANGED <<op, tok, cand, reply>>
           ELSE Finish(r, Result(k, View(k)))
        /\ UNCHANGED <<dbVars, redisVars, provider, events, refreshed, faults>>

Store(r) ==
    entries' = (entries \ At(tok[r], op[r].key))
               \cup {[tok |-> tok[r], key |-> op[r].key, val |-> val[r],
                      readTok |-> readTok[r]]}

EntrySet(r) ==
    /\ pc[r] = "entrySet"
    /\ Store(r)
    /\ Finish(r, Result(op[r].key, val[r]))
    /\ UNCHANGED <<dbVars, token, minted, provider, events, refreshed, faults>>

(* set swallows the error: the answer is the fresh value all the same.     *)
EntrySetError(r) ==
    /\ pc[r] = "entrySet"
    /\ Fault
    /\ Store(r) \/ UNCHANGED entries
    /\ Finish(r, Result(op[r].key, val[r]))
    /\ UNCHANGED <<dbVars, token, minted, provider, events, refreshed>>

(***************************************************************************)
(* The writers: findById first (update and delete), then the write, then   *)
(* refreshNamespaceToken, then the event and the answer.                   *)
(***************************************************************************)
Find(r) ==
    /\ pc[r] = "find"
    /\ IF db[op[r].key] = Absent THEN Finish(r, Status("NOT_FOUND")) ELSE Goto(r, "write")
    /\ UNCHANGED <<dbVars, redisVars, provider, events, refreshed, faults>>

(* Mutant: the atomic query's null is not looked at.                       *)
WritableOnceFound(r) == pc[r] = "write"

(* A create always stores; an update or a delete only what is still there. *)
Writable(r) == op[r].kind = "create" \/ db[op[r].key] # Absent
Written(r)  == IF op[r].kind = "delete" THEN Absent ELSE r

Commit(r) ==
    /\ db' = [db EXCEPT ![op[r].key] = Written(r)]
    /\ hist' = [hist EXCEPT ![op[r].key] = @ \cup {Written(r)}]
    /\ wrote' = wrote \cup {r}
    /\ UNCHANGED used

(* Mutant: a write that finds no item falls through to refresh and publish.*)
WriteFallsThrough(r) ==
    /\ pc[r] = "write"
    /\ IF Writable(r) THEN Commit(r) ELSE UNCHANGED dbVars
    /\ Goto(r, "refresh")
    /\ UNCHANGED <<redisVars, provider, events, refreshed, faults>>

Write(r) ==
    /\ pc[r] = "write"
    /\ IF Writable(r)
       THEN Commit(r) /\ Goto(r, "refresh")
       ELSE UNCHANGED dbVars /\ Finish(r, Status("INTERNAL"))
    /\ UNCHANGED <<redisVars, provider, events, refreshed, faults>>

(* Mutant: the refresh sets the token key with NX, as its creation does.   *)
RefreshNx(r) ==
    /\ pc[r] = "refresh"
    /\ Goto(r, "publish")
    /\ IF Cached(r)
       THEN /\ minted' = minted + 1
            /\ token' = IF token = NoToken THEN minted' ELSE token
            /\ refreshed' = refreshed \cup {r}
       ELSE UNCHANGED <<minted, token, refreshed>>
    /\ UNCHANGED <<dbVars, entries, provider, events, faults>>

Refresh(r) ==
    /\ pc[r] = "refresh"
    /\ Goto(r, "publish")
    /\ IF Cached(r)
       THEN /\ minted' = minted + 1
            /\ token' = minted'
            /\ refreshed' = refreshed \cup {r}
       ELSE UNCHANGED <<minted, token, refreshed>>
    /\ UNCHANGED <<dbVars, entries, provider, events, faults>>

(* refreshNamespaceToken swallows a Redis error; the SET may have run.     *)
RefreshError(r) ==
    /\ pc[r] = "refresh" /\ Cached(r)
    /\ Fault
    /\ Goto(r, "publish")
    /\ minted' = minted + 1
    /\ \/ token' = minted' /\ refreshed' = refreshed \cup {r}
       \/ UNCHANGED <<token, refreshed>>
    /\ UNCHANGED <<dbVars, entries, provider, events>>

Publish(r) ==
    /\ pc[r] = "publish"
    /\ events' = events \cup {[name |-> op[r].kind, id |-> op[r].key, by |-> r]}
    /\ Finish(r, Status("ok"))
    /\ UNCHANGED <<dbVars, redisVars, provider, refreshed, faults>>

(* A rejected Mongo query: the use case throws and the client gets a 500.  *)
MongoError(r) ==
    /\ pc[r] \in {"find", "write", "load"}
    /\ Fault
    /\ Finish(r, Status("ERROR"))
    /\ UNCHANGED <<dbVars, redisVars, provider, events, refreshed>>

(* A write that took effect and whose acknowledgement was lost: the use    *)
(* case throws before it refreshes the token or publishes.                 *)
WriteUnacked(r) ==
    /\ pc[r] = "write" /\ Writable(r)
    /\ Fault
    /\ Commit(r)
    /\ Goto(r, "unacked")
    /\ UNCHANGED <<redisVars, provider, events, refreshed>>

Unacked(r) ==
    /\ pc[r] = "unacked"
    /\ Finish(r, Status("ERROR"))
    /\ UNCHANGED <<dbVars, redisVars, provider, events, refreshed, faults>>

(***************************************************************************)
(* The environment: TTL expiry, a lost token key, crash and reboot of a    *)
(* process.  CacheManager.initialize pings Redis once at boot and keeps    *)
(* the noop provider for good when the ping fails.                         *)
(***************************************************************************)
Expire(e) ==
    /\ e \in entries
    /\ entries' = entries \ {e}
    /\ UNCHANGED <<dbVars, token, minted, provider, reqVars, events, refreshed, faults>>

LoseToken ==
    /\ token # NoToken
    /\ Fault
    /\ token' = NoToken
    /\ UNCHANGED <<dbVars, minted, entries, provider, reqVars, events, refreshed>>

Crash(p) ==
    LET lost == {r \in Req : InFlight(r) /\ op[r].proc = p}
        Drop(f, x) == [r \in Req |-> IF r \in lost THEN x ELSE f[r]]
    IN  /\ Fault
        /\ \E kind \in {"redis", "noop"} : provider' = [provider EXCEPT ![p] = kind]
        /\ pc' = Drop(pc, "done")
        /\ reply' = Drop(reply, Status("LOST"))
        /\ tok' = Drop(tok, NoToken)
        /\ cand' = Drop(cand, NoToken)
        /\ val' = Drop(val, NoVal)
        /\ readTok' = Drop(readTok, NoToken)
        /\ UNCHANGED <<dbVars, redisVars, op, events, refreshed>>

(* The request's own progress, errors aside.                               *)
Step(r) ==
    \/ TokenGet(r) \/ TokenSetNx(r) \/ TokenReget(r)
    \/ EntryGet(r) \/ Load(r) \/ EntrySet(r)
    \/ Find(r) \/ Write(r) \/ Refresh(r) \/ Publish(r) \/ Unacked(r)

Err(r) ==
    \/ TokenError(r) \/ EntryGetError(r) \/ EntrySetError(r)
    \/ RefreshError(r) \/ MongoError(r) \/ WriteUnacked(r)

Environment ==
    \/ \E e \in entries : Expire(e)
    \/ LoseToken
    \/ \E p \in Proc : Crash(p)

Next ==
    \/ Environment
    \/ \E r \in Req : \/ \E s \in Sends, p \in Proc : Arrive(r, s, p)
                      \/ Step(r) \/ Err(r)

Spec == Init /\ [][Next]_vars

(* Every remote call is answered or rejected in the end (ioredis gives up  *)
(* after maxRetriesPerRequest, the Mongo driver after its timeouts), and   *)
(* node runs the continuation of every settled promise.                    *)
FairSpec == Spec /\ \A r \in Req : WF_vars(Step(r))

-----------------------------------------------------------------------------
(***************************************************************************)
(* Properties.                                                             *)
(***************************************************************************)
Steps == {"idle", "tokenGet", "tokenNx", "tokenReget", "entryGet", "load", "entrySet",
          "find", "write", "refresh", "publish", "unacked", "done"}
OpType == [kind : Reads \cup Writes \cup {"none"}, key : Key, proc : Proc \cup {NoProc}]
ReplyType == [status : {"none", "ok", "NOT_FOUND", "INTERNAL", "ERROR", "LOST"}, val : Value]
EntryType == [tok : Token \ {NoToken}, key : Key, val : Value, readTok : Nat]
EventType == [name : Writes, id : Id, by : Req]

(* Every variable holds what the code can put in it.                       *)
TypeOK ==
    /\ db \in [Id -> Version] /\ used \subseteq Id
    /\ hist \in [Id -> SUBSET Version]
    /\ token \in Nat /\ minted \in Nat /\ entries \subseteq EntryType
    /\ provider \in [Proc -> {"redis", "noop"}]
    /\ pc \in [Req -> Steps]
    /\ op \in [Req -> OpType]
    /\ tok \in [Req -> Token] /\ cand \in [Req -> Nat] /\ readTok \in [Req -> Nat]
    /\ val \in [Req -> Value]
    /\ reply \in [Req -> ReplyType]
    /\ events \subseteq EventType /\ wrote \subseteq Req /\ refreshed \subseteq Req
    /\ faults \in 0..MaxFaults

Stale(k, v) == v # View(k)

(* The writes to the items of key k that took effect and whose refresh of  *)
(* the namespace token has not, or never will: it is still to come, it     *)
(* failed, its process crashed before it or runs on the noop provider.     *)
Unrefreshed(k) == {w \in wrote \ refreshed : op[w].key \in Scope(k)}

(* What the namespace token is for: an entry the current token reaches     *)
(* disagrees with the database only if a write to its items has not        *)
(* refreshed the token, or the fill that stored it read the database       *)
(* before the last refresh and built its key after it (remember builds the *)
(* key twice).                                                             *)
StaleExplained ==
    \A e \in entries :
        e.tok = token /\ Stale(e.key, e.val) =>
            e.readTok # token \/ Unrefreshed(e.key) # {}

(* The same promise without the race: once every write has refreshed the   *)
(* token, what the current token reaches is what the database holds.       *)
InvalidationIsComplete ==
    \A e \in entries : e.tok = token /\ Unrefreshed(e.key) = {} => ~Stale(e.key, e.val)

(* Two requests never both delete an item: one DELETED event per item, and *)
(* after it no request writes the item again (findByIdAndDelete and        *)
(* findByIdAndUpdate are atomic; the earlier findById is only a hint).     *)
Deleters(i) == {r \in Req : op[r].kind = "delete" /\ op[r].key = i /\ reply[r].status = "ok"}
DeletedOnce ==
    \A i \in Id :
        /\ Cardinality(Deleters(i)) <= 1
        /\ Cardinality({e \in events : e.name = "delete" /\ e.id = i}) <= 1
        /\ Deleters(i) # {} => db[i] = Absent

(* An event tells of a write that took effect and, on a process with Redis *)
(* and no failure, only once the token had been refreshed after it; and a  *)
(* write answered with success always has its event.                       *)
EventsMatchWrites ==
    /\ \A e \in events : /\ e.by \in wrote
                         /\ e.by \in refreshed \/ ~Cached(e.by) \/ faults > 0
    /\ \A r \in Req : op[r].kind \in Writes =>
          (reply[r].status = "ok" <=> \E e \in events : e.by = r)

(* Every request sent gets an answer (the LOST ones lose it to a crash).   *)
EveryRequestAnswered == \A r \in Req : InFlight(r) ~> pc[r] = "done"

(* The detailed specification implements the abstract one: a write that    *)
(* took effect but is not answered yet has "wrote"; a fill holding null    *)
(* has noted the item absent.                                              *)
Done(r) ==
    CASE pc[r] \in {"refresh", "publish", "unacked"} -> "wrote"
      [] val[r] # NoVal /\ IsNull(op[r].key, val[r]) -> "absent"
      [] OTHER -> "nothing"

Promise == INSTANCE ItemStore WITH
    job <- [r \in Req |-> [kind |-> op[r].kind, key |-> op[r].key]],
    did <- [r \in Req |-> IF op[r].kind = "none" THEN "nothing" ELSE Done(r)]

(* Clients see atomic writes, values that were really stored and a         *)
(* "not found" that is never stale, whatever the cache does.               *)
ImplementsItemStore == Promise!Spec
==============================================================================
