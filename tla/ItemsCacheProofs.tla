-------------------------- MODULE ItemsCacheProofs ---------------------------
(***************************************************************************)
(* Proofs about ItemsCache, for any number of requests, processes, items   *)
(* and faults: type correctness, the explanation of stale entries, that    *)
(* events match writes and that an item is deleted once.                   *)
(***************************************************************************)
EXTENDS ItemsCache, FiniteSetTheorems, TLAPS

USE SeededAssumption, VersionAssumption, KeyAssumption, ProcAssumption, TokenAssumption,
    SendsAssumption, BoundAssumption

TokenSteps == {"tokenGet", "tokenNx", "tokenReget"}
ReadSteps  == TokenSteps \cup {"entryGet", "load", "entrySet"}
WriteSteps == {"find", "write", "refresh", "publish", "unacked"}

(* What a request holds at each point of its program.                      *)
LocalInv ==
    \A r \in Req :
        /\ pc[r] \in ReadSteps => op[r].kind \in Reads
        /\ pc[r] \in WriteSteps => op[r].kind \in Writes
        /\ op[r].kind \in Writes => op[r].key \in Id
        /\ cand[r] # NoToken <=> pc[r] \in {"tokenNx", "tokenReget"}
        /\ pc[r] \in {"entryGet", "entrySet"} => tok[r] # NoToken
        /\ pc[r] = "entrySet" => val[r] # NoVal
        /\ val[r] # NoVal => val[r] \in [Scope(op[r].key) -> Version]
        /\ pc[r] = "idle" => val[r] = NoVal /\ r \notin wrote
        /\ pc[r] \in {"idle", "find", "write", "refresh"} => r \notin refreshed

(* A token still to be installed has never been the namespace token, and   *)
(* no two requests hold the same one.                                      *)
TokenInv ==
    /\ token <= minted
    /\ \A e \in entries : e.readTok <= minted
    /\ \A r \in Req : readTok[r] <= minted /\ cand[r] <= minted
    /\ \A r \in Req : cand[r] # NoToken =>
          /\ token # cand[r]
          /\ \A e \in entries : e.readTok # cand[r]
          /\ \A q \in Req : readTok[q] # cand[r]
          /\ \A q \in Req \ {r} : cand[q] # cand[r]

(* v, read from the database under token t, is current unless a write has  *)
(* not refreshed the token.                                                *)
Fresh(k, v, t) == t = token /\ token # NoToken => v = View(k) \/ Unrefreshed(k) # {}

FillInv ==
    /\ \A r \in Req : val[r] # NoVal => Fresh(op[r].key, val[r], readTok[r])
    /\ \A e \in entries : Fresh(e.key, e.val, e.readTok)

IInv == TypeOK /\ LocalInv /\ TokenInv /\ FillInv

-----------------------------------------------------------------------------
(* The values a key can have, and those that are not NoVal.                *)
LEMMA ScopeFacts ==
    /\ \A k \in Key : Scope(k) \subseteq Id /\ Scope(k) # {}
    /\ \A k \in Key : [Scope(k) -> Version] \subseteq Value
    /\ NoVal \in Value
    /\ \A k \in Key : NoVal \notin [Scope(k) -> Version]
<1>1. \A k \in Key : Scope(k) \subseteq Id /\ Scope(k) # {}
  BY DEF Scope, Key
<1>2. \A k \in Key : [Scope(k) -> Version] \subseteq Value
  BY <1>1 DEF Value
<1>3. NoVal \in [{} -> Version]
  BY DEF NoVal, Version
<1>4. NoVal \in Value
  BY <1>3 DEF Value
<1>5. \A k \in Key : NoVal \notin [Scope(k) -> Version]
  BY <1>1 DEF NoVal
<1> QED BY <1>1, <1>2, <1>4, <1>5

(* A read of the database has the shape of its key and is never NoVal.     *)
LEMMA ViewFacts ==
    ASSUME TypeOK, NEW k \in Key
    PROVE  View(k) \in [Scope(k) -> Version] /\ View(k) \in Value /\ View(k) # NoVal
BY ScopeFacts DEF TypeOK, View

(* At the start nothing is cached, in flight or written.                   *)
LEMMA InitInv == Init => IInv
<1> SUFFICES ASSUME Init PROVE IInv
  OBVIOUS
<1> USE ScopeFacts DEF Init
<1>1. TypeOK
  BY DEF TypeOK, Version, NoToken, Token, Steps, NoOp, OpType, NoReply, ReplyType, Key
<1>2. LocalInv
  BY DEF LocalInv, NoOp, NoToken, ReadSteps, TokenSteps, WriteSteps, Writes, Changes
<1>3. TokenInv
  BY DEF TokenInv, NoToken
<1>4. FillInv
  BY DEF FillInv
<1> QED BY <1>1, <1>2, <1>3, <1>4 DEF IInv

-----------------------------------------------------------------------------
(* TypeOK, the requests' part of it first.                                 *)
ReqTypeOK ==
    /\ pc \in [Req -> Steps] /\ op \in [Req -> OpType]
    /\ tok \in [Req -> Token] /\ cand \in [Req -> Nat] /\ readTok \in [Req -> Nat]
    /\ val \in [Req -> Value] /\ reply \in [Req -> ReplyType]

(* The answers a request can get.                                          *)
LEMMA ReplyFacts ==
    /\ \A s \in {"ok", "NOT_FOUND", "INTERNAL", "ERROR", "LOST"} : Status(s) \in ReplyType
    /\ \A v \in Value : Found(v) \in ReplyType
    /\ \A k \in Key, v \in Value : Result(k, v) \in ReplyType
<1>1. \A s \in {"ok", "NOT_FOUND", "INTERNAL", "ERROR", "LOST"} : Status(s) \in ReplyType
  BY ScopeFacts DEF Status, ReplyType
<1>2. \A v \in Value : Found(v) \in ReplyType
  BY DEF Found, ReplyType
<1> QED BY <1>1, <1>2 DEF Result

(* A finished request holds typed values only.                             *)
LEMMA FinishType ==
    ASSUME ReqTypeOK, NEW r \in Req, NEW a \in ReplyType, Finish(r, a)
    PROVE  ReqTypeOK'
BY ScopeFacts DEF ReqTypeOK, Finish, Steps, Token, NoToken

(* So does one that goes on to its next call,                              *)
LEMMA GotoType ==
    ASSUME ReqTypeOK, NEW r \in Req, NEW s \in Steps, Goto(r, s)
    PROVE  ReqTypeOK'
BY DEF ReqTypeOK, Goto

(* and one that has got the token for its key.                             *)
LEMMA WithTokenType ==
    ASSUME ReqTypeOK, NEW r \in Req, NEW t \in Token, WithToken(r, t)
    PROVE  ReqTypeOK'
BY DEF ReqTypeOK, WithToken, Steps, NoToken

(* A write stores a version and records it in the history.                 *)
LEMMA CommitType ==
    ASSUME TypeOK, NEW r \in Req, Commit(r)
    PROVE  /\ db' \in [Id -> Version] /\ hist' \in [Id -> SUBSET Version]
           /\ wrote' \subseteq Req /\ used' \subseteq Id
<1>1. Written(r) \in Version
  BY DEF Written, Version
<1>2. db' \in [Id -> Version] /\ wrote' \subseteq Req /\ used' \subseteq Id
  BY <1>1 DEF Commit, TypeOK
<1>3. \A i \in Id : hist[i] \cup {Written(r)} \in SUBSET Version
  BY <1>1 DEF TypeOK
<1>4. hist' \in [Id -> SUBSET Version]
  BY <1>3 DEF Commit, TypeOK
<1> QED BY <1>2, <1>4

(* A request that arrives keeps the types.                                 *)
LEMMA ArriveType ==
    ASSUME TypeOK, NEW r \in Req, NEW s \in Sends, NEW p \in Proc, Arrive(r, s, p)
    PROVE  TypeOK'
<1>1. s.kind \in Reads \cup Writes /\ s.key \in Key /\ (s.kind \in Writes => s.key \in Id)
  BY DEF Reads, Writes, Changes, Key
<1>2. FirstCall(s.kind, p) \in Steps
  BY <1>1 DEF FirstCall, Steps, Writes
<1>3. [kind |-> s.kind, key |-> s.key, proc |-> p] \in OpType
  BY <1>1 DEF OpType
<1>4. used' \subseteq Id
  BY <1>1 DEF Arrive, TypeOK, Writes
<1> QED BY <1>2, <1>3, <1>4 DEF TypeOK, Arrive, redisVars

(* Every step but an arrival and a crash: the typing of the request's own  *)
(* variables is in the lemmas above.                                       *)
LEMMA StepType ==
    ASSUME TypeOK, LocalInv, NEW r \in Req, Step(r) \/ Err(r)
    PROVE  TypeOK'
<1> USE DEF dbVars, redisVars
<1>0. ReqTypeOK /\ op[r].key \in Key /\ token \in Token
  BY DEF TypeOK, ReqTypeOK, OpType, Token
<1>1. CASE TokenGet(r)
  <2>1. CASE token # NoToken
    BY <1>0, <1>1, <2>1, WithTokenType DEF TokenGet, TypeOK, ReqTypeOK
  <2>2. CASE token = NoToken
    BY <1>1, <2>2 DEF TokenGet, TypeOK, Steps
  <2> QED BY <2>1, <2>2
<1>2. CASE TokenSetNx(r)
  <2>1. cand[r] \in Token /\ cand[r] \in Nat
    BY <1>0 DEF ReqTypeOK, Token
  <2>2. ReqTypeOK'
    BY <1>0, <1>2, <2>1, WithTokenType, GotoType DEF TokenSetNx, Steps
  <2> QED BY <1>2, <2>1, <2>2 DEF TokenSetNx, TypeOK, ReqTypeOK
<1>3. CASE TokenReget(r)
  <2>1. ReqTypeOK'
    BY <1>0, <1>3, WithTokenType DEF TokenReget, ReqTypeOK, Token
  <2> QED BY <1>3, <2>1 DEF TokenReget, TypeOK, ReqTypeOK
<1>4. CASE EntryGet(r)
  <2>1. ReqTypeOK'
    BY <1>0, <1>4, FinishType, GotoType, ReplyFacts DEF EntryGet, Steps, At, TypeOK, EntryType
  <2> QED BY <1>4, <2>1 DEF EntryGet, TypeOK, ReqTypeOK
<1>5. CASE Load(r)
  <2>1. CASE Cached(r)
    BY <1>0, <1>5, <2>1, ViewFacts DEF Load, TypeOK, Steps
  <2>2. CASE ~Cached(r)
    BY <1>0, <1>5, <2>2, ViewFacts, ReplyFacts, FinishType DEF Load, TypeOK, ReqTypeOK
  <2> QED BY <2>1, <2>2
<1>6. CASE EntrySet(r) \/ EntrySetError(r)
  <2>1. ReqTypeOK'
    BY <1>0, <1>6, FinishType, ReplyFacts DEF EntrySet, EntrySetError, ReqTypeOK
  <2>2. entries' \subseteq EntryType
    BY <1>0, <1>6 DEF EntrySet, EntrySetError, Store, TypeOK, EntryType, LocalInv, ReqTypeOK
  <2> QED BY <1>6, <2>1, <2>2 DEF EntrySet, EntrySetError, Fault, TypeOK, ReqTypeOK
<1>7. CASE Find(r)
  <2>1. ReqTypeOK'
    BY <1>0, <1>7, FinishType, GotoType, ReplyFacts DEF Find, Steps
  <2> QED BY <1>7, <2>1 DEF Find, TypeOK, ReqTypeOK
<1>8. CASE Write(r) \/ WriteUnacked(r)
  <2>1. ReqTypeOK'
    BY <1>0, <1>8, FinishType, GotoType, ReplyFacts DEF Write, WriteUnacked, Steps
  <2>2. Commit(r) => db' \in [Id -> Version] /\ hist' \in [Id -> SUBSET Version]
                     /\ wrote' \subseteq Req /\ used' \subseteq Id
    BY CommitType
  <2> QED BY <1>8, <2>1, <2>2 DEF Write, WriteUnacked, Fault, TypeOK, ReqTypeOK
<1>9. CASE Refresh(r) \/ RefreshError(r)
  <2>1. ReqTypeOK'
    BY <1>0, <1>9, GotoType DEF Refresh, RefreshError, Steps
  <2> QED BY <1>9, <2>1 DEF Refresh, RefreshError, Fault, TypeOK, ReqTypeOK
<1>10. CASE Publish(r)
  <2>1. ReqTypeOK'
    BY <1>0, <1>10, FinishType, ReplyFacts DEF Publish
  <2>2. [name |-> op[r].kind, id |-> op[r].key, by |-> r] \in EventType
    BY <1>10 DEF Publish, LocalInv, WriteSteps, EventType
  <2> QED BY <1>10, <2>1, <2>2 DEF Publish, TypeOK, ReqTypeOK
<1>11. CASE Unacked(r) \/ MongoError(r)
  <2>1. ReqTypeOK'
    BY <1>0, <1>11, FinishType, ReplyFacts DEF Unacked, MongoError
  <2> QED BY <1>11, <2>1 DEF Unacked, MongoError, Fault, TypeOK, ReqTypeOK
<1>12. CASE TokenError(r)
  <2>1. ReqTypeOK'
    BY <1>0, <1>12, WithTokenType DEF TokenError, Token
  <2> QED BY <1>0, <1>12, <2>1 DEF TokenError, Fault, TypeOK, ReqTypeOK
<1>13. CASE EntryGetError(r)
  <2>1. ReqTypeOK'
    BY <1>0, <1>13, GotoType DEF EntryGetError, Steps
  <2> QED BY <1>13, <2>1 DEF EntryGetError, Fault, TypeOK, ReqTypeOK
<1> QED
  BY <1>1, <1>2, <1>3, <1>4, <1>5, <1>6, <1>7, <1>8, <1>9, <1>10, <1>11, <1>12, <1>13
  DEF Step, Err

(* Expiries, losses of the token and crashes keep the types.               *)
LEMMA EnvironmentType ==
    ASSUME TypeOK, Environment
    PROVE  TypeOK'
<1> USE DEF TypeOK, dbVars, redisVars, reqVars
<1>1. ASSUME NEW e \in entries, Expire(e) PROVE TypeOK'
  BY <1>1 DEF Expire
<1>2. CASE LoseToken
  BY <1>2 DEF LoseToken, Fault, NoToken
<1>3. ASSUME NEW p \in Proc, Crash(p) PROVE TypeOK'
  BY <1>3, ScopeFacts, ReplyFacts DEF Crash, Fault, Steps, Token, NoToken
<1> QED BY <1>1, <1>2, <1>3 DEF Environment

-----------------------------------------------------------------------------
(* LocalInv is about one request at a time: a step of r leaves it true of  *)
(* the others.                                                             *)
LocalOf(r) ==
    /\ pc[r] \in ReadSteps => op[r].kind \in Reads
    /\ pc[r] \in WriteSteps => op[r].kind \in Writes
    /\ op[r].kind \in Writes => op[r].key \in Id
    /\ cand[r] # NoToken <=> pc[r] \in {"tokenNx", "tokenReget"}
    /\ pc[r] \in {"entryGet", "entrySet"} => tok[r] # NoToken
    /\ pc[r] = "entrySet" => val[r] # NoVal
    /\ val[r] # NoVal => val[r] \in [Scope(op[r].key) -> Version]
    /\ pc[r] = "idle" => val[r] = NoVal /\ r \notin wrote
    /\ pc[r] \in {"idle", "find", "write", "refresh"} => r \notin refreshed

(* A step of r leaves what every other request holds alone.                *)
LEMMA LocalFrame ==
    ASSUME LocalInv, NEW r \in Req, LocalOf(r)',
           \A q \in Req \ {r} : /\ pc'[q] = pc[q] /\ op'[q] = op[q] /\ cand'[q] = cand[q]
                                /\ tok'[q] = tok[q] /\ val'[q] = val[q]
                                /\ (q \in wrote' <=> q \in wrote)
                                /\ (q \in refreshed' <=> q \in refreshed)
    PROVE  LocalInv'
BY DEF LocalInv, LocalOf

(* The local invariant: a request that arrives,                            *)
LEMMA ArriveLocal ==
    ASSUME TypeOK, LocalInv, NEW r \in Req, NEW s \in Sends, NEW p \in Proc, Arrive(r, s, p)
    PROVE  LocalInv'
<1>1. /\ s.kind \in Reads \/ (s.kind \in Writes /\ s.key \in Id)
      /\ s.kind \notin Reads \/ s.kind \notin Writes
  BY DEF Reads, Writes, Changes
<1>2. /\ s.kind \in Reads => FirstCall(s.kind, p) \in {"tokenGet", "load"}
      /\ s.kind \in Writes => FirstCall(s.kind, p) \in {"find", "write"}
  BY <1>1 DEF FirstCall, Reads, Writes, Changes
<1>3. LocalOf(r)'
  BY <1>1, <1>2 DEF Arrive, LocalInv, LocalOf, TypeOK, ReadSteps, TokenSteps, WriteSteps
<1> QED BY <1>3, LocalFrame DEF Arrive, TypeOK

(* one that finishes,                                                      *)
LEMMA FinishLocal ==
    ASSUME TypeOK, LocalInv, NEW r \in Req, NEW a, Finish(r, a),
           \A q \in Req \ {r} : /\ (q \in wrote' <=> q \in wrote)
                                /\ (q \in refreshed' <=> q \in refreshed)
    PROVE  LocalInv'
<1>1. LocalOf(r)'
  BY DEF Finish, LocalInv, LocalOf, TypeOK, ReadSteps, TokenSteps, WriteSteps
<1> QED BY <1>1, LocalFrame DEF Finish, TypeOK

(* one that gets its token.                                                *)
LEMMA WithTokenLocal ==
    ASSUME TypeOK, LocalInv, NEW r \in Req, pc[r] \in TokenSteps,
           NEW t \in Token \ {NoToken}, WithToken(r, t), UNCHANGED <<wrote, refreshed>>
    PROVE  LocalInv'
<1>1. LocalOf(r)'
  BY DEF WithToken, LocalInv, LocalOf, TypeOK, ReadSteps, TokenSteps, WriteSteps
<1> QED BY <1>1, LocalFrame DEF WithToken, TypeOK

(* A Goto inside the read or the write program, away from the steps that   *)
(* need a token.                                                           *)
LEMMA GotoLocal ==
    ASSUME TypeOK, LocalInv, NEW r \in Req, NEW s, Goto(r, s),
           \/ pc[r] \in ReadSteps /\ cand[r] = NoToken /\ s = "load"
           \/ pc[r] = "tokenNx" /\ s = "tokenReget"
           \/ pc[r] \in WriteSteps /\ s \in {"write", "refresh"} /\ r \notin refreshed'
           \/ pc[r] \in WriteSteps /\ s \in {"publish", "unacked"},
           \A q \in Req \ {r} : /\ (q \in wrote' <=> q \in wrote)
                                /\ (q \in refreshed' <=> q \in refreshed)
    PROVE  LocalInv'
<1>1. LocalOf(r)'
  BY DEF Goto, LocalInv, LocalOf, TypeOK, ReadSteps, TokenSteps, WriteSteps
<1> QED BY <1>1, LocalFrame DEF Goto, TypeOK

(* Every step of a request keeps the local invariant.                      *)
LEMMA StepLocal ==
    ASSUME TypeOK, LocalInv, NEW r \in Req, Step(r) \/ Err(r)
    PROVE  LocalInv'
<1> USE DEF dbVars
<1>0. token \in Token /\ Fallback \in Token \ {NoToken}
  BY DEF TypeOK, Token, NoToken
<1>1. CASE TokenGet(r)
  <2>1. CASE token # NoToken
    BY <1>0, <1>1, <2>1, WithTokenLocal DEF TokenGet, TokenSteps
  <2>2. CASE token = NoToken
    <3>1. LocalOf(r)'
      BY <1>1, <2>2 DEF TokenGet, LocalInv, LocalOf, TypeOK, ReadSteps, TokenSteps,
                        WriteSteps, NoToken
    <3> QED BY <1>1, <2>2, <3>1, LocalFrame DEF TokenGet, TypeOK
  <2> QED BY <2>1, <2>2
<1>2. CASE TokenSetNx(r)
  <2>1. cand[r] \in Token \ {NoToken}
    BY <1>2 DEF TokenSetNx, LocalInv, TypeOK, Token
  <2> QED BY <1>2, <2>1, WithTokenLocal, GotoLocal DEF TokenSetNx, TokenSteps
<1>3. CASE TokenReget(r)
  <2>1. cand[r] \in Token \ {NoToken}
    BY <1>3 DEF TokenReget, LocalInv, TypeOK, Token
  <2> QED BY <1>0, <1>3, <2>1, WithTokenLocal DEF TokenReget, TokenSteps
<1>4. CASE EntryGet(r) \/ EntryGetError(r)
  <2>1. cand[r] = NoToken /\ pc[r] \in ReadSteps
    BY <1>4 DEF EntryGet, EntryGetError, LocalInv, ReadSteps
  <2> QED BY <1>4, <2>1, FinishLocal, GotoLocal DEF EntryGet, EntryGetError
<1>5. CASE Load(r)
  <2>1. CASE Cached(r)
    <3>1. op[r].key \in Key
      BY DEF TypeOK, OpType
    <3>2. LocalOf(r)'
      BY <1>5, <2>1, <3>1, ViewFacts DEF Load, LocalInv, LocalOf, TypeOK, ReadSteps,
                             TokenSteps, WriteSteps
    <3> QED BY <1>5, <2>1, <3>2, LocalFrame DEF Load, TypeOK
  <2>2. CASE ~Cached(r)
    BY <1>5, <2>2, FinishLocal DEF Load
  <2> QED BY <2>1, <2>2
<1>6. CASE EntrySet(r) \/ EntrySetError(r)
  BY <1>6, FinishLocal DEF EntrySet, EntrySetError
<1>7. CASE Find(r)
  BY <1>7, FinishLocal, GotoLocal DEF Find, WriteSteps, LocalInv
<1>8. CASE Write(r) \/ WriteUnacked(r)
  BY <1>8, FinishLocal, GotoLocal DEF Write, WriteUnacked, Commit, WriteSteps, LocalInv
<1>9. CASE Refresh(r) \/ RefreshError(r)
  BY <1>9, GotoLocal DEF Refresh, RefreshError, WriteSteps
<1>10. CASE Publish(r) \/ Unacked(r) \/ MongoError(r)
  BY <1>10, FinishLocal DEF Publish, Unacked, MongoError
<1>11. CASE TokenError(r)
  BY <1>0, <1>11, WithTokenLocal DEF TokenError, TokenSteps
<1> QED
  BY <1>1, <1>2, <1>3, <1>4, <1>5, <1>6, <1>7, <1>8, <1>9, <1>10, <1>11 DEF Step, Err

(* So does the environment: a crash empties what a request held.           *)
LEMMA EnvironmentLocal ==
    ASSUME TypeOK, LocalInv, Environment
    PROVE  LocalInv'
<1> USE DEF dbVars, redisVars, reqVars
<1>1. CASE (\E e \in entries : Expire(e)) \/ LoseToken
  BY <1>1 DEF Expire, LoseToken, LocalInv
<1>2. ASSUME NEW p \in Proc, Crash(p) PROVE LocalInv'
  BY <1>2 DEF Crash, LocalInv, TypeOK, ReadSteps, TokenSteps, WriteSteps
<1> QED BY <1>1, <1>2 DEF Environment

-----------------------------------------------------------------------------
(* The token discipline.                                                   *)
LEMMA ArriveToken ==
    ASSUME TypeOK, TokenInv, NEW r \in Req, NEW s \in Sends, NEW p \in Proc, Arrive(r, s, p)
    PROVE  TokenInv'
BY DEF Arrive, TokenInv, redisVars

(* A finished request leaves no token behind but that of its entry.        *)
LEMMA FinishToken ==
    ASSUME TypeOK, TokenInv, NEW r \in Req, NEW a, Finish(r, a),
           UNCHANGED <<token, minted>>,
           \A e \in entries' : e \in entries \/ e.readTok = readTok[r]
    PROVE  TokenInv'
BY DEF Finish, TokenInv, TypeOK, NoToken

(* A step to the next call touches no token.                               *)
LEMMA GotoToken ==
    ASSUME TypeOK, TokenInv, NEW r \in Req, NEW s, Goto(r, s), UNCHANGED redisVars
    PROVE  TokenInv'
BY DEF Goto, TokenInv, redisVars

(* A candidate that becomes the token is no candidate any longer.          *)
LEMMA WithTokenToken ==
    ASSUME TypeOK, TokenInv, NEW r \in Req, NEW t, WithToken(r, t),
           UNCHANGED <<minted, entries>>,
           token' = token \/ (token' = cand[r] /\ cand[r] # NoToken)
    PROVE  TokenInv'
BY DEF WithToken, TokenInv, TypeOK, NoToken

(* A freshly minted token is larger than every token there is.             *)
LEMMA RefreshToken ==
    ASSUME TypeOK, TokenInv, NEW r \in Req, Goto(r, "publish"), UNCHANGED entries,
           \/ UNCHANGED <<token, minted>>
           \/ minted' = minted + 1 /\ token' \in {token, minted'}
    PROVE  TokenInv'
BY DEF Goto, TokenInv, TypeOK, NoToken, EntryType

(* Every step of a request keeps the token discipline.                     *)
LEMMA StepToken ==
    ASSUME TypeOK, LocalInv, TokenInv, NEW r \in Req, Step(r) \/ Err(r)
    PROVE  TokenInv'
<1> USE DEF redisVars
<1>1. CASE TokenGet(r)
  <2>1. CASE token # NoToken
    BY <1>1, <2>1, WithTokenToken DEF TokenGet
  <2>2. CASE token = NoToken
    BY <1>1, <2>2 DEF TokenGet, TokenInv, TypeOK, NoToken, EntryType
  <2> QED BY <2>1, <2>2
<1>2. CASE TokenSetNx(r)
  BY <1>2, WithTokenToken, GotoToken DEF TokenSetNx, LocalInv
<1>3. CASE TokenReget(r)
  BY <1>3, WithTokenToken DEF TokenReget
<1>4. CASE EntryGet(r) \/ EntryGetError(r)
  BY <1>4, FinishToken, GotoToken DEF EntryGet, EntryGetError
<1>5. CASE Load(r)
  <2>1. CASE Cached(r)
    BY <1>5, <2>1 DEF Load, TokenInv, TypeOK
  <2>2. CASE ~Cached(r)
    BY <1>5, <2>2, FinishToken DEF Load
  <2> QED BY <2>1, <2>2
<1>6. CASE EntrySet(r) \/ EntrySetError(r)
  BY <1>6, FinishToken DEF EntrySet, EntrySetError, Store
<1>7. CASE Find(r) \/ Write(r) \/ WriteUnacked(r)
  BY <1>7, FinishToken, GotoToken DEF Find, Write, WriteUnacked
<1>8. CASE Refresh(r) \/ RefreshError(r)
  BY <1>8, RefreshToken DEF Refresh, RefreshError
<1>9. CASE Publish(r) \/ Unacked(r) \/ MongoError(r)
  BY <1>9, FinishToken DEF Publish, Unacked, MongoError
<1>10. CASE TokenError(r)
  BY <1>10, WithTokenToken DEF TokenError, LocalInv
<1> QED
  BY <1>1, <1>2, <1>3, <1>4, <1>5, <1>6, <1>7, <1>8, <1>9, <1>10 DEF Step, Err

(* So does the environment.                                                *)
LEMMA EnvironmentToken ==
    ASSUME TypeOK, TokenInv, Environment
    PROVE  TokenInv'
<1> USE DEF redisVars, reqVars
<1>1. ASSUME NEW e \in entries, Expire(e) PROVE TokenInv'
  BY <1>1 DEF Expire, TokenInv
<1>2. CASE LoseToken
  BY <1>2 DEF LoseToken, TokenInv, TypeOK, NoToken
<1>3. ASSUME NEW p \in Proc, Crash(p) PROVE TokenInv'
  BY <1>3 DEF Crash, TokenInv, TypeOK, NoToken
<1> QED BY <1>1, <1>2, <1>3 DEF Environment

-----------------------------------------------------------------------------
(* A value stays fresh while neither the database nor the token changes.   *)
LEMMA FreshStable ==
    ASSUME UNCHANGED <<db, token, wrote, refreshed>>, \A w \in wrote : op'[w] = op[w],
           NEW k, NEW v, NEW t, Fresh(k, v, t)
    PROVE  Fresh(k, v, t)'
BY DEF Fresh, View, Unrefreshed

(* A write makes the values of its item old, and is itself the excuse.     *)
LEMMA FreshCommit ==
    ASSUME TypeOK, NEW r \in Req, Commit(r), r \notin refreshed,
           UNCHANGED <<op, token, refreshed>>,
           NEW k, NEW v, NEW t, Fresh(k, v, t)
    PROVE  Fresh(k, v, t)'
<1>1. CASE op[r].key \in Scope(k)
  BY <1>1 DEF Fresh, Unrefreshed, Commit
<1>2. CASE op[r].key \notin Scope(k)
  <2>1. View(k)' = View(k)
    <3>1. \A i \in Scope(k) : db'[i] = db[i]
      <4>1. Scope(k)' = Scope(k)
        OBVIOUS
      <4> QED BY <1>2 DEF Commit, TypeOK, Scope
    <3> QED BY <3>1 DEF View
  <2>2. Unrefreshed(k) \subseteq Unrefreshed(k)'
    BY DEF Unrefreshed, Commit
  <2> QED BY <2>1, <2>2 DEF Fresh
<1> QED BY <1>1, <1>2

(* No value was read under a token that is only now installed.             *)
LEMMA FreshNewToken ==
    ASSUME NEW k, NEW v, NEW t, t # token' \/ token' = NoToken
    PROVE  Fresh(k, v, t)'
BY DEF Fresh, NoToken

(* The values held after a step are old ones, and those stay fresh.        *)
LEMMA FillFrame ==
    ASSUME FillInv,
           \A r \in Req : val'[r] # NoVal => /\ val'[r] = val[r] /\ readTok'[r] = readTok[r]
                                             /\ op'[r] = op[r],
           \A e \in entries' :
               \/ e \in entries
               \/ \E r \in Req : /\ val[r] # NoVal
                                 /\ e.key = op[r].key /\ e.val = val[r]
                                 /\ e.readTok = readTok[r],
           \A k, v, t : /\ Fresh(k, v, t)
                        /\ \/ \E r \in Req : t = readTok[r]
                           \/ \E e \in entries : t = e.readTok
                        => Fresh(k, v, t)'
    PROVE  FillInv'
<1>1. ASSUME NEW r \in Req, val'[r] # NoVal
      PROVE  Fresh(op[r].key, val[r], readTok[r])'
  <2>1. Fresh(op[r].key, val[r], readTok[r])
    BY <1>1 DEF FillInv
  <2>2. \A k, v, t : k = op[r].key /\ v = val[r] /\ t = readTok[r] => Fresh(k, v, t)'
    BY <2>1
  <2>3. op'[r].key = op[r].key /\ val'[r] = val[r] /\ readTok'[r] = readTok[r]
    BY <1>1
  <2> QED BY <2>2, <2>3 DEF Fresh, View, Unrefreshed
<1>2. ASSUME NEW e \in entries'
      PROVE  Fresh(e.key, e.val, e.readTok)'
  BY <1>2 DEF FillInv
<1> QED BY <1>1, <1>2 DEF FillInv

(* A request that arrives has read and written nothing.                    *)
LEMMA ArriveFill ==
    ASSUME TypeOK, LocalInv, FillInv,
           NEW r \in Req, NEW s \in Sends, NEW p \in Proc, Arrive(r, s, p)
    PROVE  FillInv'
<1>1. \A w \in wrote : op'[w] = op[w]
  BY DEF Arrive, LocalInv, TypeOK
<1>2. \A k, v, t : Fresh(k, v, t) => Fresh(k, v, t)'
  BY <1>1, FreshStable DEF Arrive, redisVars
<1> QED BY <1>2, FillFrame DEF Arrive, LocalInv, TypeOK, redisVars

(* A step of r that leaves the database, the token and op alone and at     *)
(* most drops val[r], or stores it.                                        *)
LEMMA QuietFill ==
    ASSUME TypeOK, FillInv, NEW r \in Req, UNCHANGED <<db, token, wrote, refreshed, op>>,
           \A q \in Req : val'[q] # NoVal => val'[q] = val[q] /\ readTok'[q] = readTok[q],
           \A e \in entries' :
               \/ e \in entries
               \/ /\ val[r] # NoVal
                  /\ e.key = op[r].key /\ e.val = val[r] /\ e.readTok = readTok[r]
    PROVE  FillInv'
<1>1. \A k, v, t : Fresh(k, v, t) => Fresh(k, v, t)'
  BY FreshStable
<1> QED BY <1>1, FillFrame

(* A step that installs a token under which nothing has been read yet.     *)
LEMMA NewTokenFill ==
    ASSUME TypeOK, FillInv, UNCHANGED <<entries, val, readTok, op>>,
           \A q \in Req : readTok[q] # token',
           \A e \in entries : e.readTok # token'
    PROVE  FillInv'
<1>1. \A k, v, t : /\ \/ \E q \in Req : t = readTok[q]
                      \/ \E e \in entries : t = e.readTok
                   => Fresh(k, v, t)'
  BY FreshNewToken
<1> QED BY <1>1, FillFrame

(* A write makes what was read stale and is itself not refreshed yet.      *)
LEMMA CommitFill ==
    ASSUME TypeOK, FillInv, NEW r \in Req, Commit(r), r \notin refreshed,
           UNCHANGED <<redisVars, op, val, readTok, refreshed>>
    PROVE  FillInv'
<1>1. \A k, v, t : Fresh(k, v, t) => Fresh(k, v, t)'
  BY FreshCommit DEF redisVars
<1> QED BY <1>1, FillFrame DEF redisVars

(* Every step of a request keeps the fills explained.                      *)
LEMMA StepFill ==
    ASSUME TypeOK, LocalInv, TokenInv, FillInv, NEW r \in Req, Step(r) \/ Err(r)
    PROVE  FillInv'
<1> USE DEF dbVars, redisVars
<1>1. CASE TokenGet(r) \/ TokenReget(r)
  <2>1. UNCHANGED <<op, val, readTok>>
    BY <1>1 DEF TokenGet, TokenReget, WithToken
  <2> QED BY <1>1, <2>1, QuietFill DEF TokenGet, TokenReget
<1>2. CASE TokenSetNx(r) \/ TokenError(r)
  <2>1. UNCHANGED <<op, val, readTok, entries, db, wrote, refreshed>>
    BY <1>2 DEF TokenSetNx, TokenError, WithToken, Goto
  <2>2. CASE UNCHANGED token
    BY <2>1, <2>2, QuietFill
  <2>3. CASE token' = cand[r] /\ pc[r] = "tokenNx"
    BY <2>1, <2>3, NewTokenFill DEF TokenInv, LocalInv
  <2> QED BY <1>2, <2>2, <2>3 DEF TokenSetNx, TokenError
<1>3. CASE EntryGet(r) \/ EntryGetError(r)
  <2>1. op' = op /\ \A q \in Req : val'[q] # NoVal => val'[q] = val[q] /\ readTok'[q] = readTok[q]
    BY <1>3 DEF EntryGet, EntryGetError, Finish, Goto, TypeOK
  <2> QED BY <1>3, <2>1, QuietFill DEF EntryGet, EntryGetError
<1>4. CASE Load(r)
  <2>1. CASE Cached(r)
    <3>1. Fresh(op[r].key, View(op[r].key), token)'
      BY <1>4, <2>1 DEF Load, Fresh, View
    <3>2. \A k, v, t : Fresh(k, v, t) => Fresh(k, v, t)'
      BY <1>4, <2>1, FreshStable DEF Load
    <3>3. \A e \in entries' : Fresh(e.key, e.val, e.readTok)'
      BY <1>4, <2>1, <3>2 DEF Load, FillInv
    <3>4. ASSUME NEW q \in Req, val'[q] # NoVal
          PROVE  Fresh(op[q].key, val[q], readTok[q])'
      <4>1. CASE q = r
        BY <1>4, <2>1, <4>1 DEF Load, Fresh, View, TypeOK
      <4>2. CASE q # r
        <5>1. op'[q] = op[q] /\ val'[q] = val[q] /\ readTok'[q] = readTok[q]
          BY <1>4, <2>1, <4>2 DEF Load, TypeOK
        <5>2. Fresh(op[q].key, val[q], readTok[q])
          BY <3>4, <5>1 DEF FillInv
        <5> QED BY <1>4, <2>1, <5>1, <5>2 DEF Load, Fresh, View, Unrefreshed
      <4> QED BY <4>1, <4>2
    <3> QED BY <3>3, <3>4 DEF FillInv
  <2>2. CASE ~Cached(r)
    BY <1>4, <2>2, QuietFill DEF Load, Finish, TypeOK
  <2> QED BY <2>1, <2>2
<1>5. CASE EntrySet(r) \/ EntrySetError(r)
  <2>1. op' = op /\ \A q \in Req : val'[q] # NoVal => val'[q] = val[q] /\ readTok'[q] = readTok[q]
    BY <1>5 DEF EntrySet, EntrySetError, Finish, TypeOK
  <2>2. val[r] # NoVal
    BY <1>5 DEF EntrySet, EntrySetError, LocalInv
  <2>3. UNCHANGED <<db, token, wrote, refreshed>>
    BY <1>5 DEF EntrySet, EntrySetError
  <2>4. \A e \in entries' :
               \/ e \in entries
               \/ e.key = op[r].key /\ e.val = val[r] /\ e.readTok = readTok[r]
    BY <1>5 DEF EntrySet, EntrySetError, Store
  <2> QED BY <2>1, <2>2, <2>3, <2>4, QuietFill
<1>6. CASE Find(r) \/ Publish(r) \/ Unacked(r) \/ MongoError(r)
  <2>1. op' = op /\ \A q \in Req : val'[q] # NoVal => val'[q] = val[q] /\ readTok'[q] = readTok[q]
    BY <1>6 DEF Find, Publish, Unacked, MongoError, Finish, Goto, TypeOK
  <2> QED BY <1>6, <2>1, QuietFill DEF Find, Publish, Unacked, MongoError
<1>7. CASE Write(r) \/ WriteUnacked(r)
  <2>1. CASE Commit(r) /\ \E s \in Steps : Goto(r, s)
    <3>1. r \notin refreshed
      BY <1>7 DEF Write, WriteUnacked, LocalInv
    <3>2. UNCHANGED <<redisVars, op, val, readTok, refreshed>>
      BY <1>7, <2>1 DEF Write, WriteUnacked, Goto
    <3> QED BY <2>1, <3>1, <3>2, CommitFill
  <2>2. CASE Finish(r, Status("INTERNAL")) /\ UNCHANGED dbVars
    <3>1. op' = op /\ \A q \in Req : val'[q] # NoVal => val'[q] = val[q] /\ readTok'[q] = readTok[q]
      BY <2>2 DEF Finish, TypeOK
    <3> QED BY <1>7, <2>2, <3>1, QuietFill DEF Write, WriteUnacked
  <2> QED BY <1>7, <2>1, <2>2 DEF Write, WriteUnacked, Steps
<1>8. CASE Refresh(r) \/ RefreshError(r)
  <2>1. UNCHANGED <<op, val, readTok, entries, db, wrote>>
    BY <1>8 DEF Refresh, RefreshError, Goto
  <2>2. CASE UNCHANGED <<token, refreshed>>
    BY <2>1, <2>2, QuietFill
  <2>3. CASE token' = minted + 1
    <3>1. \A q \in Req : readTok[q] # token'
      BY <2>3 DEF TokenInv, TypeOK
    <3>2. \A e \in entries : e.readTok # token'
      BY <2>3 DEF TokenInv, TypeOK, EntryType
    <3> QED BY <2>1, <3>1, <3>2, NewTokenFill
  <2> QED BY <1>8, <2>2, <2>3 DEF Refresh, RefreshError
<1> QED BY <1>1, <1>2, <1>3, <1>4, <1>5, <1>6, <1>7, <1>8 DEF Step, Err

(* So does the environment: without a token no entry is reachable.         *)
LEMMA EnvironmentFill ==
    ASSUME TypeOK, LocalInv, TokenInv, FillInv, Environment
    PROVE  FillInv'
<1> USE DEF dbVars, redisVars, reqVars
<1>1. ASSUME NEW e \in entries, Expire(e) PROVE FillInv'
  <2>1. \A k, v, t : Fresh(k, v, t) => Fresh(k, v, t)'
    BY <1>1, FreshStable DEF Expire
  <2> QED BY <1>1, <2>1, FillFrame DEF Expire
<1>2. CASE LoseToken
  <2>1. \A k, v, t : Fresh(k, v, t)'
    BY <1>2, FreshNewToken DEF LoseToken
  <2> QED BY <1>2, <2>1, FillFrame DEF LoseToken
<1>3. ASSUME NEW p \in Proc, Crash(p) PROVE FillInv'
  <2>1. \A k, v, t : Fresh(k, v, t) => Fresh(k, v, t)'
    BY <1>3, FreshStable DEF Crash
  <2>2. op' = op /\ \A q \in Req : val'[q] # NoVal => val'[q] = val[q] /\ readTok'[q] = readTok[q]
    BY <1>3 DEF Crash, TypeOK
  <2> QED BY <1>3, <2>1, <2>2, FillFrame DEF Crash
<1> QED BY <1>1, <1>2, <1>3 DEF Environment

-----------------------------------------------------------------------------
(* The invariant is inductive.                                             *)
LEMMA NextInv == IInv /\ [Next]_vars => IInv'
<1> SUFFICES ASSUME IInv, [Next]_vars PROVE IInv'
  OBVIOUS
<1> USE DEF IInv
<1>1. ASSUME NEW r \in Req, NEW s \in Sends, NEW p \in Proc, Arrive(r, s, p)
      PROVE  IInv'
  BY <1>1, ArriveType, ArriveLocal, ArriveToken, ArriveFill
<1>2. ASSUME NEW r \in Req, Step(r) \/ Err(r) PROVE IInv'
  BY <1>2, StepType, StepLocal, StepToken, StepFill
<1>3. CASE Environment
  BY <1>3, EnvironmentType, EnvironmentLocal, EnvironmentToken, EnvironmentFill
<1>4. CASE UNCHANGED vars
  <2> USE <1>4 DEF vars, dbVars, redisVars, reqVars
  <2>1. TypeOK' BY DEF TypeOK
  <2>2. LocalInv' BY DEF LocalInv
  <2>3. TokenInv' BY DEF TokenInv
  <2>4. FillInv' BY DEF FillInv, Fresh, View, Unrefreshed
  <2> QED BY <2>1, <2>2, <2>3, <2>4
<1> QED BY <1>1, <1>2, <1>3, <1>4 DEF Next

(* The invariant holds throughout every behaviour.                         *)
THEOREM Invariance == Spec => []IInv
BY InitInv, NextInv, PTL DEF Spec

(* Every variable always holds what the code can put in it: in particular  *)
(* no cache key is built with an empty token.                              *)
THEOREM TypeCorrect == Spec => []TypeOK
<1>1. IInv => TypeOK
  BY DEF IInv
<1> QED BY <1>1, Invariance, PTL

(* For any number of requests, processes, items and failures, an entry the *)
(* current token reaches is stale only through a raced fill or a write     *)
(* that has not refreshed the token.                                       *)
THEOREM StaleEntriesExplained == Spec => []StaleExplained
<1>1. IInv => StaleExplained
  BY DEF IInv, FillInv, Fresh, StaleExplained, Stale, TypeOK, EntryType
<1> QED BY <1>1, Invariance, PTL

-----------------------------------------------------------------------------
(* Events and deletes.  A request is done when it has an answer; it has    *)
(* written before it refreshes and publishes, and refreshed before it      *)
(* publishes, unless Redis or its process failed it.                       *)
OnTime(r) == r \in refreshed \/ ~Cached(r) \/ faults > 0
WriterOf(r) ==
    /\ pc[r] # "done" => reply[r].status = "none"
    /\ pc[r] \in {"refresh", "publish", "unacked"} => r \in wrote
    /\ pc[r] = "publish" => OnTime(r)
    /\ pc[r] = "find" => op[r].kind \in Changes
    /\ reply[r].status = "ok" /\ op[r].kind \in Writes => \E e \in events : e.by = r
EventOf(e) ==
    /\ e.by \in wrote /\ OnTime(e.by) /\ pc[e.by] = "done" /\ reply[e.by].status = "ok"
    /\ op[e.by].kind = e.name /\ op[e.by].key = e.id

(* Every request keeps that order, and every event has such a request.     *)
EventInv == (\A r \in Req : WriterOf(r)) /\ \A e \in events : EventOf(e)

(* The deletes of an item that took effect, and the items nobody has       *)
(* written yet: one is deleted at most once and then stays away, because   *)
(* its id is created only once.                                            *)
Deletes(i) == {r \in wrote : op[r].kind = "delete" /\ op[r].key = i}
Unborn(i) == \/ i \notin used
             \/ \E r \in Req : pc[r] = "write" /\ op[r].kind = "create" /\ op[r].key = i
DeleteInv ==
    /\ \A r \in Req : op[r].kind = "create" => op[r].key \in used
    /\ \A q, r \in Req : op[q].kind = "create" /\ op[r].kind = "create"
                            /\ op[q].key = op[r].key => q = r
    /\ \A i \in Id : /\ Unborn(i) => db[i] = Absent /\ Deletes(i) = {}
                     /\ Deletes(i) # {} => db[i] = Absent
                     /\ \A q, r \in Deletes(i) : q = r

(* Both histories at once.                                                 *)
HistInv == EventInv /\ DeleteInv

(* Nothing is written, deleted or published at the start.                  *)
LEMMA HistInit == Init => HistInv
<1> SUFFICES ASSUME Init PROVE HistInv
  OBVIOUS
<1>1. EventInv
  BY DEF Init, EventInv, WriterOf, NoReply, NoOp, Writes, Changes
<1>2. DeleteInv
  BY DEF Init, DeleteInv, Deletes, Unborn, NoOp
<1> QED BY <1>1, <1>2 DEF HistInv

(* A step of r leaves the other requests alone and takes back no write,    *)
(* refresh or event.                                                       *)
LEMMA StepFrame ==
    ASSUME TypeOK, NEW r \in Req, Step(r) \/ Err(r)
    PROVE  /\ pc[r] \notin {"idle", "done"} /\ op' = op /\ provider' = provider /\ used' = used
           /\ faults > 0 => faults' > 0
           /\ \A q \in Req \ {r} : pc'[q] = pc[q] /\ reply'[q] = reply[q]
           /\ refreshed \subseteq refreshed' /\ wrote \subseteq wrote' /\ events \subseteq events'
<1> USE DEF TypeOK, dbVars, redisVars
<1>1. CASE TokenGet(r) \/ TokenSetNx(r) \/ TokenReget(r) \/ TokenError(r)
  BY <1>1 DEF TokenGet, TokenSetNx, TokenReget, TokenError, WithToken, Goto, Fault
<1>2. CASE EntryGet(r) \/ EntryGetError(r) \/ Load(r) \/ EntrySet(r) \/ EntrySetError(r)
  BY <1>2 DEF EntryGet, EntryGetError, Load, EntrySet, EntrySetError, Finish, Goto, Fault
<1>3. CASE Find(r) \/ Write(r) \/ WriteUnacked(r) \/ Unacked(r) \/ MongoError(r)
  BY <1>3 DEF Find, Write, WriteUnacked, Unacked, MongoError, Commit, Finish, Goto, Fault
<1>4. CASE Refresh(r) \/ RefreshError(r) \/ Publish(r)
  BY <1>4 DEF Refresh, RefreshError, Publish, Finish, Goto, Fault
<1> QED BY <1>1, <1>2, <1>3, <1>4 DEF Step, Err

(* Only Publish adds an event, after the request's write and refresh.      *)
LEMMA StepEvent ==
    ASSUME TypeOK, LocalInv, EventInv, NEW r \in Req, Step(r) \/ Err(r)
    PROVE  EventInv'
<1>1. /\ pc[r] \notin {"idle", "done"} /\ op' = op /\ provider' = provider
      /\ faults > 0 => faults' > 0
      /\ \A q \in Req \ {r} : pc'[q] = pc[q] /\ reply'[q] = reply[q]
      /\ refreshed \subseteq refreshed' /\ wrote \subseteq wrote' /\ events \subseteq events'
  BY StepFrame
<1>2. \A q \in Req : OnTime(q) => OnTime(q)'
  BY <1>1 DEF OnTime, Cached
<1>3. /\ pc[r] \in ReadSteps => op[r].kind \notin Writes
      /\ reply[r].status = "none" /\ WriterOf(r)
  BY <1>1 DEF LocalInv, EventInv, WriterOf, Reads, Writes, Changes
<1>4. WriterOf(r)' /\ \A e \in events' : e \in events \/ EventOf(e)'
  <2> USE <1>1, <1>3 DEF TypeOK, dbVars, redisVars, ReadSteps, TokenSteps, WriterOf
  <2>1. CASE TokenGet(r) \/ TokenSetNx(r) \/ TokenReget(r) \/ TokenError(r)
    BY <2>1 DEF TokenGet, TokenSetNx, TokenReget, TokenError, WithToken, Goto
  <2>2. CASE EntryGet(r) \/ EntryGetError(r) \/ Load(r) \/ EntrySet(r) \/ EntrySetError(r)
    BY <2>2 DEF EntryGet, EntryGetError, Load, EntrySet, EntrySetError, Finish, Goto
  <2>3. CASE Find(r) \/ Unacked(r) \/ MongoError(r)
    BY <2>3 DEF Find, Unacked, MongoError, Finish, Goto, Status
  <2>4. CASE Write(r) \/ WriteUnacked(r)
    BY <2>4 DEF Write, WriteUnacked, Commit, Finish, Goto, Status
  <2>5. CASE Refresh(r)
    <3>1. OnTime(r)'
      BY <2>5 DEF Refresh, OnTime, Cached
    <3> QED BY <2>5, <3>1 DEF Refresh, Goto
  <2>6. CASE RefreshError(r)
    <3>1. OnTime(r)'
      BY <2>6 DEF RefreshError, OnTime, Fault
    <3> QED BY <2>6, <3>1 DEF RefreshError, Goto
  <2>7. CASE Publish(r)
    <3> SUFFICES ASSUME NEW n, n = [name |-> op[r].kind, id |-> op[r].key, by |-> r]
                 PROVE  WriterOf(r)' /\ \A e \in events' : e \in events \/ EventOf(e)'
      OBVIOUS
    <3>1. events' = events \cup {n} /\ pc'[r] = "done" /\ reply'[r].status = "ok"
      BY <2>7 DEF Publish, Finish, Status
    <3>2. r \in wrote' /\ OnTime(r)'
      BY <2>7, <1>2 DEF Publish
    <3>3. EventOf(n)'
      BY <3>1, <3>2 DEF EventOf
    <3> QED BY <3>1, <3>3
  <2> QED BY <2>1, <2>2, <2>3, <2>4, <2>5, <2>6, <2>7 DEF Step, Err
<1>5. \A q \in Req \ {r} : WriterOf(q)'
  BY <1>1, <1>2 DEF EventInv, WriterOf
<1>6. \A e \in events : EventOf(e)'
  <2> SUFFICES ASSUME NEW e \in events PROVE EventOf(e)'
    OBVIOUS
  <2>1. EventOf(e) /\ e.by \in Req \ {r}
    BY <1>1 DEF EventInv, EventOf, TypeOK, EventType
  <2> QED BY <1>1, <1>2, <2>1 DEF EventOf
<1> QED BY <1>4, <1>5, <1>6 DEF EventInv

(* The item written exists, or its id is new: no delete of it took effect. *)
LEMMA CommitDelete ==
    ASSUME TypeOK, LocalInv, DeleteInv, NEW r \in Req, pc[r] = "write", Writable(r), Commit(r),
           op' = op, \A q \in Req \ {r} : pc'[q] = pc[q], pc'[r] # "write"
    PROVE  DeleteInv'
<1>1. op[r].kind \in Writes /\ op[r].key \in Id
  BY DEF LocalInv, WriteSteps
<1>2. used' = used /\ wrote' = wrote \cup {r}
      /\ \A i \in Id : db'[i] = IF i = op[r].key THEN Written(r) ELSE db[i]
  BY <1>1 DEF Commit, TypeOK
<1>3. Deletes(op[r].key) = {}
  <2>1. CASE op[r].kind = "create"
    BY <1>1, <2>1 DEF DeleteInv, Unborn
  <2>2. CASE op[r].kind # "create"
    BY <1>1, <2>2 DEF DeleteInv, Writable
  <2> QED BY <2>1, <2>2
<1>4. ~Unborn(op[r].key)'
  <2>1. CASE op[r].kind = "create"
    BY <1>1, <1>2, <2>1 DEF DeleteInv, Unborn
  <2>2. CASE op[r].kind # "create"
    <3>1. ~Unborn(op[r].key)
      BY <1>1, <2>2 DEF DeleteInv, Writable
    <3> QED BY <1>2, <2>2, <3>1 DEF Unborn
  <2> QED BY <2>1, <2>2
<1>5. ASSUME NEW i \in Id
      PROVE  /\ Unborn(i)' => db'[i] = Absent /\ Deletes(i)' = {}
             /\ Deletes(i)' # {} => db'[i] = Absent
             /\ \A p, q \in Deletes(i)' : p = q
  <2>1. CASE i = op[r].key
    <3>1. Deletes(i)' = IF op[r].kind = "delete" THEN {r} ELSE {}
      BY <1>2, <1>3, <2>1 DEF Deletes
    <3> QED BY <1>2, <1>4, <2>1, <3>1 DEF Written
  <2>2. CASE i # op[r].key
    <3>1. Deletes(i)' = Deletes(i) /\ (Unborn(i)' => Unborn(i)) /\ db'[i] = db[i]
      BY <1>2, <2>2 DEF Deletes, Unborn
    <3> QED BY <3>1 DEF DeleteInv
  <2> QED BY <2>1, <2>2
<1>6. /\ \A q \in Req : op'[q].kind = "create" => op'[q].key \in used'
      /\ \A p, q \in Req : op'[p].kind = "create" /\ op'[q].kind = "create"
                              /\ op'[p].key = op'[q].key => p = q
  BY <1>2 DEF DeleteInv
<1> QED BY <1>5, <1>6 DEF DeleteInv

(* No other step writes, or brings a create to its write.                  *)
LEMMA QuietDelete ==
    ASSUME DeleteInv, UNCHANGED <<db, used, wrote, op>>,
           \A q \in Req : pc'[q] = "write" => pc[q] = "write" \/ op[q].kind # "create"
    PROVE  DeleteInv'
<1>1. \A i \in Id : Deletes(i)' = Deletes(i) /\ (Unborn(i)' => Unborn(i))
  BY DEF Deletes, Unborn
<1> QED BY <1>1 DEF DeleteInv

(* A step of a request either commits its write or is quiet.               *)
LEMMA StepDelete ==
    ASSUME TypeOK, LocalInv, EventInv, DeleteInv, NEW r \in Req, Step(r) \/ Err(r)
    PROVE  DeleteInv'
<1>1. op' = op /\ used' = used /\ \A q \in Req \ {r} : pc'[q] = pc[q]
  BY StepFrame
<1>2. CASE UNCHANGED <<db, wrote>>
  <2>1. pc'[r] = "write" => op[r].kind # "create"
    <3> USE DEF TypeOK
    <3>1. CASE Find(r)
      BY <3>1 DEF Find, EventInv, WriterOf, Changes
    <3>2. CASE ~Find(r)
      <4>1. CASE TokenGet(r) \/ TokenSetNx(r) \/ TokenReget(r) \/ TokenError(r)
        BY <4>1 DEF TokenGet, TokenSetNx, TokenReget, TokenError, WithToken, Goto
      <4>2. CASE EntryGet(r) \/ EntryGetError(r) \/ Load(r) \/ EntrySet(r) \/ EntrySetError(r)
        BY <4>2 DEF EntryGet, EntryGetError, Load, EntrySet, EntrySetError, Finish, Goto
      <4>3. CASE Write(r) \/ WriteUnacked(r) \/ Unacked(r) \/ MongoError(r)
        BY <4>3 DEF Write, WriteUnacked, Unacked, MongoError, Finish, Goto
      <4>4. CASE Refresh(r) \/ RefreshError(r) \/ Publish(r)
        BY <4>4 DEF Refresh, RefreshError, Publish, Finish, Goto
      <4> QED BY <3>2, <4>1, <4>2, <4>3, <4>4 DEF Step, Err
    <3> QED BY <3>1, <3>2
  <2> QED BY <1>1, <1>2, <2>1, QuietDelete
<1>3. CASE Commit(r) /\ pc[r] = "write" /\ Writable(r) /\ pc'[r] # "write"
  BY <1>1, <1>3, CommitDelete
<1>4. (Write(r) \/ WriteUnacked(r)) =>
          \/ UNCHANGED <<db, wrote>>
          \/ Commit(r) /\ pc[r] = "write" /\ Writable(r) /\ pc'[r] # "write"
  BY DEF Write, WriteUnacked, Goto, TypeOK, dbVars
<1>5. ~(Write(r) \/ WriteUnacked(r)) => UNCHANGED <<db, wrote>>
  BY DEF Step, Err, dbVars, TokenGet, TokenSetNx, TokenReget, TokenError, EntryGet, EntryGetError,
         Load, EntrySet, EntrySetError, Find, Unacked, MongoError, Refresh, RefreshError, Publish
<1> QED BY <1>2, <1>3, <1>4, <1>5

(* A create that arrives has an id nobody has used.                        *)
LEMMA ArriveHist ==
    ASSUME TypeOK, LocalInv, HistInv, NEW r \in Req, NEW s \in Sends, NEW p \in Proc,
           Arrive(r, s, p)
    PROVE  HistInv'
<1>1. /\ pc[r] = "idle" /\ r \notin wrote
      /\ \A q \in Req \ {r} : pc'[q] = pc[q] /\ op'[q] = op[q]
      /\ op'[r].kind = s.kind /\ op'[r].key = s.key
      /\ pc'[r] = FirstCall(s.kind, p)
      /\ UNCHANGED <<db, wrote, refreshed, reply, events, faults, provider>>
  BY DEF Arrive, TypeOK, LocalInv
<1>2. s.kind \in Reads \cup Writes /\ (s.kind \in Writes => s.key \in Id)
  BY DEF Reads, Writes, Changes
<1>3. /\ pc'[r] \in {"tokenGet", "load", "find", "write"}
      /\ pc'[r] = "find" => s.kind \in Changes
      /\ pc'[r] = "write" <=> s.kind = "create"
  BY <1>1, <1>2 DEF FirstCall, Reads, Writes, Changes
<1>4. EventInv'
  <2>1. \A q \in Req \ {r} : OnTime(q)' = OnTime(q)
    BY <1>1 DEF OnTime, Cached
  <2>2. \A q \in Req \ {r} : WriterOf(q)'
    BY <1>1, <2>1 DEF HistInv, EventInv, WriterOf
  <2>3. WriterOf(r)'
    BY <1>1, <1>3 DEF HistInv, EventInv, WriterOf
  <2>4. ASSUME NEW e \in events PROVE EventOf(e)'
    <3>1. EventOf(e) /\ e.by \in Req \ {r}
      BY <1>1 DEF HistInv, EventInv, EventOf, TypeOK, EventType
    <3> QED BY <1>1, <2>1, <3>1 DEF EventOf
  <2> QED BY <1>1, <2>2, <2>3, <2>4 DEF EventInv
<1>5. DeleteInv'
  <2>1. \A i \in Id : Deletes(i)' = Deletes(i)
    BY <1>1 DEF Deletes, TypeOK
  <2>2. CASE s.kind = "create"
    <3>1. s.key \notin used /\ used' = used \cup {s.key} /\ s.key \in Id
      BY <1>2, <2>2 DEF Arrive, Writes
    <3>2. \A i \in Id : Unborn(i)' => Unborn(i)
      BY <1>1, <3>1 DEF Unborn
    <3>3. \A q \in Req \ {r} : op[q].kind = "create" => op[q].key # s.key
      BY <3>1 DEF HistInv, DeleteInv
    <3>4. /\ \A q \in Req : op'[q].kind = "create" => op'[q].key \in used'
          /\ \A q, t \in Req : op'[q].kind = "create" /\ op'[t].kind = "create"
                                  /\ op'[q].key = op'[t].key => q = t
      BY <1>1, <3>1, <3>3 DEF HistInv, DeleteInv
    <3> QED BY <1>1, <2>1, <3>2, <3>4 DEF HistInv, DeleteInv
  <2>3. CASE s.kind # "create"
    <3>1. used' = used
      BY <2>3 DEF Arrive
    <3>2. \A i \in Id : Unborn(i)' => Unborn(i)
      BY <1>1, <2>3, <3>1 DEF Unborn
    <3>4. /\ \A q \in Req : op'[q].kind = "create" => op'[q].key \in used'
          /\ \A q, t \in Req : op'[q].kind = "create" /\ op'[t].kind = "create"
                                  /\ op'[q].key = op'[t].key => q = t
      BY <1>1, <2>3, <3>1 DEF HistInv, DeleteInv
    <3> QED BY <1>1, <2>1, <3>2, <3>4 DEF HistInv, DeleteInv
  <2> QED BY <2>2, <2>3
<1> QED BY <1>4, <1>5 DEF HistInv

(* The environment: a crash takes requests that have published nothing.    *)
LEMMA EnvironmentHist ==
    ASSUME TypeOK, LocalInv, HistInv, Environment
    PROVE  HistInv'
<1> USE DEF dbVars, redisVars, reqVars
<1>1. CASE (\E e \in entries : Expire(e)) \/ LoseToken
  <2>1. UNCHANGED <<db, used, wrote, op, pc, reply, provider, events, refreshed>>
        /\ (faults > 0 => faults' > 0)
    BY <1>1 DEF Expire, LoseToken, Fault, TypeOK
  <2>2. \A r \in Req : OnTime(r) => OnTime(r)'
    BY <2>1 DEF OnTime, Cached
  <2>3. EventInv'
    BY <2>1, <2>2 DEF HistInv, EventInv, WriterOf, EventOf, TypeOK, EventType
  <2> QED BY <2>1, <2>3, QuietDelete DEF HistInv
<1>2. ASSUME NEW p \in Proc, Crash(p) PROVE HistInv'
  <2>1. UNCHANGED <<db, used, wrote, op, events, refreshed>> /\ faults' > 0
    BY <1>2 DEF Crash, Fault, TypeOK
  <2>2. \A r \in Req : \/ pc'[r] = pc[r] /\ reply'[r] = reply[r]
                       \/ InFlight(r) /\ pc'[r] = "done" /\ reply'[r].status = "LOST"
    BY <1>2 DEF Crash, Status
  <2>3. \A r \in Req : OnTime(r)'
    BY <2>1 DEF OnTime
  <2>4. \A r \in Req : WriterOf(r)'
    BY <2>1, <2>2, <2>3 DEF HistInv, EventInv, WriterOf
  <2>5. \A e \in events : EventOf(e)'
    BY <2>1, <2>2, <2>3 DEF HistInv, EventInv, EventOf, InFlight, TypeOK, EventType
  <2>6. DeleteInv'
    BY <2>1, <2>2, QuietDelete DEF HistInv
  <2> QED BY <2>1, <2>4, <2>5, <2>6 DEF HistInv, EventInv
<1> QED BY <1>1, <1>2 DEF Environment

(* Every action keeps both.                                                *)
LEMMA HistNext == IInv /\ HistInv /\ [Next]_vars => HistInv'
<1> SUFFICES ASSUME IInv, HistInv, [Next]_vars PROVE HistInv'
  OBVIOUS
<1> USE DEF IInv
<1>1. ASSUME NEW r \in Req, NEW s \in Sends, NEW p \in Proc, Arrive(r, s, p)
      PROVE  HistInv'
  BY <1>1, ArriveHist
<1>2. ASSUME NEW r \in Req, Step(r) \/ Err(r) PROVE HistInv'
  BY <1>2, StepEvent, StepDelete DEF HistInv
<1>3. CASE Environment
  BY <1>3, EnvironmentHist
<1>4. CASE UNCHANGED vars
  <2> USE <1>4 DEF vars, dbVars, redisVars, reqVars
  <2>1. EventInv'
    BY DEF HistInv, EventInv, WriterOf, EventOf, OnTime, Cached
  <2> QED BY <2>1, QuietDelete DEF HistInv
<1> QED BY <1>1, <1>2, <1>3, <1>4 DEF Next

(* They hold throughout.                                                   *)
LEMMA History == Spec => []HistInv
BY Invariance, HistInit, HistNext, PTL DEF Spec

(* An event has its write and comes after the refresh, and success has its *)
(* event, whatever errors, crashes and other requests come between.        *)
THEOREM EventsAreMatched == Spec => []EventsMatchWrites
<1>1. HistInv => EventsMatchWrites
  BY DEF HistInv, EventInv, WriterOf, EventOf, OnTime, EventsMatchWrites
<1> QED BY <1>1, History, PTL

(* An item is deleted once and stays away, for any number of deletes,      *)
(* updates and creates in flight.                                          *)
THEOREM DeletesHappenOnce == Spec => []DeletedOnce
<1>1. ASSUME NEW S, \A a, b \in S : a = b PROVE Cardinality(S) <= 1
  <2>1. CASE S = {}
    BY <2>1, FS_EmptySet
  <2>2. CASE S # {}
    <3>1. PICK a \in S : S = {a}
      BY <1>1, <2>2
    <3>2. Cardinality({a}) = 1
      BY FS_Singleton, Zenon
    <3>3. Cardinality(S) = 1
      BY <3>1, <3>2, Zenon
    <3> QED BY <3>3
  <2> QED BY <2>1, <2>2
<1>2. TypeOK /\ HistInv => DeletedOnce
  <2> SUFFICES ASSUME TypeOK, HistInv, NEW i \in Id
               PROVE  /\ Cardinality(Deleters(i)) <= 1
                      /\ Cardinality({e \in events : e.name = "delete" /\ e.id = i}) <= 1
                      /\ Deleters(i) # {} => db[i] = Absent
    BY DEF DeletedOnce
  <2>1. Deleters(i) \subseteq Deletes(i)
    BY DEF Deleters, Deletes, HistInv, EventInv, WriterOf, EventOf, Writes, Changes
  <2>2. \A e \in events : e.name = "delete" /\ e.id = i => e.by \in Deletes(i)
    BY DEF Deletes, HistInv, EventInv, EventOf
  <2>3. \A q, r \in Deletes(i) : q = r
    BY DEF HistInv, DeleteInv
  <2>4. \A e, f \in events : e.name = f.name /\ e.id = f.id /\ e.by = f.by => e = f
    BY DEF TypeOK, EventType
  <2>5. \A e, f \in {e \in events : e.name = "delete" /\ e.id = i} : e = f
    BY <2>2, <2>3, <2>4
  <2>6. \A q, r \in Deleters(i) : q = r
    BY <2>1, <2>3
  <2>7. Deleters(i) # {} => db[i] = Absent
    BY <2>1 DEF HistInv, DeleteInv
  <2> QED BY <1>1, <2>5, <2>6, <2>7
<1> QED BY <1>2, TypeCorrect, History, PTL
===============================================================================
