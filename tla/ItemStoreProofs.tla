--------------------------- MODULE ItemStoreProofs ---------------------------
(***************************************************************************)
(* ItemsCache implements ItemStore: every step of the use cases, the cache *)
(* and the processes is a step of the promise to the clients, or none.     *)
(***************************************************************************)
EXTENDS ItemsCacheProofs

USE SeededAssumption, VersionAssumption, KeyAssumption, ProcAssumption, TokenAssumption,
    SendsAssumption, BoundAssumption

(* What a request's record says of it: no answer before its end, an answer *)
(* then; a value in hand was stored, and is held only while it is filled.  *)
ServedOf(r) ==
    /\ pc[r] = "idle" <=> op[r].kind = "none"
    /\ pc[r] = "idle" => op[r] = NoOp
    /\ op[r].kind \in Reads => (op[r].kind = "list" <=> op[r].key = ListKey)
    /\ pc[r] # "done" => reply[r] = NoReply
    /\ pc[r] = "done" => reply[r].status # "none"
    /\ val[r] # NoVal => /\ pc[r] \in TokenSteps \cup {"entrySet"}
                         /\ \A i \in Scope(op[r].key) : val[r][i] \in hist[i]

(* What is stored or cached has been stored once; an item nobody has       *)
(* written yet has never been anything but absent.                         *)
StoredInv ==
    /\ \A i \in Id : db[i] \in hist[i] /\ (Unborn(i) => hist[i] = {Absent})
    /\ \A e \in entries : /\ e.val \in [Scope(e.key) -> Version]
                          /\ \A i \in Scope(e.key) : e.val[i] \in hist[i]

StoreInv == (\A r \in Req : ServedOf(r)) /\ StoredInv

(* At the start nothing is asked, answered or cached.                      *)
LEMMA StoreInit == Init => StoreInv
<1> SUFFICES ASSUME Init PROVE StoreInv
  OBVIOUS
<1>1. \A r \in Req : ServedOf(r)
  BY DEF Init, ServedOf, NoOp, Reads
<1>2. StoredInv
  BY DEF Init, StoredInv, Unborn, NoOp
<1> QED BY <1>1, <1>2 DEF StoreInv

(***************************************************************************)
(* The invariant.                                                          *)
(***************************************************************************)
(* A step of r leaves the others' records alone, and no version is ever    *)
(* taken out of a history.                                                 *)
LEMMA ServedFrame ==
    ASSUME TypeOK, StoreInv, NEW r \in Req, ServedOf(r)',
           \A q \in Req \ {r} : pc'[q] = pc[q] /\ op'[q] = op[q] /\ val'[q] = val[q]
                                /\ reply'[q] = reply[q],
           \A i \in Id : hist[i] \subseteq hist'[i]
    PROVE  \A q \in Req : ServedOf(q)'
<1> SUFFICES ASSUME NEW q \in Req \ {r} PROVE ServedOf(q)'
  OBVIOUS
<1>1. ServedOf(q) /\ Scope(op[q].key) \subseteq Id
  BY ScopeFacts DEF StoreInv, TypeOK, OpType
<1> QED BY <1>1 DEF ServedOf

(* Steps that write nothing and cache nothing new.                         *)
LEMMA StoredFrame ==
    ASSUME StoredInv, UNCHANGED <<db, hist>>, entries' \subseteq entries,
           \A i \in Id : Unborn(i)' => Unborn(i)
    PROVE  StoredInv'
BY DEF StoredInv

(* The steps of a request past its first call create no item anew.         *)
LEMMA UnbornFrame ==
    ASSUME EventInv, NEW r \in Req, used' = used, op' = op,
           \A q \in Req \ {r} : pc'[q] = pc[q],
           pc'[r] = "write" => pc[r] = "find"
    PROVE  \A i \in Id : Unborn(i)' => Unborn(i)
BY DEF EventInv, WriterOf, Unborn, Changes

(* A request in flight that gets its answer,                               *)
LEMMA FinishServed ==
    ASSUME TypeOK, StoreInv, NEW r \in Req, InFlight(r), NEW a, a.status # "none", Finish(r, a)
    PROVE  ServedOf(r)'
BY DEF TypeOK, StoreInv, ServedOf, InFlight, Finish

(* one that goes on to its next call,                                      *)
LEMMA GotoServed ==
    ASSUME TypeOK, StoreInv, NEW r \in Req, InFlight(r), NEW s \in Steps \ {"idle", "done"},
           Goto(r, s), val[r] # NoVal => s \in TokenSteps,
           \A i \in Id : hist[i] \subseteq hist'[i]
    PROVE  ServedOf(r)'
<1>1. ServedOf(r) /\ Scope(op[r].key) \subseteq Id
  BY ScopeFacts DEF StoreInv, TypeOK, OpType
<1> QED BY <1>1 DEF TypeOK, ServedOf, InFlight, Goto

(* and one that gets its token.                                            *)
LEMMA WithTokenServed ==
    ASSUME TypeOK, StoreInv, NEW r \in Req, InFlight(r), NEW t, WithToken(r, t), hist' = hist
    PROVE  ServedOf(r)'
BY DEF TypeOK, StoreInv, ServedOf, InFlight, WithToken

(* The answers that are no failure.                                        *)
LEMMA ResultStatus ==
    /\ \A s : Status(s).status = s
    /\ \A v : Found(v).status = "ok"
    /\ \A k, v : Result(k, v) = IF IsNull(k, v) THEN Status("NOT_FOUND") ELSE Found(v)
BY DEF Status, Found, Result

(* A write puts a version into the database and the history together.      *)
LEMMA CommitStored ==
    ASSUME TypeOK, LocalInv, DeleteInv, StoreInv, NEW r \in Req, pc[r] = "write", Writable(r),
           Commit(r), op' = op, entries' = entries,
           \A q \in Req \ {r} : pc'[q] = pc[q], pc'[r] # "write"
    PROVE  StoredInv' /\ \A i \in Id : hist[i] \subseteq hist'[i]
<1>1. op[r].kind \in Writes /\ op[r].key \in Id
  BY DEF LocalInv, WriteSteps
<1>2. /\ \A i \in Id : db'[i] = IF i = op[r].key THEN Written(r) ELSE db[i]
      /\ \A i \in Id : hist'[i] = IF i = op[r].key THEN hist[i] \cup {Written(r)} ELSE hist[i]
      /\ used' = used
  BY <1>1 DEF Commit, TypeOK
<1>3. ~Unborn(op[r].key)' /\ \A i \in Id : Unborn(i)' => Unborn(i)
  <2>1. \A i \in Id : Unborn(i)' => Unborn(i)
    BY <1>2 DEF Unborn
  <2>2. CASE op[r].kind = "create"
    BY <1>1, <1>2, <2>2 DEF DeleteInv, Unborn
  <2>3. CASE op[r].kind # "create"
    BY <1>1, <2>1, <2>3 DEF DeleteInv, Writable
  <2> QED BY <2>1, <2>2, <2>3
<1>4. \A i \in Id : hist[i] \subseteq hist'[i]
  BY <1>2
<1>5. \A i \in Id : db'[i] \in hist'[i] /\ (Unborn(i)' => hist'[i] = {Absent})
  BY <1>2, <1>3 DEF StoreInv, StoredInv
<1>6. ASSUME NEW e \in entries
      PROVE  e.val \in [Scope(e.key) -> Version] /\ \A i \in Scope(e.key) : e.val[i] \in hist'[i]
  <2>1. Scope(e.key) \subseteq Id
    BY ScopeFacts DEF TypeOK, EntryType
  <2> QED BY <1>4, <2>1 DEF StoreInv, StoredInv
<1> QED BY <1>4, <1>5, <1>6 DEF StoredInv

(* A step that writes the database is a commit of a write in progress.     *)
LEMMA WriteServed ==
    ASSUME TypeOK, LocalInv, DeleteInv, StoreInv, NEW r \in Req,
           pc[r] = "write", Writable(r), Commit(r), entries' = entries,
           NEW s \in {"refresh", "unacked"}, Goto(r, s)
    PROVE  StoreInv'
<1>1. /\ pc'[r] = s /\ op' = op /\ \A q \in Req \ {r} : pc'[q] = pc[q]
      /\ UNCHANGED <<op, val, reply>>
  BY DEF Goto, TypeOK
<1>2. StoredInv' /\ \A i \in Id : hist[i] \subseteq hist'[i]
  BY <1>1, CommitStored
<1>3. val[r] = NoVal
  BY DEF StoreInv, ServedOf, TokenSteps
<1>4. ServedOf(r)'
  BY <1>2, <1>3, GotoServed DEF InFlight, Steps
<1> QED BY <1>1, <1>2, <1>4, ServedFrame DEF StoreInv

(* A fill stores the value in hand, which was stored in the database.      *)
LEMMA FillStored ==
    ASSUME TypeOK, LocalInv, EventInv, StoreInv, NEW r \in Req, pc[r] = "entrySet",
           Store(r) \/ entries' = entries, UNCHANGED dbVars,
           NEW a, Finish(r, a)
    PROVE  StoredInv'
<1>1. val[r] \in [Scope(op[r].key) -> Version] /\ \A i \in Scope(op[r].key) : val[r][i] \in hist[i]
  BY DEF LocalInv, StoreInv, ServedOf
<1>2. \A i \in Id : Unborn(i)' => Unborn(i)
  BY UnbornFrame DEF Finish, TypeOK, dbVars
<1>3. ASSUME NEW e \in entries'
      PROVE  e.val \in [Scope(e.key) -> Version] /\ \A i \in Scope(e.key) : e.val[i] \in hist[i]
  <2>1. CASE e \in entries
    BY <2>1 DEF StoreInv, StoredInv
  <2>2. CASE e \notin entries
    <3>1. e.key = op[r].key /\ e.val = val[r]
      BY <2>2 DEF Store
    <3> QED BY <1>1, <3>1
  <2> QED BY <2>1, <2>2
<1> QED BY <1>2, <1>3 DEF StoreInv, StoredInv, dbVars

(* Every step of a request keeps the invariant.                            *)
LEMMA StepStore ==
    ASSUME TypeOK, LocalInv, HistInv, StoreInv, NEW r \in Req, Step(r) \/ Err(r)
    PROVE  StoreInv'
<1>1. /\ InFlight(r) /\ op' = op /\ used' = used
      /\ \A q \in Req \ {r} : pc'[q] = pc[q] /\ reply'[q] = reply[q]
  BY StepFrame DEF InFlight
<1>2. CASE Write(r) \/ WriteUnacked(r)
  <2>1. CASE Commit(r) /\ Writable(r)
    BY <1>2, <2>1, WriteServed DEF Write, WriteUnacked, redisVars, HistInv
  <2>2. CASE ~(Commit(r) /\ Writable(r))
    <3>1. UNCHANGED dbVars /\ entries' = entries /\ Finish(r, Status("INTERNAL"))
      BY <1>2, <2>2 DEF Write, WriteUnacked, redisVars
    <3>2. ServedOf(r)' /\ \A q \in Req \ {r} : val'[q] = val[q]
      BY <1>1, <3>1, FinishServed, ResultStatus DEF Finish, TypeOK
    <3>3. StoredInv'
      BY <1>1, <3>1, UnbornFrame, StoredFrame DEF dbVars, HistInv, StoreInv, Finish, TypeOK
    <3> QED BY <1>1, <3>1, <3>2, <3>3, ServedFrame DEF StoreInv, dbVars
  <2> QED BY <2>1, <2>2
<1>3. ~(Write(r) \/ WriteUnacked(r)) => UNCHANGED <<db, hist>> /\ \A q \in Req \ {r} : val'[q] = val[q]
  <2> USE DEF dbVars, TypeOK
  <2>1. CASE TokenGet(r) \/ TokenSetNx(r) \/ TokenReget(r) \/ TokenError(r)
    BY <2>1 DEF TokenGet, TokenSetNx, TokenReget, TokenError, WithToken, Goto
  <2>2. CASE EntryGet(r) \/ EntryGetError(r) \/ Load(r) \/ EntrySet(r) \/ EntrySetError(r)
    BY <2>2 DEF EntryGet, EntryGetError, Load, EntrySet, EntrySetError, Finish, Goto
  <2>3. CASE Find(r) \/ Unacked(r) \/ MongoError(r)
    BY <2>3 DEF Find, Unacked, MongoError, Finish, Goto
  <2>4. CASE Refresh(r) \/ RefreshError(r) \/ Publish(r)
    BY <2>4 DEF Refresh, RefreshError, Publish, Finish, Goto
  <2> QED BY <2>1, <2>2, <2>3, <2>4 DEF Step, Err
<1>4. CASE EntrySet(r) \/ EntrySetError(r)
  <2>1. PICK a \in {Result(op[r].key, val[r])} : Finish(r, a)
    BY <1>4 DEF EntrySet, EntrySetError
  <2>2. a.status # "none"
    BY ResultStatus
  <2>3. StoredInv'
    BY <1>4, <2>1, FillStored DEF EntrySet, EntrySetError, HistInv
  <2> QED BY <1>1, <1>3, <1>4, <2>1, <2>2, <2>3, FinishServed, ServedFrame
          DEF EntrySet, EntrySetError, Write, WriteUnacked, StoreInv
<1>5. ~(Write(r) \/ WriteUnacked(r) \/ EntrySet(r) \/ EntrySetError(r)) =>
          entries' = entries /\ (pc'[r] = "write" => pc[r] = "find") /\ ServedOf(r)'
  <2> USE <1>1 DEF redisVars
  <2>1. CASE TokenGet(r) \/ TokenSetNx(r) \/ TokenReget(r) \/ TokenError(r)
    <3>1. entries' = entries /\ hist' = hist /\ pc'[r] # "write"
      BY <2>1 DEF TokenGet, TokenSetNx, TokenReget, TokenError, WithToken, Goto, TypeOK, dbVars
    <3>2. CASE \E t : WithToken(r, t)
      BY <3>1, <3>2, WithTokenServed
    <3>3. CASE Goto(r, "tokenReget")
      BY <3>1, <3>3, GotoServed DEF Steps, TokenSteps
    <3>4. CASE pc' = [pc EXCEPT ![r] = "tokenNx"] /\ UNCHANGED <<op, val, reply>>
      BY <3>1, <3>4 DEF StoreInv, ServedOf, TypeOK, InFlight, TokenSteps
    <3> QED BY <2>1, <3>1, <3>2, <3>3, <3>4 DEF TokenGet, TokenSetNx, TokenReget, TokenError
  <2>2. CASE EntryGet(r) \/ EntryGetError(r)
    <3>1. entries' = entries /\ hist' = hist /\ pc[r] = "entryGet"
      BY <2>2 DEF EntryGet, EntryGetError, dbVars
    <3>2. val[r] = NoVal
      BY <3>1 DEF StoreInv, ServedOf, TokenSteps
    <3>3. CASE Goto(r, "load")
      BY <3>1, <3>2, <3>3, GotoServed DEF Steps, Goto, TypeOK
    <3>4. CASE \E v : Finish(r, Found(v))
      BY <3>1, <3>4, FinishServed, ResultStatus DEF Finish, TypeOK
    <3> QED BY <2>2, <3>3, <3>4 DEF EntryGet, EntryGetError
  <2>3. CASE Load(r)
    <3>1. entries' = entries /\ hist' = hist /\ pc[r] = "load"
      BY <2>3 DEF Load, dbVars
    <3>2. CASE ~Cached(r)
      BY <2>3, <3>1, <3>2, FinishServed, ResultStatus DEF Load, Finish, TypeOK
    <3>3. CASE Cached(r)
      <4>1. /\ pc'[r] = "tokenGet" /\ val'[r] = View(op[r].key) /\ reply' = reply
        BY <2>3, <3>3 DEF Load, TypeOK
      <4>2. \A i \in Scope(op[r].key) : View(op[r].key)[i] \in hist[i]
        BY ScopeFacts DEF View, StoreInv, StoredInv, TypeOK, OpType
      <4>3. /\ pc[r] # "idle" /\ pc[r] # "done" /\ ServedOf(r)
        BY DEF InFlight, StoreInv
      <4> QED BY <3>1, <4>1, <4>2, <4>3 DEF ServedOf, TokenSteps
    <3> QED BY <3>2, <3>3
  <2>4. CASE Find(r) \/ Unacked(r) \/ MongoError(r)
    <3>1. /\ entries' = entries /\ hist' = hist
          /\ pc[r] \in {"find", "unacked", "write", "load"}
      BY <2>4 DEF Find, Unacked, MongoError, dbVars
    <3>2. val[r] = NoVal
      BY <3>1 DEF StoreInv, ServedOf, TokenSteps
    <3>3. CASE Find(r) /\ Goto(r, "write")
      BY <3>1, <3>2, <3>3, GotoServed DEF Find, Steps
    <3>4. CASE \E s \in {"NOT_FOUND", "ERROR"} : Finish(r, Status(s))
      BY <3>1, <3>4, FinishServed, ResultStatus DEF Finish, TypeOK
    <3> QED BY <2>4, <3>3, <3>4 DEF Find, Unacked, MongoError
  <2>5. CASE Refresh(r) \/ RefreshError(r) \/ Publish(r)
    <3>1. /\ entries' = entries /\ hist' = hist
          /\ pc[r] \in {"refresh", "publish"}
      BY <2>5 DEF Refresh, RefreshError, Publish, dbVars
    <3>2. val[r] = NoVal
      BY <3>1 DEF StoreInv, ServedOf, TokenSteps
    <3>3. CASE Goto(r, "publish")
      BY <3>1, <3>2, <3>3, GotoServed DEF Steps, Goto, TypeOK
    <3>4. CASE Finish(r, Status("ok"))
      BY <3>1, <3>4, FinishServed, ResultStatus DEF Finish, TypeOK
    <3> QED BY <2>5, <3>3, <3>4 DEF Refresh, RefreshError, Publish
  <2> QED BY <2>1, <2>2, <2>3, <2>4, <2>5 DEF Step, Err
<1>6. CASE ~(Write(r) \/ WriteUnacked(r) \/ EntrySet(r) \/ EntrySetError(r))
  <2>1. StoredInv'
    BY <1>1, <1>3, <1>5, <1>6, UnbornFrame, StoredFrame DEF HistInv, StoreInv
  <2> QED BY <1>1, <1>3, <1>5, <1>6, <2>1, ServedFrame DEF StoreInv
<1> QED BY <1>2, <1>4, <1>6

(* What clients may send.                                                  *)
LEMMA SendFacts ==
    ASSUME NEW s \in Sends
    PROVE  /\ s.kind \in Reads \cup Writes
           /\ s.kind \in Reads => (s.kind = "list" <=> s.key = ListKey)
           /\ s.kind \in Writes => s.key \in Id
<1>1. CASE s.kind = "list" /\ s.key = ListKey
  BY <1>1 DEF Reads, Writes, Changes
<1>2. CASE s.kind \in {"show", "create", "update", "delete"} /\ s.key \in Id
  <2>1. s.key # ListKey /\ s.kind # "list"
    BY <1>2
  <2>2. s.kind \in Reads \cup Writes
    BY <1>2 DEF Reads, Writes, Changes
  <2> QED BY <1>2, <2>1, <2>2
<1> QED BY <1>1, <1>2

(* A request that arrives holds nothing; the id of a create is a new one.  *)
LEMMA ArriveStore ==
    ASSUME TypeOK, StoreInv, NEW r \in Req, NEW s \in Sends, NEW p \in Proc, Arrive(r, s, p)
    PROVE  StoreInv'
<1>1. /\ s.kind \in Reads \cup Writes
      /\ s.kind \in Reads => (s.kind = "list" <=> s.key = ListKey)
      /\ s.kind \in Writes => s.key \in Id
  BY SendFacts
<1>2. /\ pc[r] = "idle" /\ pc'[r] = FirstCall(s.kind, p)
      /\ op'[r].kind = s.kind /\ op'[r].key = s.key
      /\ \A q \in Req \ {r} : pc'[q] = pc[q] /\ op'[q] = op[q]
      /\ UNCHANGED <<db, hist, entries, val, reply>>
  BY DEF Arrive, TypeOK, redisVars
<1>3. /\ FirstCall(s.kind, p) \in {"tokenGet", "load", "find", "write"}
      /\ FirstCall(s.kind, p) = "write" => s.kind = "create"
  BY <1>1 DEF FirstCall, Reads, Writes, Changes
<1>4. ServedOf(r)'
  <2>1. val[r] = NoVal /\ reply[r] = NoReply
    BY <1>2 DEF StoreInv, ServedOf, TokenSteps
  <2>2. s.kind # "none"
    BY <1>1 DEF Reads, Writes, Changes
  <2> QED BY <1>1, <1>2, <1>3, <2>1, <2>2 DEF ServedOf
<1>5. \A i \in Id : Unborn(i)' => Unborn(i)
  <2>1. CASE s.kind = "create"
    <3>1. s.key \notin used /\ used' = used \cup {s.key}
      BY <2>1 DEF Arrive
    <3> QED BY <1>2, <2>1, <3>1 DEF Unborn
  <2>2. CASE s.kind # "create"
    <3>1. used' = used
      BY <2>2 DEF Arrive
    <3> QED BY <1>2, <2>2, <3>1 DEF Unborn
  <2> QED BY <2>1, <2>2
<1> QED BY <1>2, <1>4, <1>5, ServedFrame, StoredFrame DEF StoreInv

(* Expiries, a lost token and crashes store nothing.                       *)
LEMMA EnvironmentStore ==
    ASSUME TypeOK, StoreInv, Environment
    PROVE  StoreInv'
<1> USE DEF dbVars, redisVars, reqVars
<1>1. CASE (\E e \in entries : Expire(e)) \/ LoseToken
  <2>1. UNCHANGED <<dbVars, reqVars>> /\ entries' \subseteq entries
    BY <1>1 DEF Expire, LoseToken
  <2>2. \A r \in Req : ServedOf(r)'
    BY <2>1 DEF StoreInv, ServedOf
  <2>3. \A i \in Id : Unborn(i)' => Unborn(i)
    BY <2>1 DEF Unborn
  <2> QED BY <2>1, <2>2, <2>3, StoredFrame DEF StoreInv
<1>2. ASSUME NEW p \in Proc, Crash(p) PROVE StoreInv'
  <2>1. UNCHANGED <<dbVars, entries, op>>
    BY <1>2 DEF Crash
  <2>2. ASSUME NEW r \in Req
        PROVE  \/ pc'[r] = pc[r] /\ reply'[r] = reply[r] /\ val'[r] = val[r]
               \/ InFlight(r) /\ pc'[r] = "done" /\ reply'[r] = Status("LOST") /\ val'[r] = NoVal
    BY <1>2 DEF Crash
  <2>3. ASSUME NEW r \in Req PROVE ServedOf(r)'
    BY <2>1, <2>2, ResultStatus DEF StoreInv, ServedOf, InFlight
  <2>4. \A i \in Id : Unborn(i)' => Unborn(i)
    BY <2>1, <2>2 DEF Unborn
  <2> QED BY <2>1, <2>3, <2>4, StoredFrame DEF StoreInv
<1> QED BY <1>1, <1>2 DEF Environment

(* Every action keeps the invariant.                                       *)
LEMMA StoreNext == IInv /\ HistInv /\ StoreInv /\ [Next]_vars => StoreInv'
<1> SUFFICES ASSUME IInv, HistInv, StoreInv, [Next]_vars PROVE StoreInv'
  OBVIOUS
<1> USE DEF IInv
<1>1. ASSUME NEW r \in Req, NEW s \in Sends, NEW p \in Proc, Arrive(r, s, p)
      PROVE  StoreInv'
  BY <1>1, ArriveStore
<1>2. ASSUME NEW r \in Req, Step(r) \/ Err(r) PROVE StoreInv'
  BY <1>2, StepStore
<1>3. CASE Environment
  BY <1>3, EnvironmentStore
<1>4. CASE UNCHANGED vars
  <2> USE <1>4 DEF vars, dbVars, redisVars, reqVars
  <2>1. \A r \in Req : ServedOf(r)'
    BY DEF StoreInv, ServedOf
  <2>2. StoredInv'
    BY StoredFrame DEF StoreInv, Unborn
  <2> QED BY <2>1, <2>2 DEF StoreInv
<1> QED BY <1>1, <1>2, <1>3, <1>4 DEF Next

(* It holds throughout.                                                    *)
LEMMA Stored == Spec => []StoreInv
BY Invariance, History, StoreInit, StoreNext, PTL DEF Spec

(***************************************************************************)
(* The abstract steps.                                                     *)
(***************************************************************************)
(* What the promise sees of a request.                                     *)
Job(r) == [kind |-> op[r].kind, key |-> op[r].key]
Did(r) == IF op[r].kind = "none" THEN "nothing" ELSE Done(r)

(* The constants of the promise are those of the model.                    *)
LEMMA SameNames ==
    /\ Promise!NoVal = NoVal /\ Promise!NoReply = NoReply
    /\ \A s : Promise!Status(s) = Status(s)
    /\ \A v : Promise!Found(v) = Found(v)
    /\ \A k : Promise!Scope(k) = Scope(k)
BY DEF Promise!NoVal, NoVal, Promise!NoReply, NoReply, Promise!Status, Status, Promise!Found, Found,
       Promise!Scope, Scope

(* The promise's Pending is a request in flight.                           *)
LEMMA PendingWhenInFlight ==
    ASSUME StoreInv, NEW r \in Req
    PROVE  Promise!Pending(r) <=> InFlight(r)
<1>1. ServedOf(r)
  BY DEF StoreInv
<1>2. [r_1 \in Req |-> [kind |-> op[r_1].kind, key |-> op[r_1].key]][r] = Job(r)
  BY DEF Job
<1>3. Job(r) = Promise!NoJob <=> op[r].kind = "none"
  BY <1>1 DEF Job, Promise!NoJob, ServedOf, NoOp
<1>4. reply[r] = NoReply <=> pc[r] # "done"
  BY <1>1 DEF ServedOf, NoReply
<1> QED BY <1>1, <1>2, <1>3, <1>4, SameNames DEF Promise!Pending, InFlight, ServedOf

(* A read is allowed to show what was stored.                              *)
LEMMA FoundPermitted ==
    ASSUME TypeOK, NEW r \in Req, op[r].kind \in Reads, Did(r) # "wrote",
           NEW v \in [Scope(op[r].key) -> Version],
           \A i \in Scope(op[r].key) : v[i] \in hist[i], ~IsNull(op[r].key, v)
    PROVE  Found(v) \in Promise!Permitted(r)
<1>1. op[r].key \in Key /\ Scope(op[r].key) \subseteq Id
  BY ScopeFacts DEF TypeOK, OpType
<1>2. v \in [Scope(op[r].key) -> UNION {hist[i] : i \in Id}]
  BY <1>1
<1>3. op[r].key # ListKey => v[op[r].key] # Absent /\ Scope(op[r].key) = {op[r].key}
  BY DEF IsNull, Scope
<1> QED BY <1>1, <1>2, <1>3, SameNames DEF Promise!Permitted, Promise!Reads, Reads, Did

(* It may say that its item is missing when it is, or was when noted.      *)
LEMMA MissingPermitted ==
    ASSUME NEW r \in Req, op[r].kind \in Reads, op[r].key # ListKey, Did(r) # "wrote",
           Did(r) = "absent" \/ db[op[r].key] = Absent
    PROVE  Status("NOT_FOUND") \in Promise!Permitted(r)
BY SameNames DEF Promise!Permitted, Promise!Reads, Reads, Did

(* A change that finds no item fails,                                      *)
LEMMA FailurePermitted ==
    ASSUME NEW r \in Req, op[r].kind \in Changes, Did(r) = "nothing", db[op[r].key] = Absent
    PROVE  Status("NOT_FOUND") \in Promise!Permitted(r) /\ Status("INTERNAL") \in Promise!Permitted(r)
BY SameNames DEF Promise!Permitted, Promise!Reads, Promise!Changes, Changes, Did

(* and a write that took effect succeeds.                                  *)
LEMMA SuccessPermitted ==
    ASSUME NEW r \in Req, op[r].kind \in Writes, Did(r) = "wrote"
    PROVE  Status("ok") \in Promise!Permitted(r)
BY SameNames DEF Promise!Permitted, Promise!Reads, Writes, Changes, Did

(* A request that ends has nothing established any more.                   *)
LEMMA RespondStep ==
    ASSUME TypeOK, StoreInv, NEW r \in Req, InFlight(r),
           NEW a \in Promise!Permitted(r) \cup {Status("ERROR"), Status("LOST")},
           Finish(r, a), UNCHANGED <<db, hist>>
    PROVE  Promise!Respond(r)
<1>1. /\ op' = op /\ reply' = [reply EXCEPT ![r] = a]
      /\ \A q \in Req : Did(q)' = IF q = r THEN "nothing" ELSE Did(q)
  BY DEF Finish, TypeOK, Did, Done
<1>2. [q \in Req |-> Did(q)]' = [[q \in Req |-> Did(q)] EXCEPT ![r] = "nothing"]
  BY <1>1
<1>3. Promise!Pending(r)
  BY PendingWhenInFlight
<1> QED BY <1>1, <1>2, <1>3, SameNames DEF Promise!Respond, Did

(* A step that the promise does not see.                                   *)
LEMMA StutterStep ==
    ASSUME UNCHANGED <<db, hist, op, reply>>, \A q \in Req : Did(q)' = Did(q)
    PROVE  UNCHANGED Promise!vars
<1>1. [q \in Req |-> Did(q)]' = [q \in Req |-> Did(q)]
  OBVIOUS
<1> QED BY <1>1 DEF Promise!vars, Did

(* A request in flight goes on; what it has established depends on where   *)
(* it is and what it holds.                                                *)
LEMMA GoesOn ==
    ASSUME TypeOK, NEW r \in Req, UNCHANGED <<db, hist, op, reply>>,
           \A q \in Req \ {r} : pc'[q] = pc[q] /\ val'[q] = val[q], Did(r)' = Did(r)
    PROVE  UNCHANGED Promise!vars
<1>1. \A q \in Req \ {r} : Did(q)' = Did(q)
  BY DEF Did, Done
<1> QED BY <1>1, StutterStep

(* A write that takes effect.                                              *)
LEMMA ApplyStep ==
    ASSUME TypeOK, LocalInv, DeleteInv, StoreInv, NEW r \in Req,
           pc[r] = "write", Writable(r), Commit(r), NEW s \in {"refresh", "unacked"}, Goto(r, s)
    PROVE  Promise!Apply(r)
<1>1. op[r].kind \in Writes /\ op[r].key \in Id /\ val[r] = NoVal /\ Promise!Pending(r)
  BY PendingWhenInFlight DEF LocalInv, WriteSteps, StoreInv, ServedOf, TokenSteps, InFlight
<1>2. /\ UNCHANGED <<op, reply>> /\ Did(r) = "nothing"
      /\ \A q \in Req : Did(q)' = IF q = r THEN "wrote" ELSE Did(q)
  BY <1>1 DEF Goto, TypeOK, Did, Done, Writes, Changes
<1>3. [q \in Req |-> Did(q)]' = [[q \in Req |-> Did(q)] EXCEPT ![r] = "wrote"]
  BY <1>2
<1>4. \/ op[r].kind \in Changes /\ db[op[r].key] # Absent
      \/ op[r].kind = "create" /\ hist[op[r].key] = {Absent}
  BY <1>1 DEF Writable, Writes, StoreInv, StoredInv, Unborn
<1>5. /\ db' = [db EXCEPT ![op[r].key] = IF op[r].kind = "delete" THEN Absent ELSE r]
      /\ hist' = [hist EXCEPT ![op[r].key] = @ \cup {IF op[r].kind = "delete" THEN Absent ELSE r}]
  BY DEF Commit, Written
<1> QED BY <1>1, <1>2, <1>3, <1>4, <1>5 DEF Promise!Apply, Promise!Changes, Changes, Did

(* A fill that reads the database may find that the item is missing.       *)
LEMMA LoadStep ==
    ASSUME TypeOK, LocalInv, StoreInv, NEW r \in Req, Load(r), Cached(r)
    PROVE  Promise!NoteAbsent(r) \/ UNCHANGED Promise!vars
<1>1. /\ op[r].kind \in Reads /\ op[r].key \in Key /\ (op[r].kind = "list" <=> op[r].key = ListKey)
      /\ val[r] = NoVal /\ Promise!Pending(r) /\ pc[r] = "load"
  BY PendingWhenInFlight
     DEF Load, LocalInv, ReadSteps, StoreInv, ServedOf, TokenSteps, InFlight, TypeOK, OpType
<1>2. /\ UNCHANGED <<db, hist, op, reply>>
      /\ pc'[r] = "tokenGet" /\ val'[r] = View(op[r].key) /\ View(op[r].key) # NoVal
      /\ \A q \in Req \ {r} : pc'[q] = pc[q] /\ val'[q] = val[q]
  BY <1>1, ViewFacts DEF Load, dbVars, TypeOK
<1>3. Did(r) = "nothing"
  BY <1>1 DEF Did, Done
<1>4. CASE IsNull(op[r].key, View(op[r].key))
  <2>1. op[r].kind = "show" /\ db[op[r].key] = Absent
    BY <1>1, <1>4 DEF IsNull, View, Scope, Reads, Key
  <2>2. \A q \in Req : Did(q)' = IF q = r THEN "absent" ELSE Did(q)
    BY <1>1, <1>2, <1>4 DEF Did, Done, Reads
  <2>3. [q \in Req |-> Did(q)]' = [[q \in Req |-> Did(q)] EXCEPT ![r] = "absent"]
    BY <2>2
  <2> QED BY <1>1, <1>2, <1>3, <2>1, <2>3 DEF Promise!NoteAbsent, Did
<1>5. CASE ~IsNull(op[r].key, View(op[r].key))
  <2>1. Did(r)' = "nothing"
    BY <1>2, <1>5 DEF Did, Done
  <2> QED BY <1>2, <1>3, <2>1, GoesOn
<1> QED BY <1>4, <1>5

(* The answer of a read: what it holds, or that there is none.             *)
LEMMA ResultPermitted ==
    ASSUME TypeOK, StoreInv, NEW r \in Req, op[r].kind \in Reads, Did(r) # "wrote",
           NEW v \in [Scope(op[r].key) -> Version], \A i \in Scope(op[r].key) : v[i] \in hist[i],
           IsNull(op[r].key, v) => Did(r) = "absent" \/ db[op[r].key] = Absent
    PROVE  Result(op[r].key, v) \in Promise!Permitted(r)
<1>1. CASE IsNull(op[r].key, v)
  BY <1>1, MissingPermitted DEF Result, IsNull
<1>2. CASE ~IsNull(op[r].key, v)
  BY <1>2, FoundPermitted DEF Result
<1> QED BY <1>1, <1>2

(* A request reading the cache or the database has written nothing.        *)
LEMMA ReaderDid ==
    ASSUME LocalInv, StoreInv, NEW r \in Req, pc[r] \in ReadSteps
    PROVE  /\ op[r].kind \in Reads /\ Did(r) # "wrote" /\ InFlight(r)
           /\ val[r] = NoVal => Did(r) = "nothing"
BY DEF LocalInv, StoreInv, ReadSteps, TokenSteps, Did, Done, InFlight

(* Every step of a request is a step of the promise or none.               *)
LEMMA StepImplements ==
    ASSUME TypeOK, LocalInv, DeleteInv, StoreInv, EventInv, NEW r \in Req, Step(r) \/ Err(r)
    PROVE  Promise!Respond(r) \/ Promise!Apply(r) \/ Promise!NoteAbsent(r) \/ UNCHANGED Promise!vars
<1> USE DEF dbVars, redisVars
<1>0. InFlight(r)
  BY StepFrame DEF InFlight
<1>1. CASE TokenGet(r) \/ TokenSetNx(r) \/ TokenReget(r) \/ TokenError(r)
  <2>1. pc[r] \in TokenSteps /\ UNCHANGED <<db, hist, op, val, reply>>
        /\ \A q \in Req \ {r} : pc'[q] = pc[q]
    BY <1>1 DEF TokenGet, TokenSetNx, TokenReget, TokenError, WithToken, Goto, TokenSteps, TypeOK
  <2>2. pc'[r] \in {"tokenNx", "tokenReget", "entryGet", "entrySet"}
    BY <1>1 DEF TokenGet, TokenSetNx, TokenReget, TokenError, WithToken, Goto, TypeOK
  <2>3. Did(r)' = Did(r)
    BY <2>1, <2>2 DEF Did, Done, TokenSteps
  <2> QED BY <2>1, <2>3, GoesOn
<1>2. CASE EntryGet(r) \/ EntryGetError(r)
  <2>1. /\ pc[r] = "entryGet" /\ pc[r] \in ReadSteps /\ UNCHANGED <<db, hist>>
        /\ val[r] = NoVal
    BY <1>2 DEF EntryGet, EntryGetError, ReadSteps, StoreInv, ServedOf, TokenSteps
  <2>2. ASSUME NEW e \in At(tok[r], op[r].key), ~IsNull(op[r].key, e.val), Finish(r, Found(e.val))
        PROVE  Promise!Respond(r)
    <3>1. e \in entries /\ e.key = op[r].key
      BY DEF At
    <3>2. Found(e.val) \in Promise!Permitted(r)
      BY <2>1, <2>2, <3>1, ReaderDid, FoundPermitted DEF StoreInv, StoredInv
    <3> QED BY <1>0, <2>1, <2>2, <3>2, RespondStep
  <2>3. CASE Goto(r, "load")
    <3>1. Did(r)' = Did(r)
      BY <2>1, <2>3 DEF Goto, TypeOK, Did, Done
    <3> QED BY <2>1, <2>3, <3>1, GoesOn DEF Goto, TypeOK
  <2> QED BY <1>2, <2>2, <2>3 DEF EntryGet, EntryGetError
<1>3. CASE Load(r)
  <2>1. CASE Cached(r)
    BY <1>3, <2>1, LoadStep
  <2>2. CASE ~Cached(r)
    <3>1. op[r].key \in Key /\ Scope(op[r].key) \subseteq Id
          /\ View(op[r].key) \in [Scope(op[r].key) -> Version]
      BY ScopeFacts, ViewFacts DEF TypeOK, OpType
    <3>2. /\ \A i \in Scope(op[r].key) : View(op[r].key)[i] \in hist[i]
          /\ IsNull(op[r].key, View(op[r].key)) => db[op[r].key] = Absent
      BY <3>1 DEF View, StoreInv, StoredInv, IsNull, Scope
    <3>3. Result(op[r].key, View(op[r].key)) \in Promise!Permitted(r)
      BY <1>3, <3>1, <3>2, ReaderDid, ResultPermitted DEF Load, ReadSteps
    <3> QED BY <1>0, <1>3, <2>2, <3>3, RespondStep DEF Load
  <2> QED BY <2>1, <2>2
<1>4. CASE EntrySet(r) \/ EntrySetError(r)
  <2>1. /\ pc[r] = "entrySet" /\ pc[r] \in ReadSteps /\ UNCHANGED <<db, hist>>
        /\ val[r] # NoVal /\ val[r] \in [Scope(op[r].key) -> Version]
        /\ \A i \in Scope(op[r].key) : val[r][i] \in hist[i]
    BY <1>4 DEF EntrySet, EntrySetError, ReadSteps, LocalInv, StoreInv, ServedOf
  <2>2. IsNull(op[r].key, val[r]) => Did(r) = "absent"
    BY <2>1, ReaderDid DEF Did, Done, Reads
  <2>3. Result(op[r].key, val[r]) \in Promise!Permitted(r)
    BY <2>1, <2>2, ReaderDid, ResultPermitted
  <2>4. Finish(r, Result(op[r].key, val[r]))
    BY <1>4 DEF EntrySet, EntrySetError
  <2> QED BY <1>0, <2>1, <2>3, <2>4, RespondStep
<1>5. CASE Find(r)
  <2>1. /\ pc[r] = "find" /\ UNCHANGED <<db, hist>> /\ op[r].kind \in Changes /\ val[r] = NoVal
    BY <1>5 DEF Find, EventInv, WriterOf, StoreInv, ServedOf, TokenSteps
  <2>2. Did(r) = "nothing"
    BY <2>1 DEF Did, Done
  <2>3. CASE Goto(r, "write")
    <3>1. Did(r)' = "nothing"
      BY <2>1, <2>3 DEF Goto, TypeOK, Did, Done
    <3> QED BY <2>1, <2>2, <2>3, <3>1, GoesOn DEF Goto, TypeOK
  <2>4. CASE db[op[r].key] = Absent /\ Finish(r, Status("NOT_FOUND"))
    BY <1>0, <2>1, <2>2, <2>4, FailurePermitted, RespondStep
  <2> QED BY <1>5, <2>3, <2>4 DEF Find
<1>6. CASE Write(r) \/ WriteUnacked(r)
  <2>1. CASE Writable(r)
    BY <1>6, <2>1, ApplyStep DEF Write, WriteUnacked
  <2>2. CASE ~Writable(r)
    <3>1. /\ pc[r] = "write" /\ UNCHANGED <<db, hist>> /\ Finish(r, Status("INTERNAL"))
          /\ op[r].kind \in Changes /\ db[op[r].key] = Absent /\ val[r] = NoVal
      BY <1>6, <2>2 DEF Write, WriteUnacked, Writable, LocalInv, WriteSteps, Writes,
                        StoreInv, ServedOf, TokenSteps
    <3>2. Did(r) = "nothing"
      BY <3>1 DEF Did, Done
    <3> QED BY <1>0, <3>1, <3>2, FailurePermitted, RespondStep
  <2> QED BY <2>1, <2>2
<1>7. CASE Refresh(r) \/ RefreshError(r)
  <2>1. pc[r] = "refresh" /\ Goto(r, "publish") /\ UNCHANGED <<db, hist>>
    BY <1>7 DEF Refresh, RefreshError
  <2>2. Did(r)' = Did(r)
    BY <2>1 DEF Goto, TypeOK, Did, Done
  <2> QED BY <2>1, <2>2, GoesOn DEF Goto, TypeOK
<1>8. CASE Publish(r)
  <2>1. /\ pc[r] = "publish" /\ UNCHANGED <<db, hist>> /\ op[r].kind \in Writes
        /\ val[r] = NoVal
    BY <1>8 DEF Publish, LocalInv, WriteSteps, StoreInv, ServedOf, TokenSteps
  <2>2. Did(r) = "wrote"
    BY <2>1 DEF Did, Done, Writes, Changes
  <2> QED BY <1>0, <1>8, <2>1, <2>2, SuccessPermitted, RespondStep DEF Publish
<1>9. CASE Unacked(r) \/ MongoError(r)
  BY <1>0, <1>9, RespondStep DEF Unacked, MongoError
<1> QED BY <1>1, <1>2, <1>3, <1>4, <1>5, <1>6, <1>7, <1>8, <1>9 DEF Step, Err

(* A request that arrives is submitted.                                    *)
LEMMA ArriveImplements ==
    ASSUME TypeOK, StoreInv, NEW r \in Req, NEW s \in Sends, NEW p \in Proc, Arrive(r, s, p)
    PROVE  Promise!Submit(r)
<1>1. /\ s.kind \in Reads \cup Changes \cup {"create"} /\ s.key \in Id \cup {ListKey}
      /\ s.kind = "list" <=> s.key = ListKey
      /\ s.kind # "none"
  <2>1. /\ s.kind \in Reads \cup Writes
        /\ s.kind \in Reads => (s.kind = "list" <=> s.key = ListKey)
        /\ s.kind \in Writes => s.key \in Id
    BY SendFacts
  <2>2. s.key \in Id \cup {ListKey}
    OBVIOUS
  <2>3. s.kind \in Writes => s.kind # "list" /\ s.key # ListKey
    BY <2>1 DEF Writes, Changes
  <2> QED BY <2>1, <2>2, <2>3 DEF Reads, Writes, Changes
<1>2. /\ pc[r] = "idle" /\ op[r].kind = "none" /\ op[r] = NoOp /\ val[r] = NoVal
      /\ pc'[r] = FirstCall(s.kind, p) /\ op'[r].kind = s.kind /\ op'[r].key = s.key
      /\ \A q \in Req \ {r} : pc'[q] = pc[q] /\ op'[q] = op[q]
      /\ UNCHANGED <<db, hist, val, reply>>
  BY DEF Arrive, TypeOK, StoreInv, ServedOf, TokenSteps
<1>3. FirstCall(s.kind, p) \in {"tokenGet", "load", "find", "write"}
  BY <1>1 DEF FirstCall, Reads, Changes
<1>4. /\ Job(r) = [kind |-> "none", key |-> ListKey]
      /\ \A q \in Req : Job(q)' = IF q = r THEN [kind |-> s.kind, key |-> s.key] ELSE Job(q)
  BY <1>2 DEF Job, NoOp
<1>5. [q \in Req |-> Job(q)]' = [[q \in Req |-> Job(q)] EXCEPT ![r] = [kind |-> s.kind, key |-> s.key]]
  BY <1>4
<1>6. \A q \in Req : Did(q)' = Did(q)
  BY <1>2, <1>3 DEF Did, Done
<1>7. [q \in Req |-> Did(q)]' = [q \in Req |-> Did(q)]
  BY <1>6
<1> QED BY <1>1, <1>2, <1>4, <1>5, <1>7
        DEF Promise!Submit, Promise!NoJob, Promise!Reads, Promise!Changes, Reads, Changes, Job, Did

(* A crash loses the answers of the requests its process was serving.      *)
LEMMA CrashImplements ==
    ASSUME TypeOK, StoreInv, NEW p \in Proc, Crash(p)
    PROVE  Promise!Lose
<1> DEFINE lost == {r \in Req : InFlight(r) /\ op[r].proc = p}
<1>1. /\ UNCHANGED <<db, hist, op>>
      /\ pc' = [r \in Req |-> IF r \in lost THEN "done" ELSE pc[r]]
      /\ val' = [r \in Req |-> IF r \in lost THEN NoVal ELSE val[r]]
      /\ reply' = [r \in Req |-> IF r \in lost THEN Status("LOST") ELSE reply[r]]
  BY DEF Crash, dbVars
<1>2. lost \in SUBSET {r \in Req : Promise!Pending(r)}
  BY PendingWhenInFlight
<1> HIDE DEF lost
<1>3. \A q \in Req : Did(q)' = IF q \in lost THEN "nothing" ELSE Did(q)
  BY <1>1 DEF Did, Done
<1>4. [q \in Req |-> Did(q)]' = [q \in Req |-> IF q \in lost THEN "nothing" ELSE Did(q)]
  BY <1>3
<1> QED BY <1>1, <1>2, <1>4, SameNames DEF Promise!Lose, Did

-----------------------------------------------------------------------------
(* What happens to the cache and its token is nobody's business outside.   *)
LEMMA EnvironmentImplements ==
    ASSUME TypeOK, StoreInv, Environment
    PROVE  Promise!Lose \/ UNCHANGED Promise!vars
<1>1. CASE (\E e \in entries : Expire(e)) \/ LoseToken
  <2>1. UNCHANGED <<db, hist, op, reply, pc, val>>
    BY <1>1 DEF Expire, LoseToken, dbVars, reqVars
  <2>2. \A q \in Req : Did(q)' = Did(q)
    BY <2>1 DEF Did, Done
  <2> QED BY <2>1, <2>2, StutterStep
<1>2. CASE \E p \in Proc : Crash(p)
  BY <1>2, CrashImplements
<1> QED BY <1>1, <1>2 DEF Environment

(* Initial states map to initial states.                                   *)
LEMMA InitImplements == Init => Promise!Init
<1> SUFFICES ASSUME Init PROVE Promise!Init
  OBVIOUS
<1>1. /\ db = [i \in Id |-> IF i \in Seeded THEN Original ELSE Absent]
      /\ hist = [i \in Id |-> {db[i]}]
      /\ reply = [r \in Req |-> NoReply]
  BY DEF Init
<1>2. \A r \in Req : Job(r) = [kind |-> "none", key |-> ListKey] /\ Did(r) = "nothing"
  BY DEF Init, NoOp, Job, Did
<1>3. /\ [r \in Req |-> Job(r)] = [r \in Req |-> Promise!NoJob]
      /\ [r \in Req |-> Did(r)] = [r \in Req |-> "nothing"]
  BY <1>2 DEF Promise!NoJob
<1> QED BY <1>1, <1>3, SameNames DEF Promise!Init, Job, Did

(* Every step maps to a step of the store or to a stutter.                 *)
LEMMA NextImplements ==
    IInv /\ HistInv /\ StoreInv /\ [Next]_vars => [Promise!Next]_(Promise!vars)
<1>0. SUFFICES ASSUME IInv, HistInv, StoreInv, [Next]_vars
               PROVE  Promise!Next \/ UNCHANGED Promise!vars
  BY Zenon
<1>1. TypeOK /\ LocalInv /\ EventInv /\ DeleteInv
  BY <1>0 DEF IInv, HistInv
<1>2. ASSUME NEW r \in Req, NEW s \in Sends, NEW p \in Proc, Arrive(r, s, p)
      PROVE  Promise!Next
  BY <1>0, <1>1, <1>2, ArriveImplements, Zenon DEF Promise!Next
<1>3. ASSUME NEW r \in Req, Step(r) \/ Err(r)
      PROVE  Promise!Next \/ UNCHANGED Promise!vars
  BY <1>0, <1>1, <1>3, StepImplements, Zenon DEF Promise!Next
<1>4. CASE Environment
  BY <1>0, <1>1, <1>4, EnvironmentImplements, Zenon DEF Promise!Next
<1>5. CASE UNCHANGED vars
  <2>1. UNCHANGED <<db, hist, op, reply, pc, val>>
    BY <1>5 DEF vars, dbVars, reqVars
  <2>2. \A q \in Req : Did(q)' = Did(q)
    BY <2>1 DEF Did, Done
  <2> QED BY <2>1, <2>2, StutterStep
<1> QED BY <1>0, <1>2, <1>3, <1>4, <1>5 DEF Next

(* Clients see atomic writes, values that were really stored and a         *)
(* "not found" that is never stale, for any number of processes, requests, *)
(* errors, crashes and losses of the token: the cached API implements the  *)
(* store without one.                                                      *)
THEOREM StoreIsImplemented == Spec => ImplementsItemStore
BY InitImplements, NextImplements, Invariance, History, Stored, PTL
   DEF Spec, Promise!Spec, ImplementsItemStore
=============================================================================
