------------------------- MODULE SyncPipelineProofs --------------------------
(***************************************************************************)
(* Proofs about SyncPipeline, for any number of resources and slots and    *)
(* any number of failures.                                                 *)
(***************************************************************************)
EXTENDS SyncPipeline, FiniteSetTheorems, TLAPS

USE ResourceAssumption, BoundAssumption

(* A publish is under way only while the dispatch awaits it, and a cron    *)
(* that is past the dispatch with exit code 0 has reported what it listed. *)
CronInv ==
    /\ \A r \in Resource : publish[r] = "pending" => cron = "publish"
    /\ cron \in {"disconnect", "exited"} /\ exitCode = 0 => reported = Cardinality(Listed)
    /\ cron \in {"connect", "list", "publish"} => reported = 0

(* Past ensureMongoConnection the connection is there; it never goes away  *)
(* but with the process.                                                   *)
MongoInv ==
    /\ flag => connected
    /\ \A s \in Slot : slot[s].step \in {"flag", "onMessage"} => connected

(* A message that was sent is in the box, and nothing has been acked.      *)
BoxInv ==
    \A r \in Resource : /\ box[r] # "acked"
                        /\ publish[r] = "sent" => box[r] # "none"

IInv == TypeOK /\ CronInv /\ MongoInv /\ BoxInv

(* At the start nothing is published, delivered or connected.              *)
LEMMA InitInv == Init => IInv
<1> SUFFICES ASSUME Init PROVE IInv
  OBVIOUS
<1>1. \A s \in Slot : slot[s].msg = NoResource /\ slot[s].step = "idle"
  BY DEF Init, IdleSlot
<1>2. slot \in [Slot -> [msg : Resource \cup {NoResource},
                         step : {"idle", "connecting", "flag", "onMessage"}]]
  BY DEF Init, IdleSlot
<1>3. TypeOK
  <2>1. /\ publish \in [Resource -> {"no", "pending", "sent", "failed"}]
        /\ box \in [Resource -> {"none", "queued", "leased", "acked"}]
        /\ reported \in Nat /\ faults \in 0..MaxFaults /\ exitCode \in 0..1
    BY DEF Init
  <2> QED BY <1>1, <1>2, <2>1 DEF Init, TypeOK
<1>4. CronInv /\ MongoInv /\ BoxInv
  BY <1>1 DEF Init, CronInv, MongoInv, BoxInv
<1> QED BY <1>3, <1>4 DEF IInv

(* The number of listed resources is a number, 0 when none is listed.      *)
LEMMA ListedCount ==
    /\ Cardinality(Listed) \in Nat
    /\ (\A r \in Resource : publish[r] = "no") => Cardinality(Listed) = 0
<1>1. IsFiniteSet(Listed)
  BY FS_Subset DEF Listed
<1>2. (\A r \in Resource : publish[r] = "no") => Listed = {}
  BY DEF Listed
<1> QED BY <1>1, <1>2, FS_CardinalityType, FS_EmptySet

(* Every step of the cron process.                                         *)
LEMMA CronStepInv ==
    ASSUME IInv, CronStep \/ CronErr
    PROVE  IInv'
<1> USE DEF IInv
<1>1. CASE CronConnect
  BY <1>1 DEF CronConnect, consumerVars, TypeOK, CronInv, MongoInv, BoxInv
<1>2. CASE CronList
  <2>1. PICK R \in SUBSET Resource :
           /\ publish' = [r \in Resource |-> IF r \in R THEN "pending" ELSE "no"]
           /\ cron' = IF R = {} THEN "disconnect" ELSE "publish"
    BY <1>2 DEF CronList
  <2>2. CronInv'
    <3>1. R = {} => Cardinality(Listed') = 0
      <4>1. R = {} => Listed' = {}
        BY <2>1 DEF Listed
      <4> QED BY <4>1, FS_EmptySet
    <3> QED BY <1>2, <2>1, <3>1 DEF CronList, CronInv, TypeOK
  <2> QED BY <1>2, <2>1, <2>2 DEF CronList, consumerVars, TypeOK, CronInv, MongoInv, BoxInv
<1>3. CASE CronFail
  BY <1>3 DEF CronFail, Fault, consumerVars, TypeOK, CronInv, MongoInv, BoxInv
<1>4. ASSUME NEW r \in Resource, PublishSent(r) \/ PublishError(r) PROVE IInv'
  <2>1. /\ publish[r] = "pending" /\ cron = "publish"
        /\ UNCHANGED <<cron, cronMongo, exitCode, reported, consumerVars>>
    BY <1>4 DEF PublishSent, PublishError, CronInv
  <2>2. TypeOK'
    BY <1>4, <2>1 DEF PublishSent, PublishError, Fault, consumerVars, TypeOK
  <2>3. CronInv' /\ MongoInv'
    BY <1>4, <2>1 DEF PublishSent, PublishError, consumerVars, TypeOK, CronInv, MongoInv
  <2>4. BoxInv'
    BY <1>4, <2>1 DEF PublishSent, PublishError, TypeOK, BoxInv
  <2> QED BY <2>2, <2>3, <2>4
<1>5. CASE CronDispatched
  BY <1>5, ListedCount DEF CronDispatched, consumerVars, TypeOK, CronInv, MongoInv, BoxInv, Listed
<1>6. CASE CronDisconnect
  BY <1>6 DEF CronDisconnect, consumerVars, TypeOK, CronInv, MongoInv, BoxInv, Listed
<1>7. CASE CronDisconnectError
  BY <1>7 DEF CronDisconnectError, Fault, consumerVars, TypeOK, CronInv, MongoInv, BoxInv
<1> QED BY <1>1, <1>2, <1>3, <1>4, <1>5, <1>6, <1>7 DEF CronStep, CronErr

(* Every step of the consumer process and of the subscription.             *)
LEMMA ConsumerInv ==
    ASSUME IInv,
           \/ \E s \in Slot : Handle(s) \/ ConnectError(s)
           \/ \E r \in Resource : Subscription(r) \/ LeaseExpires(r)
           \/ ConsumerCrash
    PROVE  IInv'
<1> USE DEF IInv
<1>1. UNCHANGED cronVars /\ UNCHANGED Listed
  BY DEF Handle, Connect, SetFlag, OnMessage, ConnectError, Subscription, Deliver,
         LeaseExpires, ConsumerCrash, Listed, cronVars
<1>2. CronInv'
  BY <1>1 DEF CronInv, cronVars
<1>3. ASSUME NEW s \in Slot, Connect(s) \/ SetFlag(s) PROVE TypeOK' /\ MongoInv' /\ BoxInv'
  <2>1. PICK step \in {"flag", "onMessage"} :
           slot' = [slot EXCEPT ![s].step = step]
    BY <1>3 DEF Connect, SetFlag, Goto
  <2>2. slot[s].step \in {"connecting", "flag"} /\ connected'
    BY <1>3 DEF Connect, SetFlag, At, MongoInv
  <2>3. /\ slot' \in [Slot -> [msg : Resource \cup {NoResource},
                               step : {"idle", "connecting", "flag", "onMessage"}]]
        /\ slot'[s].msg = slot[s].msg /\ slot'[s].step = step
        /\ \A t \in Slot \ {s} : slot'[t] = slot[t]
    BY <2>1 DEF TypeOK
  <2>4. TypeOK'
    <3>1. /\ UNCHANGED <<cronVars, box, processed, faults>>
          /\ connected' \in BOOLEAN /\ flag' \in BOOLEAN
      BY <1>3 DEF Connect, SetFlag, TypeOK
    <3>2. \A t \in Slot : slot'[t].msg = NoResource <=> slot'[t].step = "idle"
      BY <2>1, <2>2, <2>3 DEF TypeOK
    <3> QED BY <2>3, <3>1, <3>2 DEF cronVars, TypeOK
  <2>5. MongoInv'
    BY <1>3, <2>2, <2>3 DEF Connect, SetFlag, MongoInv
  <2>6. BoxInv'
    BY <1>1, <1>3 DEF Connect, SetFlag, cronVars, BoxInv
  <2> QED BY <2>4, <2>5, <2>6
<1>4. ASSUME NEW s \in Slot, OnMessage(s) \/ ConnectError(s)
      PROVE  TypeOK' /\ MongoInv' /\ BoxInv'
  <2>1. slot[s].msg \in Resource
    BY <1>4 DEF OnMessage, ConnectError, At, TypeOK
  <2>2. /\ slot' = [slot EXCEPT ![s] = IdleSlot] /\ UNCHANGED <<connected, flag, processed>>
        /\ box' \in {box, [box EXCEPT ![slot[s].msg] = "queued"]}
        /\ faults' \in 0..MaxFaults
    BY <1>4 DEF OnMessage, ConnectError, Nack, Settle, Fault, TypeOK
  <2> QED BY <1>1, <2>1, <2>2 DEF IdleSlot, cronVars, TypeOK, MongoInv, BoxInv
<1>5. ASSUME NEW s \in Slot, NEW r \in Resource, Deliver(s, r)
      PROVE  TypeOK' /\ MongoInv' /\ BoxInv'
  BY <1>1, <1>5 DEF Deliver, At, cronVars, TypeOK, MongoInv, BoxInv
<1>6. ASSUME NEW r \in Resource, LeaseExpires(r) PROVE TypeOK' /\ MongoInv' /\ BoxInv'
  BY <1>1, <1>6 DEF LeaseExpires, Fault, consumerVars, cronVars, TypeOK, MongoInv, BoxInv
<1>7. CASE ConsumerCrash
  <2>1. \A s \in Slot : slot'[s].msg = NoResource /\ slot'[s].step = "idle"
    BY <1>7 DEF ConsumerCrash, IdleSlot
  <2>2. slot' \in [Slot -> [msg : Resource \cup {NoResource},
                            step : {"idle", "connecting", "flag", "onMessage"}]]
    BY <1>7 DEF ConsumerCrash, IdleSlot
  <2>3. TypeOK'
    <3>1. /\ box' \in [Resource -> {"none", "queued", "leased", "acked"}]
          /\ faults' \in 0..MaxFaults
      BY <1>7 DEF ConsumerCrash, Fault, TypeOK
    <3> QED BY <1>1, <1>7, <2>1, <2>2, <3>1 DEF ConsumerCrash, cronVars, TypeOK
  <2>4. MongoInv' /\ BoxInv'
    BY <1>1, <1>7, <2>1 DEF ConsumerCrash, cronVars, TypeOK, MongoInv, BoxInv
  <2> QED BY <1>2, <2>3, <2>4
<1> QED BY <1>2, <1>3, <1>4, <1>5, <1>6, <1>7 DEF Handle, Subscription

(* The invariant is inductive.                                             *)
THEOREM Invariance == Spec => []IInv
<1>1. ASSUME IInv, UNCHANGED vars PROVE IInv'
  BY <1>1 DEF vars, cronVars, consumerVars, IInv, TypeOK, CronInv, MongoInv, BoxInv, Listed
<1>2. ASSUME IInv, [Next]_vars PROVE IInv'
  BY <1>1, <1>2, CronStepInv, ConsumerInv DEF Next
<1> QED BY <1>2, InitInv, PTL DEF Spec

(* Every variable keeps its type.                                          *)
THEOREM TypeCorrect == Spec => []TypeOK
BY Invariance, PTL DEF IInv

(* The cron process never exits with a publish under way (Promise.all of   *)
(* the dispatch), however many publishes fail.                             *)
THEOREM CronSettles == Spec => []CronExitsSettled
<1>1. IInv => CronExitsSettled
  BY DEF IInv, CronInv, CronExitsSettled
<1> QED BY <1>1, Invariance, PTL

(* No handler gets past ensureMongoConnection before Mongo is connected.   *)
THEOREM MongoFirst == Spec => []NoWorkWithoutMongo
<1>1. IInv => NoWorkWithoutMongo
  BY DEF IInv, MongoInv, NoWorkWithoutMongo, At
<1> QED BY <1>1, Invariance, PTL

(* A published message is never lost by the subscription or its handlers.  *)
THEOREM MessagesStay == Spec => []NoMessageLost
<1>1. IInv => NoMessageLost
  BY DEF IInv, BoxInv, NoMessageLost
<1> QED BY <1>1, Invariance, PTL
==============================================================================
