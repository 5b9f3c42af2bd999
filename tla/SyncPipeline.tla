---------------------------- MODULE SyncPipeline -----------------------------
(***************************************************************************)
(* The example synchronisation: a cron process lists the resources of an   *)
(* external API and publishes one message for each; Pub/Sub holds the      *)
(* messages; a consumer process handles up to Cardinality(Slot) of them at *)
(* a time.  The cron process and the consumer process share only the       *)
(* subscription.                                                           *)
(***************************************************************************)
EXTENDS Naturals, FiniteSets

CONSTANTS
    Resource,    \* the external API's resources
    NoResource,  \* what an idle slot handles
    Slot,        \* flow control: maxMessages deliveries may be outstanding
    MaxFaults    \* bound: calls that fail, leases that expire, consumer crashes

ASSUME ResourceAssumption == IsFiniteSet(Resource) /\ NoResource \notin Resource
ASSUME BoundAssumption == MaxFaults \in Nat

VARIABLES
    cron,        \* the cron process: its next step
    cronMongo,   \* MongoHelper.connection in the cron process is set
    exitCode,
    publish,     \* per resource: "no", "pending", "sent", "failed"
    reported,    \* what DispatchExampleSyncUseCase returned
    box,         \* the subscription, per message: "none", "queued", "leased", "acked"
    slot,        \* per slot: the message handled and the handler's next step
    connected,   \* MongoHelper.connection in the consumer process is set
    flag,        \* BaseConsumer.mongoConnected
    processed,   \* ghost: the messages the sync use case has processed
    faults

cronVars     == <<cron, cronMongo, exitCode, publish, reported>>
consumerVars == <<slot, connected, flag, processed>>
vars         == <<cronVars, consumerVars, box, faults>>

IdleSlot == [msg |-> NoResource, step |-> "idle"]
Fault    == faults < MaxFaults /\ faults' = faults + 1

Init ==
    /\ cron = "connect" /\ cronMongo = FALSE /\ exitCode = 0
    /\ publish = [r \in Resource |-> "no"] /\ reported = 0
    /\ box = [r \in Resource |-> "none"]
    /\ slot = [s \in Slot |-> IdleSlot]
    /\ connected = FALSE /\ flag = FALSE
    /\ processed = {} /\ faults = 0

(***************************************************************************)
(* The cron process: BaseCron.start around DispatchExampleSyncUseCase.     *)
(***************************************************************************)
CronConnect ==
    /\ cron = "connect"
    /\ cron' = "list"
    /\ cronMongo' = TRUE
    /\ UNCHANGED <<exitCode, publish, reported, consumerVars, box, faults>>

Listed == {r \in Resource : publish[r] # "no"}

(* The list of resources is there, possibly empty (or the external API is  *)
(* not configured): every publish is started, none is awaited before the   *)
(* others.                                                                 *)
CronList ==
    /\ cron = "list"
    /\ \E R \in SUBSET Resource :
          /\ publish' = [r \in Resource |-> IF r \in R THEN "pending" ELSE "no"]
          /\ cron' = IF R = {} THEN "disconnect" ELSE "publish"
    /\ UNCHANGED <<cronMongo, exitCode, reported, consumerVars, box, faults>>

(* Mutant: no finally block; the open connection keeps the process alive.  *)
CronFailStuck ==
    /\ cron \in {"connect", "list"}
    /\ Fault
    /\ exitCode' = 1
    /\ cron' = "failed"
    /\ UNCHANGED <<cronMongo, publish, reported, consumerVars, box>>

(* The connection or the listing throws: start catches it.                 *)
CronFail ==
    /\ cron \in {"connect", "list"}
    /\ Fault
    /\ exitCode' = 1
    /\ cron' = "disconnect"
    /\ UNCHANGED <<cronMongo, publish, reported, consumerVars, box>>

PublishSent(r) ==
    /\ publish[r] = "pending"
    /\ publish' = [publish EXCEPT ![r] = "sent"]
    /\ box' = [box EXCEPT ![r] = "queued"]
    /\ UNCHANGED <<cron, cronMongo, exitCode, reported, consumerVars, faults>>

(* GcpPubSubBroker.publish swallows the error and resolves with {}; the    *)
(* message may be in the topic all the same.                               *)
PublishError(r) ==
    /\ publish[r] = "pending"
    /\ Fault
    /\ publish' = [publish EXCEPT ![r] = "failed"]
    /\ box' \in {box, [box EXCEPT ![r] = "queued"]}
    /\ UNCHANGED <<cron, cronMongo, exitCode, reported, consumerVars>>

(* Mutant: the publishes are not awaited.                                  *)
CronDispatchedAtOnce ==
    /\ cron = "publish"
    /\ reported' = Cardinality(Listed)
    /\ cron' = "disconnect"
    /\ UNCHANGED <<cronMongo, exitCode, publish, consumerVars, box, faults>>

(* Promise.all has resolved: the use case returns resources.length.        *)
CronDispatched ==
    /\ cron = "publish"
    /\ \A r \in Resource : publish[r] # "pending"
    /\ reported' = Cardinality(Listed)
    /\ cron' = "disconnect"
    /\ UNCHANGED <<cronMongo, exitCode, publish, consumerVars, box, faults>>

(* finally: disconnect if connected, then process.exit(exitCode); when the *)
(* disconnection throws, the entrypoint's catch exits with 1.              *)
CronDisconnect ==
    /\ cron = "disconnect"
    /\ cron' = "exited"
    /\ cronMongo' = FALSE
    /\ UNCHANGED <<exitCode, publish, reported, consumerVars, box, faults>>

CronDisconnectError ==
    /\ cron = "disconnect" /\ cronMongo
    /\ Fault
    /\ cron' = "exited"
    /\ exitCode' = 1
    /\ UNCHANGED <<cronMongo, publish, reported, consumerVars, box>>

(***************************************************************************)
(* The consumer process: one handler of BaseConsumer per delivery.         *)
(***************************************************************************)
At(s, step) == slot[s].step = step
Goto(s, step) == slot' = [slot EXCEPT ![s].step = step]
Settle(s)     == slot' = [slot EXCEPT ![s] = IdleSlot]

(* Mutant: the flag is set before the connection is awaited.               *)
DeliverFlagFirst(s, r) ==
    /\ At(s, "idle") /\ box[r] = "queued"
    /\ box' = [box EXCEPT ![r] = "leased"]
    /\ slot' = [slot EXCEPT ![s] = [msg |-> r, step |->
                   IF flag THEN "onMessage" ELSE "connecting"]]
    /\ flag' = TRUE
    /\ UNCHANGED <<cronVars, connected, processed, faults>>

(* Pub/Sub delivers a message to a free slot; the handler runs up to its   *)
(* first await: ensureMongoConnection reads the flag, and MongoHelper the  *)
(* connection, and starts to connect when there is none.                   *)
Deliver(s, r) ==
    /\ At(s, "idle") /\ box[r] = "queued"
    /\ box' = [box EXCEPT ![r] = "leased"]
    /\ slot' = [slot EXCEPT ![s] = [msg |-> r, step |->
                   IF flag THEN "onMessage" ELSE IF connected THEN "flag" ELSE "connecting"]]
    /\ UNCHANGED <<cronVars, connected, flag, processed, faults>>

(* mongoose.connect resolves for one of the handlers that started it.      *)
Connect(s) ==
    /\ At(s, "connecting")
    /\ connected' = TRUE
    /\ Goto(s, "flag")
    /\ UNCHANGED <<cronVars, box, flag, processed, faults>>

SetFlag(s) ==
    /\ At(s, "flag")
    /\ flag' = TRUE
    /\ Goto(s, "onMessage")
    /\ UNCHANGED <<cronVars, box, connected, processed, faults>>

(* message.nack: the subscription queues the message again, unless it has  *)
(* been delivered to another slot meanwhile.                               *)
Nack(s) ==
    LET r == slot[s].msg
    IN  /\ Settle(s)
        /\ IF \E t \in Slot \ {s} : slot[t].msg = r THEN UNCHANGED box
                                                   ELSE box' = [box EXCEPT ![r] = "queued"]

(* mongoose.connect rejects: the handler's catch nacks.                    *)
ConnectError(s) ==
    /\ At(s, "connecting")
    /\ Fault
    /\ Nack(s)
    /\ UNCHANGED <<cronVars, connected, flag, processed>>

(* Mutant: the catch logs and does not nack.                               *)
OnMessageUnsettled(s) ==
    /\ At(s, "onMessage")
    /\ Goto(s, "dropped")
    /\ UNCHANGED <<cronVars, box, connected, flag, processed, faults>>

(* Mutant: the message is acked whether onMessage threw or not.            *)
OnMessageAcked(s) ==
    /\ At(s, "onMessage")
    /\ box' = [box EXCEPT ![slot[s].msg] = "acked"]
    /\ Settle(s)
    /\ UNCHANGED <<cronVars, connected, flag, processed, faults>>

(* makeConsumer hands BaseConsumer itself, not the subclass it was called  *)
(* on, to createConsumer: the onMessage that runs is BaseConsumer's, which *)
(* throws, and the catch nacks.                                            *)
OnMessage(s) ==
    /\ At(s, "onMessage")
    /\ Nack(s)
    /\ UNCHANGED <<cronVars, connected, flag, processed, faults>>

(***************************************************************************)
(* The environment: a lease runs out and the message is queued again while *)
(* its handler still runs; the consumer process dies and restarts.         *)
(***************************************************************************)
LeaseExpires(r) ==
    /\ box[r] = "leased"
    /\ Fault
    /\ box' = [box EXCEPT ![r] = "queued"]
    /\ UNCHANGED <<cronVars, consumerVars>>

ConsumerCrash ==
    /\ Fault
    /\ slot' = [s \in Slot |-> IdleSlot]
    /\ connected' = FALSE /\ flag' = FALSE
    /\ box' = [r \in Resource |-> IF box[r] = "leased" THEN "queued" ELSE box[r]]
    /\ UNCHANGED <<cronVars, processed>>

CronStep ==
    \/ CronConnect \/ CronList \/ CronDispatched \/ CronDisconnect
    \/ \E r \in Resource : PublishSent(r)
CronErr ==
    \/ CronFail \/ CronDisconnectError
    \/ \E r \in Resource : PublishError(r)
Handle(s) == Connect(s) \/ SetFlag(s) \/ OnMessage(s)
Subscription(r) == \E s \in Slot : Deliver(s, r)

Next ==
    \/ CronStep \/ CronErr
    \/ \E s \in Slot : Handle(s) \/ ConnectError(s)
    \/ \E r \in Resource : Subscription(r) \/ LeaseExpires(r)
    \/ ConsumerCrash

Spec == Init /\ [][Next]_vars

(* Calls are answered in the end, node runs the continuations of settled   *)
(* promises, and Pub/Sub delivers a message that keeps being deliverable.  *)
FairSpec ==
    /\ Spec
    /\ WF_vars(CronStep)
    /\ \A s \in Slot : WF_vars(Handle(s))
    /\ \A r \in Resource : SF_vars(Subscription(r))

-----------------------------------------------------------------------------
(* Every variable holds what the code can put in it.                       *)
TypeOK ==
    /\ cron \in {"connect", "list", "publish", "disconnect", "exited"}
    /\ cronMongo \in BOOLEAN /\ exitCode \in 0..1
    /\ publish \in [Resource -> {"no", "pending", "sent", "failed"}]
    /\ reported \in Nat
    /\ box \in [Resource -> {"none", "queued", "leased", "acked"}]
    /\ slot \in [Slot -> [msg : Resource \cup {NoResource},
                          step : {"idle", "connecting", "flag", "onMessage"}]]
    /\ \A s \in Slot : slot[s].msg = NoResource <=> slot[s].step = "idle"
    /\ connected \in BOOLEAN /\ flag \in BOOLEAN
    /\ processed \subseteq Resource /\ faults \in 0..MaxFaults

(* The cron process never exits with a publish under way, and what it      *)
(* reports is every publish it started, failed ones included.              *)
CronExitsSettled ==
    cron = "exited" => /\ \A r \in Resource : publish[r] # "pending"
                       /\ exitCode = 0 => reported = Cardinality(Listed)

(* The cron process always exits.                                          *)
CronExits == <>(cron = "exited")

(* A handler works on a message only once Mongo is connected, however many *)
(* deliveries race through ensureMongoConnection.                          *)
NoWorkWithoutMongo == \A s \in Slot : At(s, "onMessage") => connected

(* A message that was published stays in the subscription until the use    *)
(* case has processed it, whatever handlers throw and processes crash.     *)
NoMessageLost ==
    \A r \in Resource :
        publish[r] = "sent" => /\ box[r] # "none"
                               /\ box[r] = "acked" => r \in processed

(* Every delivery is acked or nacked in the end: no handler keeps a slot   *)
(* of the flow control for good.                                           *)
EveryDeliverySettled == \A s \in Slot : ~At(s, "idle") ~> At(s, "idle")

(* The documentation's flow, last step: the consumer consumes what the     *)
(* dispatch published.                                                     *)
EveryMessageProcessed == \A r \in Resource : publish[r] = "sent" ~> r \in processed
==============================================================================
