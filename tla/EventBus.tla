------------------------------- MODULE EventBus -------------------------------
(***************************************************************************)
(* LocalEventBus: domain events inside one process.  A handler is wrapped  *)
(* when it subscribes (the wrapper catches its errors, so a publisher      *)
(* never sees them), the wrapper goes to a node EventEmitter, and a map    *)
(* remembers one wrapper per event and handler so that unsubscribe can     *)
(* find it.  All wrappers of a handler behave alike, so the emitter is a   *)
(* count per event and handler, and the map the set of pairs it records.   *)
(***************************************************************************)
EXTENDS Naturals

CONSTANTS
    Event,        \* names of domain events
    Handler       \* handlers that may subscribe

VARIABLES
    handlerMap,   \* the pairs of an event and a handler with a recorded wrapper
    emitter,      \* per event and handler: its wrappers the emitter holds
    again         \* ghost: the pairs subscribed while they were recorded

busVars == <<handlerMap, emitter, again>>

BusInit ==
    /\ handlerMap = {} /\ again = {}
    /\ emitter = [e \in Event |-> [h \in Handler |-> 0]]

BusTypeOK ==
    /\ handlerMap \subseteq Event \X Handler /\ again \subseteq Event \X Handler
    /\ emitter \in [Event -> [Handler -> Nat]]

(* A second subscription of a pair puts a second wrapper on the emitter    *)
(* and overwrites the recorded one.                                        *)
SubscribeAll(pairs) ==
    /\ handlerMap' = handlerMap \cup pairs
    /\ emitter' = [e \in Event |-> [h \in Handler |->
                      IF <<e, h>> \in pairs THEN emitter[e][h] + 1 ELSE emitter[e][h]]]
    /\ again' = again \cup (pairs \cap handlerMap)

Subscribe(e, h) == SubscribeAll({<<e, h>>})

(* Mutant: off is called with the handler, of which the emitter knows      *)
(* nothing, and not with its wrapper.                                      *)
UnsubscribeUnwrapped(e, h) ==
    /\ <<e, h>> \in handlerMap
    /\ handlerMap' = handlerMap \ {<<e, h>>}
    /\ UNCHANGED <<emitter, again>>

Unsubscribe(e, h) ==
    /\ <<e, h>> \in handlerMap
    /\ handlerMap' = handlerMap \ {<<e, h>>}
    /\ emitter' = [emitter EXCEPT ![e][h] = @ - 1]
    /\ UNCHANGED again

(* The handlers a publish of e starts, before publish returns.             *)
Hearing(e) == {h \in Handler : emitter[e][h] > 0}

(***************************************************************************)
(* What a subscriber may expect: a handler hears an event exactly when it  *)
(* is subscribed, except that one which subscribed twice in a row may go   *)
(* on hearing it after it unsubscribed (the overwritten wrapper stays on   *)
(* the emitter).                                                           *)
(***************************************************************************)
SubscribersHear ==
    \A e \in Event, h \in Handler :
        /\ <<e, h>> \in handlerMap => h \in Hearing(e)
        /\ h \in Hearing(e) /\ <<e, h>> \notin handlerMap => <<e, h>> \in again
        /\ emitter[e][h] > 1 => <<e, h>> \in again
===============================================================================
