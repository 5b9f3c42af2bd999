------------------------------ MODULE RedisLock ------------------------------
(***************************************************************************)
(* RedisLockManager: a lock that is one Redis key, taken with SET NX EX    *)
(* and given back with DEL.  Nothing in the repository calls it yet, so    *)
(* the callers are the protocol its two methods suggest: acquire, work if  *)
(* granted, release.  Time is a counter; the key disappears at its expiry. *)
(***************************************************************************)
EXTENDS Naturals, FiniteSets

CONSTANTS
    Client,      \* callers, each in a process of its own
    Nobody,      \* the owner of a free key
    Ttl,         \* ttlSeconds
    MaxTime,     \* bound: the clock stops here
    MaxFaults    \* bound: Redis commands that err and crashes of a caller

ASSUME NobodyAssumption == Nobody \notin Client
ASSUME TimeAssumption == Ttl \in Nat \ {0} /\ MaxTime \in Nat /\ MaxFaults \in Nat

VARIABLES
    now,         \* the clock
    owner,       \* ghost: whose SET created the key, Nobody when it is free
    expiry,      \* when the key expires
    ready,       \* per caller: has its process run RedisLock.initialize
    pc,          \* per caller: "idle", "working", "releasing"
    since,       \* ghost: when its SET was executed
    strays,      \* ghost: the callers that ever held on for Ttl or longer, or
                 \* were let in without a key
    faults       \* how much of MaxFaults is used

vars == <<now, owner, expiry, ready, pc, since, strays, faults>>

Free == owner = Nobody

Init ==
    /\ now = 0 /\ owner = Nobody /\ expiry = 0
    /\ ready \in [Client -> BOOLEAN]
    /\ pc = [c \in Client |-> "idle"]
    /\ since = [c \in Client |-> 0]
    /\ strays = {} /\ faults = 0

Fault == faults < MaxFaults /\ faults' = faults + 1

(* initialize, at any time: creating the ioredis client never throws,      *)
(* whether Redis is reachable or not.                                      *)
Initialize(c) ==
    /\ ~ready[c]
    /\ ready' = [ready EXCEPT ![c] = TRUE]
    /\ UNCHANGED <<now, owner, expiry, pc, since, strays, faults>>

Enter(c) ==
    /\ pc' = [pc EXCEPT ![c] = "working"]
    /\ since' = [since EXCEPT ![c] = now]

(* Mutant: SET without EX.                                                 *)
SetKeyForever(c) == owner' = c /\ expiry' = MaxTime + 1

(* The key is created in c's name and lives for Ttl.                       *)
SetKey(c) == owner' = c /\ expiry' = now + Ttl

(* Bound: no key is created that the clock would not see expire.           *)
InTime == now + Ttl <= MaxTime

(* Mutant: SET without NX.                                                 *)
AcquireAnyway(c) ==
    /\ pc[c] = "idle" /\ ready[c] /\ InTime
    /\ SetKey(c)
    /\ Enter(c)
    /\ UNCHANGED <<now, ready, strays, faults>>

(* acquireLock on a free key; on a taken one it answers false and nothing  *)
(* changes.                                                                *)
Acquire(c) ==
    /\ pc[c] = "idle" /\ ready[c] /\ InTime
    /\ Free
    /\ SetKey(c)
    /\ Enter(c)
    /\ UNCHANGED <<now, ready, strays, faults>>

(* acquireLock before initialize: always granted, no key is set.           *)
AcquireNoop(c) ==
    /\ pc[c] = "idle" /\ ~ready[c]
    /\ Enter(c)
    /\ strays' = strays \cup {c}
    /\ UNCHANGED <<now, owner, expiry, ready, faults>>

(* acquireLock answers false on a Redis error; the SET may have run, and   *)
(* then the key stays although nobody was let in.                          *)
AcquireError(c) ==
    /\ pc[c] = "idle" /\ ready[c] /\ InTime
    /\ Fault
    /\ \/ UNCHANGED <<owner, expiry>>
       \/ Free /\ SetKey(c)
    /\ UNCHANGED <<now, ready, pc, since, strays>>

(* The work is over; the DEL is on its way.                                *)
Finish(c) ==
    /\ pc[c] = "working"
    /\ pc' = [pc EXCEPT ![c] = "releasing"]
    /\ UNCHANGED <<now, owner, expiry, ready, since, strays, faults>>

Leave(c) ==
    /\ pc' = [pc EXCEPT ![c] = "idle"]
    /\ since' = [since EXCEPT ![c] = 0]

(* releaseLock deletes the key, whoever set it (nothing is compared), if   *)
(* there is a client by now.                                               *)
Release(c) ==
    /\ pc[c] = "releasing"
    /\ Leave(c)
    /\ IF ready[c] THEN owner' = Nobody /\ expiry' = 0
                   ELSE UNCHANGED <<owner, expiry>>
    /\ UNCHANGED <<now, ready, strays, faults>>

(* releaseLock swallows a Redis error; the DEL may have run.               *)
ReleaseError(c) ==
    /\ pc[c] = "releasing" /\ ready[c]
    /\ Fault
    /\ Leave(c)
    /\ \/ UNCHANGED <<owner, expiry>>
       \/ owner' = Nobody /\ expiry' = 0
    /\ UNCHANGED <<now, ready, strays>>

(* A caller's process dies while it holds the lock; it reboots with or     *)
(* without a client.                                                       *)
Crash(c) ==
    /\ pc[c] # "idle"
    /\ Fault
    /\ Leave(c)
    /\ \E b \in BOOLEAN : ready' = [ready EXCEPT ![c] = b]
    /\ UNCHANGED <<now, owner, expiry, strays>>

(* Time passes.  A key that reaches its expiry is gone.                    *)
Tick ==
    /\ now < MaxTime
    /\ now' = now + 1
    /\ IF ~Free /\ expiry <= now' THEN owner' = Nobody /\ expiry' = 0
                                  ELSE UNCHANGED <<owner, expiry>>
    /\ strays' = strays \cup {c \in Client : pc[c] # "idle" /\ since[c] + Ttl <= now'}
    /\ UNCHANGED <<ready, pc, since, faults>>

Operate(c) ==
    \/ Initialize(c) \/ Acquire(c) \/ AcquireNoop(c) \/ AcquireError(c)
    \/ Finish(c) \/ Release(c) \/ ReleaseError(c) \/ Crash(c)

Next == Tick \/ \E c \in Client : Operate(c)

Spec == Init /\ [][Next]_vars

(* The clock never stops before MaxTime.                                   *)
FairSpec == Spec /\ WF_vars(Tick)

-----------------------------------------------------------------------------
(* Every variable holds what the code can put in it.                       *)
TypeOK ==
    /\ now \in 0..MaxTime /\ owner \in Client \cup {Nobody}
    /\ expiry \in 0..MaxTime /\ (Free => expiry = 0)
    /\ ready \in [Client -> BOOLEAN]
    /\ pc \in [Client -> {"idle", "working", "releasing"}]
    /\ since \in [Client -> 0..MaxTime]
    /\ strays \subseteq Client /\ faults \in 0..MaxFaults

(* Two callers are inside at once only after some caller kept the lock for *)
(* its whole TTL or was let in without a key.  The stray need not be one   *)
(* of the two: its late DEL frees a key that another caller holds.         *)
Inside(c) == pc[c] \in {"working", "releasing"}
MutualExclusion ==
    strays = {} => \A c, d \in Client : Inside(c) /\ Inside(d) => c = d

(* The key never stays for good, though its owner crashed, its DEL was     *)
(* lost or its SET answered with an error: EX frees it.                    *)
LockComesFree == ~Free ~> Free

(* The documentation's promise: an unreachable Redis lets the caller in.   *)
LockFailsOpen == [][\A c \in Client : AcquireError(c) => Inside(c)']_vars
==============================================================================
