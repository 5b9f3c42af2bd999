--------------------------- MODULE RedisLockProofs ---------------------------
(***************************************************************************)
(* Proofs about RedisLock, for any number of callers, any TTL and any      *)
(* number of failures.                                                     *)
(***************************************************************************)
EXTENDS RedisLock, TLAPS

USE NobodyAssumption, TimeAssumption

(* Without strays, whoever is inside owns the key, and the key outlives    *)
(* its stay.                                                               *)
HolderInv ==
    /\ ~Free => now < expiry
    /\ strays = {} => \A c \in Client : Inside(c) => /\ owner = c
                                                     /\ expiry = since[c] + Ttl

IInv == TypeOK /\ HolderInv

(* At the start the key is free and nobody is inside.                      *)
LEMMA InitInv == Init => IInv
BY DEF Init, IInv, TypeOK, HolderInv, Free, Inside

(* One step per operation of a caller.                                     *)
LEMMA OperateInv ==
    ASSUME IInv, NEW c \in Client, Operate(c)
    PROVE  IInv'
<1> USE DEF IInv, TypeOK, HolderInv, Free, Inside
<1>1. CASE Initialize(c)
  BY <1>1 DEF Initialize
<1>2. CASE Acquire(c)
  BY <1>2 DEF Acquire, Enter, SetKey, InTime
<1>3. CASE AcquireNoop(c)
  BY <1>3 DEF AcquireNoop, Enter
<1>4. CASE AcquireError(c)
  BY <1>4 DEF AcquireError, Fault, SetKey, InTime
<1>5. CASE Finish(c)
  BY <1>5 DEF Finish
<1>6. CASE Release(c) \/ ReleaseError(c)
  BY <1>6 DEF Release, ReleaseError, Fault, Leave
<1>7. CASE Crash(c)
  BY <1>7 DEF Crash, Fault, Leave
<1> QED BY <1>1, <1>2, <1>3, <1>4, <1>5, <1>6, <1>7 DEF Operate

(* A key expires no sooner than its owner becomes a stray.                 *)
LEMMA TickInv ==
    ASSUME IInv, Tick
    PROVE  IInv'
<1> USE DEF IInv, TypeOK, Tick, Free
<1>1. TypeOK'
  OBVIOUS
<1>2. (~Free)' => now' < expiry'
  BY DEF HolderInv
<1>3. ASSUME strays' = {}, NEW c \in Client, Inside(c)'
      PROVE  owner' = c /\ expiry' = since'[c] + Ttl
  <2>1. strays = {} /\ Inside(c) /\ ~(since[c] + Ttl <= now')
    BY <1>3 DEF Inside
  <2>2. owner = c /\ expiry = since[c] + Ttl
    BY <2>1 DEF HolderInv
  <2> QED BY <2>1, <2>2
<1> QED BY <1>1, <1>2, <1>3 DEF HolderInv

(* The invariant holds throughout every behaviour.                         *)
THEOREM Invariance == Spec => []IInv
<1>1. IInv /\ [Next]_vars => IInv'
  <2>1. ASSUME IInv, UNCHANGED vars PROVE IInv'
    BY <2>1 DEF vars, IInv, TypeOK, HolderInv, Free, Inside
  <2> QED BY <2>1, OperateInv, TickInv DEF Next
<1> QED BY <1>1, InitInv, PTL DEF Spec

(* Every variable always holds what the code can put in it; in particular  *)
(* a key always has an expiry the clock reaches.                           *)
THEOREM TypeCorrect == Spec => []TypeOK
<1>1. IInv => TypeOK
  BY DEF IInv
<1> QED BY <1>1, Invariance, PTL

(* The lock excludes, whatever crashes and errors there are, as long as no *)
(* caller outstays its TTL or runs without a client.                       *)
THEOREM LockExcludes == Spec => []MutualExclusion
<1>1. IInv => MutualExclusion
  BY DEF IInv, HolderInv, MutualExclusion
<1> QED BY <1>1, Invariance, PTL

-----------------------------------------------------------------------------
(* The key goes within Ttl of being set: the safety half of LockComesFree, *)
(* which fairness of the clock then turns into LockComesFree.              *)
LeaseBounded == ~Free => now < expiry /\ expiry <= now + Ttl

(* No call renews a key that is taken or hands it on: the SET is NX.       *)
LeaseFixed == [][~Free /\ ~Free' => owner' = owner /\ expiry' = expiry]_vars

(* A key is never further from its expiry than the TTL it was set with,    *)
(* whoever dies holding it and whichever answer or DEL is lost.            *)
THEOREM LeaseStaysBounded == Spec => []LeaseBounded
<1> DEFINE Ends == ~Free => expiry <= now + Ttl
<1>1. Init => Ends
  BY DEF Init, Free
<1>2. IInv /\ Ends /\ [Next]_vars => Ends'
  <2> SUFFICES ASSUME IInv, Ends, [Next]_vars, ~Free' PROVE expiry' <= now' + Ttl
    OBVIOUS
  <2> USE DEF Free
  <2>1. ASSUME NEW c \in Client, Operate(c)
        PROVE  /\ now' = now
               /\ (owner' = owner /\ expiry' = expiry) \/ expiry' = now + Ttl \/ owner' = Nobody
    BY <2>1 DEF Operate, Initialize, Acquire, AcquireNoop, AcquireError, Finish, Release,
                ReleaseError, Crash, SetKey
  <2>2. CASE Tick
    BY <2>2 DEF IInv, TypeOK, Tick
  <2>3. CASE UNCHANGED vars
    BY <2>3 DEF vars
  <2> QED BY <2>1, <2>2, <2>3 DEF Next, IInv, TypeOK
<1>3. IInv /\ Ends => LeaseBounded
  BY DEF IInv, HolderInv, LeaseBounded
<1> QED BY <1>1, <1>2, <1>3, Invariance, PTL DEF Spec

(* A taken key keeps its owner and its expiry until it is gone.            *)
THEOREM LeaseStaysFixed == Spec => LeaseFixed
<1>1. IInv /\ [Next]_vars => [~Free /\ ~Free' => owner' = owner /\ expiry' = expiry]_vars
  <2> SUFFICES ASSUME IInv, [Next]_vars, ~Free, ~Free' PROVE owner' = owner /\ expiry' = expiry
    BY Zenon
  <2> USE DEF Free
  <2>1. ASSUME NEW c \in Client, Operate(c) PROVE owner' = owner /\ expiry' = expiry
    BY <2>1 DEF Operate, Initialize, Acquire, AcquireNoop, AcquireError, Finish, Release,
                ReleaseError, Crash, SetKey
  <2>2. CASE Tick
    BY <2>2 DEF Tick
  <2>3. CASE UNCHANGED vars
    BY <2>3 DEF vars
  <2> QED BY <2>1, <2>2, <2>3 DEF Next
<1> QED BY <1>1, Invariance, PTL DEF Spec, LeaseFixed
==============================================================================
