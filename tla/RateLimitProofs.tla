--------------------------- MODULE RateLimitProofs ----------------------------
(***************************************************************************)
(* Proofs about RateLimit, for any number of requests, processes, keys,    *)
(* points and failures.  The argument is a count: the points a counter     *)
(* shows are the requests it has counted since it started.                 *)
(***************************************************************************)
EXTENDS RateLimit, FiniteSetTheorems, TLAPS

USE RequestAssumption, ProcAssumption, KeyAssumption, PointsAssumption, SendsAssumption,
    BoundAssumption

(* The requests of bucket b that counter number n of store s has counted,  *)
(* and those of them it let pass.                                          *)
Spent(s, b, n) ==
    {q \in Request : <<s, n>> \in req[q].counted /\ BucketOf(Of(q)) = b}
Within(s, b, n) ==
    {q \in Spent(s, b, n) : req[q].judged = <<s, n>> /\ ~req[q].over}

(* A request is counted when it is judged, never before; what Redis judged *)
(* it has not been counted elsewhere.                                      *)
JudgedInv ==
    \A r \in Request :
        /\ req[r].pc \in {"none", "unauthorized", "consume"} =>
               req[r].judged = Nowhere /\ req[r].counted = {}
        /\ req[r].judged # Nowhere =>
               /\ req[r].judged \in req[r].counted
               /\ req[r].judged[1] \in {"redis", Of(r).proc}
        /\ req[r].pc = "replied" =>
               req[r].counted = {req[r].judged} /\ req[r].judged[1] = "redis"
        /\ req[r].pc = "refused" => req[r].judged # Nowhere /\ req[r].over
        /\ req[r].pc = "passed" /\ req[r].judged # Nowhere => ~req[r].over

(* A process that initializes its limiters serves no request without one.  *)
StartInv ==
    \A r \in Request : req[r].pc \in {"consume", "passed"} /\ Of(r).proc \in Initializing =>
        /\ req[r].pc = "consume" => limiter[Of(r).proc] # "none"
        /\ req[r].pc = "passed" => req[r].judged # Nowhere

(* A counter shows how many requests it has counted; later counters none.  *)
CountInv ==
    \A s \in Store, b \in Bucket :
        /\ \A n \in Nat : IsFiniteSet(Spent(s, b, n))
        /\ Cardinality(Spent(s, b, window[s][b])) = counter[s][b]
        /\ \A n \in Nat : n > window[s][b] => Spent(s, b, n) = {}

(* No counter lets more pass than its points, and it refuses only when     *)
(* more than the points have been counted.                                 *)
LimitInv ==
    \A s \in Store, b \in Bucket, n \in Nat :
        Cardinality(Within(s, b, n)) <= Points[b[1]]
OverInv ==
    \A r \in Request : req[r].judged # Nowhere /\ req[r].over =>
        Cardinality(Spent(req[r].judged[1], BucketOf(Of(r)), req[r].judged[2]))
            > Points[Of(r).kind]

IInv == TypeOK /\ JudgedInv /\ StartInv /\ CountInv /\ LimitInv /\ OverInv

(***************************************************************************)
(* Buckets and stores.                                                     *)
(***************************************************************************)
(* What is sent counts in a bucket, unless it is refused for want of a     *)
(* user before it gets to the limiter.                                     *)
LEMMA BucketType == \A m \in Sends : BucketOf(m) \in Bucket /\ BucketOf(m)[1] = m.kind
<1> TAKE m \in Sends
<1>1. UserOf(m.token) \in User \cup {Nobody}
  BY DEF UserOf, FirstOf, Token
<1>2. KeyOf(m) \in Key
  BY <1>1 DEF KeyOf, IpOf, Key
<1> QED BY <1>2 DEF BucketOf, Bucket

(* Nowhere is no counter.                                                  *)
LEMMA NowhereType == Nowhere \notin Store \X Nat
BY DEF Nowhere, Store

(* At the start nothing has been counted.                                  *)
LEMMA InitInv == Init => IInv
<1> SUFFICES ASSUME Init PROVE IInv
  OBVIOUS
<1>1. TypeOK
  BY DEF Init, TypeOK, Record, NoRequest, Zero
<1>2. JudgedInv /\ StartInv /\ OverInv
  BY DEF Init, JudgedInv, StartInv, OverInv, NoRequest
<1>3. \A s \in Store, b \in Bucket, n \in Nat : Spent(s, b, n) = {} /\ Within(s, b, n) = {}
  BY DEF Init, Spent, Within, NoRequest
<1>4. CountInv
  BY <1>3, FS_EmptySet DEF CountInv, Init, Zero
<1>5. LimitInv
  BY <1>3, FS_EmptySet DEF LimitInv, Bucket
<1> QED BY <1>1, <1>2, <1>4, <1>5 DEF IInv

(***************************************************************************)
(* Steps that count nothing.                                               *)
(***************************************************************************)
Steady ==
    \A q \in Request : /\ req'[q].counted = req[q].counted
                       /\ req'[q].judged = req[q].judged
                       /\ req'[q].over = req[q].over
                       /\ req[q].counted # {} => Of(q)' = Of(q)

(* A counter goes on, or another one with no point takes its place.        *)
OnOrAnew ==
    \A s \in Store, b \in Bucket :
        \/ counter'[s][b] = counter[s][b] /\ window'[s][b] = window[s][b]
        \/ counter'[s][b] = 0 /\ window'[s][b] = window[s][b] + 1

(* Such steps keep the counts.                                             *)
LEMMA SteadyKeeps ==
    ASSUME IInv, Steady, OnOrAnew PROVE CountInv' /\ LimitInv' /\ OverInv'
<1>1. ASSUME NEW s, NEW b, NEW n PROVE Spent(s, b, n)' = Spent(s, b, n)
  <2>1. ASSUME NEW q \in Request
        PROVE  /\ <<s, n>> \in req'[q].counted <=> <<s, n>> \in req[q].counted
               /\ <<s, n>> \in req[q].counted => BucketOf(Of(q)') = BucketOf(Of(q))
    BY DEF Steady
  <2>2. ASSUME NEW q \in Request PROVE BucketOf(Of(q))' = BucketOf(Of(q)')
    BY DEF BucketOf, KeyOf
  <2> QED BY <2>1, <2>2, Zenon DEF Spent
<1>2. ASSUME NEW s, NEW b, NEW n PROVE Within(s, b, n)' = Within(s, b, n)
  <2>1. ASSUME NEW q \in Request
        PROVE  req'[q].judged = req[q].judged /\ req'[q].over = req[q].over
    BY DEF Steady
  <2>2. Spent(s, b, n) \subseteq Request
    BY DEF Spent
  <2> QED BY <1>1, <2>1, <2>2, Zenon DEF Within
<1>3. CountInv'
  <2> SUFFICES ASSUME NEW s \in Store, NEW b \in Bucket
               PROVE  /\ \A n \in Nat : IsFiniteSet(Spent(s, b, n))
                      /\ Cardinality(Spent(s, b, window'[s][b])) = counter'[s][b]
                      /\ \A n \in Nat : n > window'[s][b] => Spent(s, b, n) = {}
    BY <1>1 DEF CountInv
  <2>1. window[s][b] \in Nat
    BY DEF IInv, TypeOK, Record
  <2>2. CASE counter'[s][b] = counter[s][b] /\ window'[s][b] = window[s][b]
    BY <2>2 DEF IInv, CountInv
  <2>3. CASE counter'[s][b] = 0 /\ window'[s][b] = window[s][b] + 1
    <3>1. \A n \in Nat : n >= window'[s][b] => Spent(s, b, n) = {}
      BY <2>1, <2>3 DEF IInv, CountInv
    <3> QED BY <2>1, <2>3, <3>1, FS_EmptySet DEF IInv, CountInv
  <2> QED BY <2>2, <2>3 DEF OnOrAnew
<1>4. LimitInv'
  BY <1>2 DEF IInv, LimitInv
<1>5. OverInv'
  <2> SUFFICES ASSUME NEW r \in Request, req'[r].judged # Nowhere, req'[r].over
               PROVE  Cardinality(Spent(req'[r].judged[1], BucketOf(Of(r))', req'[r].judged[2]))
                          > Points[Of(r)'.kind]
    BY <1>1 DEF OverInv
  <2>1. req[r].judged # Nowhere /\ req[r].over /\ req'[r].judged = req[r].judged
    BY DEF Steady
  <2>2. Of(r)' = Of(r)
    BY <2>1 DEF IInv, JudgedInv, Steady
  <2>3. BucketOf(Of(r))' = BucketOf(Of(r))
    BY <2>2 DEF BucketOf, KeyOf
  <2> QED BY <2>1, <2>2, <2>3 DEF IInv, OverInv
<1> QED BY <1>3, <1>4, <1>5

(***************************************************************************)
(* The step that counts a point of r in store s.                           *)
(***************************************************************************)
Judges(r, s, next) ==
    /\ Count(r, s) /\ window' = window
    /\ req' = [req EXCEPT ![r].pc = next, ![r].over = Exceeds(r, s),
                          ![r].judged = Here(r, s), ![r].counted = @ \cup {Here(r, s)}]

(* It keeps the counts, if r was not counted in this counter before.       *)
LEMMA CountKeeps ==
    ASSUME IInv, NEW r \in Request, NEW s \in Store, NEW next, Judges(r, s, next),
           Of(r) \in Sends, Here(r, s) \notin req[r].counted
    PROVE  CountInv' /\ LimitInv' /\ OverInv'
<1> SUFFICES ASSUME NEW b, NEW n, b = BucketOf(Of(r)), n = window[s][b]
             PROVE  CountInv' /\ LimitInv' /\ OverInv'
  OBVIOUS
<1>1. b \in Bucket /\ b[1] = Of(r).kind
  BY BucketType
<1>2. n \in Nat /\ counter[s][b] \in Nat /\ Here(r, s) = <<s, n>> /\ Points[b[1]] \in Nat
  BY <1>1 DEF IInv, TypeOK, Record, Here, Bucket
<1>3. counter'[s][b] = counter[s][b] + 1
      /\ \A t \in Store, a \in Bucket : <<t, a>> # <<s, b>> => counter'[t][a] = counter[t][a]
  BY <1>1 DEF IInv, TypeOK, Record, Judges, Count
<1>4. /\ \A q \in Request : q # r => req'[q] = req[q]
      /\ req'[r].over = Exceeds(r, s) /\ req'[r].judged = <<s, n>>
      /\ req'[r].counted = req[r].counted \cup {<<s, n>>}
      /\ req'[r].sent = req[r].sent
  BY <1>2 DEF IInv, TypeOK, Record, Judges
<1>a. \A q \in Request : Of(q)' = Of(q) /\ BucketOf(Of(q))' = BucketOf(Of(q))
  BY <1>4 DEF Of, BucketOf, KeyOf
<1>5. Spent(s, b, n)' = Spent(s, b, n) \cup {r} /\ r \notin Spent(s, b, n)
  BY <1>2, <1>4, <1>a DEF Spent
<1>6. \A t, a, m : <<t, a, m>> # <<s, b, n>> => Spent(t, a, m)' = Spent(t, a, m)
  <2> TAKE t, a, m
  <2>1. HAVE <<t, a, m>> # <<s, b, n>>
  <2>2. \A q \in Request : q # r => (q \in Spent(t, a, m)' <=> q \in Spent(t, a, m))
    BY <1>4, <1>a DEF Spent
  <2>3. r \in Spent(t, a, m)' <=> r \in Spent(t, a, m)
    <3>1. CASE <<t, m>> = <<s, n>>
      <4>1. BucketOf(Of(r)) # a /\ BucketOf(Of(r))' # a
        BY <2>1, <3>1, <1>a
      <4> QED BY <4>1 DEF Spent
    <3>2. CASE <<t, m>> # <<s, n>>
      BY <1>4, <1>a, <3>2 DEF Spent
    <3> QED BY <3>1, <3>2
  <2>4. Spent(t, a, m)' \subseteq Request /\ Spent(t, a, m) \subseteq Request
    BY DEF Spent
  <2>5. \A q : q \in Spent(t, a, m)' <=> q \in Spent(t, a, m)
    BY <2>2, <2>3, <2>4
  <2> QED BY <2>5
<1>7. /\ IsFiniteSet(Spent(s, b, n)) /\ IsFiniteSet(Spent(s, b, n)')
      /\ Cardinality(Spent(s, b, n)) = counter[s][b]
      /\ Cardinality(Spent(s, b, n)') = counter[s][b] + 1
  <2>1. IsFiniteSet(Spent(s, b, n)) /\ Cardinality(Spent(s, b, n)) = counter[s][b]
    BY <1>1, <1>2 DEF IInv, CountInv
  <2> QED BY <2>1, <1>5, FS_AddElement
<1>8. CountInv'
  <2> SUFFICES ASSUME NEW t \in Store, NEW a \in Bucket, NEW m \in Nat
               PROVE  /\ IsFiniteSet(Spent(t, a, m)')
                      /\ m = window[t][a] => Cardinality(Spent(t, a, m)') = counter'[t][a]
                      /\ m > window[t][a] => Spent(t, a, m)' = {}
    <3>1. window' = window /\ \A u \in Store, c \in Bucket : window[u][c] \in Nat
      BY DEF IInv, TypeOK, Record, Judges
    <3> QED BY <3>1 DEF CountInv
  <2>1. /\ IsFiniteSet(Spent(t, a, m))
        /\ m = window[t][a] => Cardinality(Spent(t, a, m)) = counter[t][a]
        /\ m > window[t][a] => Spent(t, a, m) = {}
    BY DEF IInv, CountInv
  <2>2. CASE <<t, a, m>> = <<s, b, n>>
    BY <2>2, <1>2, <1>3, <1>7
  <2>3. CASE <<t, a, m>> # <<s, b, n>>
    <3>1. m = window[t][a] => counter'[t][a] = counter[t][a]
      BY <2>3, <1>3
    <3> QED BY <2>1, <2>3, <3>1, <1>6
  <2> QED BY <2>2, <2>3
<1>9. LimitInv'
  <2> SUFFICES ASSUME NEW t \in Store, NEW a \in Bucket, NEW m \in Nat
               PROVE  Cardinality(Within(t, a, m)') <= Points[a[1]]
    BY DEF LimitInv
  <2>0. /\ IsFiniteSet(Spent(t, a, m)) /\ Points[a[1]] \in Nat
        /\ Cardinality(Within(t, a, m)) <= Points[a[1]]
    BY DEF IInv, CountInv, LimitInv, Bucket
  <2>1. CASE <<t, a, m>> = <<s, b, n>> /\ ~Exceeds(r, s)
    <3>1. Within(t, a, m)' \subseteq Spent(s, b, n)'
      BY <2>1 DEF Within
    <3>2. Cardinality(Within(t, a, m)') <= counter[s][b] + 1
          /\ Cardinality(Within(t, a, m)') \in Nat
      BY <3>1, <1>7, FS_Subset, FS_CardinalityType
    <3>3. counter[s][b] + 1 <= Points[b[1]]
      BY <2>1, <1>1, <1>2 DEF Exceeds
    <3> QED BY <3>2, <3>3, <2>1, <1>2
  <2>2. CASE ~(<<t, a, m>> = <<s, b, n>> /\ ~Exceeds(r, s))
    <3>1. r \notin Within(t, a, m)'
      <4>1. CASE <<t, m>> = <<s, n>> /\ a # b
        BY <4>1, <1>4, <1>a DEF Within, Spent
      <4>2. CASE <<t, m>> # <<s, n>>
        BY <4>2, <1>4 DEF Within
      <4>3. CASE Exceeds(r, s)
        BY <4>3, <1>4 DEF Within
      <4> QED BY <4>1, <4>2, <4>3, <2>2
    <3>2. Within(t, a, m)' \subseteq Within(t, a, m)
      BY <3>1, <1>4, <1>a DEF Within, Spent
    <3>3. IsFiniteSet(Within(t, a, m)) /\ Cardinality(Within(t, a, m)) \in Nat
      <4>1. Within(t, a, m) \subseteq Spent(t, a, m)
        BY DEF Within
      <4> QED BY <4>1, <2>0, FS_Subset, FS_CardinalityType
    <3>4. Cardinality(Within(t, a, m)') <= Cardinality(Within(t, a, m))
          /\ Cardinality(Within(t, a, m)') \in Nat
      BY <3>2, <3>3, FS_Subset, FS_CardinalityType
    <3> QED BY <2>0, <3>3, <3>4
  <2> QED BY <2>1, <2>2
<1>10. OverInv'
  <2> SUFFICES ASSUME NEW q \in Request, req'[q].judged # Nowhere, req'[q].over
               PROVE  Cardinality(Spent(req[q].judged[1], BucketOf(Of(q)), req[q].judged[2])')
                          > Points[Of(q)'.kind]
    BY DEF OverInv
  <2>1. CASE q = r
    <3>1. counter[s][b] + 1 > Points[b[1]]
      BY <2>1, <1>1, <1>4 DEF Exceeds
    <3>2. req'[q].judged[1] = s /\ req'[q].judged[2] = n /\ BucketOf(Of(q))' = b
          /\ Of(q)'.kind = b[1]
      BY <2>1, <1>1, <1>4, <1>a
    <3> QED BY <3>1, <3>2, <1>7
  <2>2. CASE q # r
    <3> DEFINE t == req[q].judged[1]
               a == BucketOf(Of(q))
               m == req[q].judged[2]
    <3>1. req'[q] = req[q] /\ Of(q)' = Of(q) /\ BucketOf(Of(q))' = a
      BY <2>2, <1>4, <1>a
    <3>2. Cardinality(Spent(t, a, m)) > Points[Of(q).kind]
      BY <3>1 DEF IInv, OverInv
    <3>3. CASE <<t, a, m>> = <<s, b, n>>
      <4>1. Points[Of(q).kind] \in Nat
        <5>1. req[q].judged \in req[q].counted /\ req[q].pc # "none"
          BY <3>1 DEF IInv, JudgedInv
        <5> QED BY <5>1 DEF IInv, TypeOK, Record, Of
      <4> QED BY <3>1, <3>2, <3>3, <4>1, <1>2, <1>7
    <3>4. CASE <<t, a, m>> # <<s, b, n>>
      BY <3>1, <3>2, <3>4, <1>6
    <3> QED BY <3>3, <3>4
  <2> QED BY <2>1, <2>2
<1> QED BY <1>8, <1>9, <1>10

(* A record stays one when its fields get values of their kinds.           *)
LEMMA RecordMoves ==
    ASSUME NEW x \in Record, NEW next \in {"none", "unauthorized", "consume", "replied",
                                           "passed", "refused", "lost"}
    PROVE  [x EXCEPT !.pc = next] \in Record
<1> DEFINE S == Sends \cup {Nothing}
           J == (Store \X Nat) \cup {Nowhere}
           C == SUBSET (Store \X Nat)
<1> HIDE DEF S, J, C
<1> QED BY DEF Record

LEMMA RecordJudged ==
    ASSUME NEW x \in Record, NEW next \in {"passed", "refused", "replied"},
           NEW over \in BOOLEAN, NEW j \in Store \X Nat
    PROVE  [x EXCEPT !.pc = next, !.over = over, !.judged = j, !.counted = @ \cup {j}]
               \in Record
<1> DEFINE P == {"none", "unauthorized", "consume", "replied", "passed", "refused", "lost"}
           S == Sends \cup {Nothing}
           J == (Store \X Nat) \cup {Nowhere}
           C == SUBSET (Store \X Nat)
<1>1. x \in [pc : P, sent : S, over : BOOLEAN, judged : J, counted : C]
  BY DEF Record
<1>2. next \in P /\ j \in J /\ x.counted \cup {j} \in C
  BY <1>1
<1> HIDE DEF P, S, J, C
<1>3. [x EXCEPT !.pc = next, !.over = over, !.judged = j, !.counted = @ \cup {j}]
          \in [pc : P, sent : S, over : BOOLEAN, judged : J, counted : C]
  BY <1>1, <1>2
<1> QED BY <1>3 DEF Record, P, S, J, C

(***************************************************************************)
(* The actions.                                                            *)
(***************************************************************************)
(* Requests that are neither counted nor judged leave the counts alone.    *)
LEMMA ArriveInv ==
    ASSUME IInv, NEW r \in Request, NEW m \in Sends, Arrive(r, m) PROVE IInv'
<1> USE DEF IInv, Arrive, Quiet
<1>1. TypeOK'
  BY DEF TypeOK, Record
<1>2. JudgedInv' /\ StartInv'
  BY DEF TypeOK, Record, JudgedInv, StartInv, Of
<1>3. Steady
  BY DEF TypeOK, Record, JudgedInv, Steady, Of
<1>4. OnOrAnew
  BY DEF OnOrAnew
<1> QED BY <1>1, <1>2, <1>3, <1>4, SteadyKeeps

(* Nor does a request that passes or is refused, once it has been judged.  *)
LEMMA PassInv ==
    ASSUME IInv, NEW r \in Request, FailOpen(r) \/ Reply(r) PROVE IInv'
<1>1. PICK next \in {"passed", "refused"} :
          /\ req' = [req EXCEPT ![r].pc = next]
          /\ \/ /\ req[r].pc = "consume" /\ limiter[Of(r).proc] = "none" /\ next = "passed"
             \/ req[r].pc = "replied" /\ (next = "refused" <=> req[r].over)
  BY DEF IInv, TypeOK, Record, FailOpen, Reply, Verdict
<1>2. UNCHANGED <<limiter, counter, window, faults>>
  BY DEF FailOpen, Reply, Quiet
<1>3. /\ req'[r].pc = next /\ req'[r].sent = req[r].sent /\ req'[r].over = req[r].over
      /\ req'[r].judged = req[r].judged /\ req'[r].counted = req[r].counted
      /\ \A q \in Request : q # r => req'[q] = req[q]
  BY <1>1 DEF IInv, TypeOK, Record
<1>4. TypeOK'
  <2>1. \A q \in Request : req'[q] \in Record
    BY <1>1, RecordMoves DEF IInv, TypeOK
  <2>2. req' \in [Request -> Record]
    BY <1>1, <2>1 DEF IInv, TypeOK
  <2> QED BY <2>2, <1>1, <1>2, <1>3 DEF IInv, TypeOK, Of
<1>5. JudgedInv'
  <2> SUFFICES ASSUME NEW q \in Request
               PROVE  /\ req'[q].pc \in {"none", "unauthorized", "consume"} =>
                             req'[q].judged = Nowhere /\ req'[q].counted = {}
                      /\ req'[q].judged # Nowhere =>
                             /\ req'[q].judged \in req'[q].counted
                             /\ req'[q].judged[1] \in {"redis", req'[q].sent.proc}
                      /\ req'[q].pc = "replied" => req'[q].counted = {req'[q].judged}
                                                   /\ req'[q].judged[1] = "redis"
                      /\ req'[q].pc = "refused" => req'[q].judged # Nowhere /\ req'[q].over
                      /\ req'[q].pc = "passed" /\ req'[q].judged # Nowhere => ~req'[q].over
    BY DEF JudgedInv, Of
  <2>1. CASE q # r
    BY <2>1, <1>3 DEF IInv, JudgedInv, Of
  <2>2. req[r].pc = "replied" => req[r].judged # Nowhere
    BY NowhereType DEF IInv, TypeOK, Record, JudgedInv
  <2>3. CASE q = r
    BY <2>2, <2>3, <1>1, <1>3 DEF IInv, JudgedInv, Of
  <2> QED BY <2>1, <2>3
<1>6. StartInv'
  <2>1. req[r].pc = "replied" => req[r].judged # Nowhere
    BY NowhereType DEF IInv, TypeOK, Record, JudgedInv
  <2> QED BY <2>1, <1>1, <1>2, <1>3 DEF IInv, StartInv, Of
<1>7. Steady
  BY <1>3 DEF Steady, Of
<1>8. OnOrAnew
  BY <1>2 DEF OnOrAnew
<1> QED BY <1>4, <1>5, <1>6, <1>7, <1>8, SteadyKeeps DEF IInv

LEMMA InitializeInv ==
    ASSUME IInv, NEW p \in Proc, Initialize(p) PROVE IInv'
<1> USE DEF IInv, Initialize
<1>1. TypeOK' /\ JudgedInv' /\ StartInv'
  BY DEF TypeOK, Record, JudgedInv, StartInv, Of
<1>2. Steady /\ OnOrAnew
  BY DEF Steady, OnOrAnew, Of
<1> QED BY <1>1, <1>2, SteadyKeeps

(* A counter that ends is followed by one without points.                  *)
LEMMA ExpireInv ==
    ASSUME IInv, NEW s \in Store, NEW b \in Bucket, Expire(s, b) PROVE IInv'
<1> USE DEF IInv, Expire
<1>1. TypeOK' /\ JudgedInv' /\ StartInv'
  BY DEF TypeOK, Record, JudgedInv, StartInv, Of
<1>2. Steady /\ OnOrAnew
  BY DEF TypeOK, Record, Steady, OnOrAnew, Of
<1> QED BY <1>1, <1>2, SteadyKeeps

LEMMA RestartInv ==
    ASSUME IInv, NEW p \in Proc, Restart(p) PROVE IInv'
<1> USE DEF IInv, Restart, Forgets, Fault, Waiting
<1>1. p \in Store
  BY DEF Store
<1>2. TypeOK'
  <2>1. limiter' \in [Proc -> {"none", "redis", "memory"}]
        /\ (\A q \in Proc \ Initializing : limiter'[q] = "none")
        /\ \A q \in Proc : q # p => limiter'[q] = limiter[q]
    BY DEF TypeOK, Record
  <2>2. Zero \in [Bucket -> Nat]
        /\ [b \in Bucket |-> IF counter[p][b] > 0 THEN window[p][b] + 1 ELSE window[p][b]]
               \in [Bucket -> Nat]
    BY <1>1 DEF TypeOK, Record, Zero
  <2>3. counter' \in [Store -> [Bucket -> Nat]] /\ window' \in [Store -> [Bucket -> Nat]]
    BY <1>1, <2>2 DEF TypeOK, Record
  <2>4. req' \in [Request -> Record]
    <3>1. \A q \in Request : [req[q] EXCEPT !.pc = "lost"] \in Record
      BY RecordMoves DEF TypeOK
    <3> QED BY <3>1 DEF TypeOK
  <2>5. \A q \in Request : /\ req'[q].pc # "none" => Of(q)' \in Sends
                           /\ req'[q].pc = "replied" => limiter'[Of(q)'.proc] = "redis"
    BY <2>1 DEF TypeOK, Record, Of
  <2>6. faults' \in 0..MaxFaults
    BY DEF TypeOK, Record
  <2> QED BY <2>1, <2>3, <2>4, <2>5, <2>6 DEF TypeOK, Record
<1>3. \A q \in Request : /\ req'[q] = req[q] \/ req'[q] = [req[q] EXCEPT !.pc = "lost"]
                         /\ Of(q)' = Of(q)
                         /\ Of(q).proc = p => req'[q].pc \notin {"consume", "replied"}
  BY DEF TypeOK, Record, Of
<1>4. JudgedInv'
  BY <1>3 DEF TypeOK, Record, JudgedInv, Of
<1>5. StartInv'
  BY <1>3 DEF TypeOK, Record, StartInv, Of
<1>6. Steady
  BY <1>3 DEF TypeOK, Record, Steady, Of
<1>7. OnOrAnew
  BY <1>1 DEF TypeOK, Record, OnOrAnew, Zero
<1> QED BY <1>2, <1>4, <1>5, <1>6, <1>7, SteadyKeeps

(* A step that judges keeps what a request's record says of it.            *)
LEMMA JudgesTypes ==
    ASSUME IInv, NEW r \in Request, NEW s \in {"redis", Of(r).proc}, NEW next,
           Judges(r, s, next), limiter' = limiter, faults' \in 0..MaxFaults,
           req[r].pc \in {"consume", "replied"},
           \/ next = Verdict(Exceeds(r, s))
           \/ next = "replied" /\ s = "redis" /\ req[r].pc = "consume"
              /\ limiter[Of(r).proc] = "redis"
    PROVE  TypeOK' /\ JudgedInv' /\ StartInv'
<1>1. Of(r) \in Sends /\ BucketOf(Of(r)) \in Bucket /\ s \in Store
  BY BucketType DEF IInv, TypeOK, Record, Store
<1>2. Here(r, s) \in Store \X Nat /\ Here(r, s)[1] = s /\ Here(r, s) # Nowhere
      /\ Exceeds(r, s) \in BOOLEAN
  BY <1>1, NowhereType DEF IInv, TypeOK, Record, Here, Exceeds
<1>3. next \in {"passed", "refused", "replied"}
  BY DEF Verdict
<1>4. req'[r] = [req[r] EXCEPT !.pc = next, !.over = Exceeds(r, s), !.judged = Here(r, s),
                               !.counted = @ \cup {Here(r, s)}]
      /\ \A q \in Request : Of(q)' = Of(q) /\ (q # r => req'[q] = req[q])
  BY DEF IInv, TypeOK, Record, Judges, Of
<1>5. TypeOK'
  <2>1. counter' \in [Store -> [Bucket -> Nat]]
    BY <1>1 DEF IInv, TypeOK, Record, Judges, Count
  <2>2. req' \in [Request -> Record]
    <3>1. [req[r] EXCEPT !.pc = next, !.over = Exceeds(r, s), !.judged = Here(r, s),
                         !.counted = @ \cup {Here(r, s)}] \in Record
      BY <1>2, <1>3, RecordJudged DEF IInv, TypeOK
    <3>2. req' = [req EXCEPT ![r] = req'[r]]
      BY DEF IInv, TypeOK, Judges
    <3> QED BY <3>1, <3>2, <1>4 DEF IInv, TypeOK
  <2>3. \A q \in Request :
          /\ req'[q].pc # "none" => Of(q)' \in Sends
          /\ req'[q].pc = "replied" => limiter'[Of(q)'.proc] = "redis"
    <3>1. req'[r].sent = req[r].sent /\ req'[r].pc = next
      BY <1>4 DEF IInv, TypeOK, Record
    <3>2. next = "replied" => limiter'[Of(r).proc] = "redis"
      BY DEF Verdict
    <3>3. \A q \in Request : q # r =>
             /\ req'[q].pc # "none" => Of(q) \in Sends
             /\ req'[q].pc = "replied" => limiter'[Of(q).proc] = "redis"
      BY <1>4 DEF IInv, TypeOK
    <3> TAKE q \in Request
    <3>4. Of(q)' = Of(q)
      BY <1>4
    <3>5. CASE q = r
      BY <3>1, <3>2, <3>4, <3>5, <1>1
    <3>6. CASE q # r
      BY <3>3, <3>4, <3>6
    <3> QED BY <3>5, <3>6
  <2> QED BY <2>1, <2>2, <2>3 DEF IInv, TypeOK, Record, Judges
<1>6. /\ req'[r].pc = next /\ req'[r].over = Exceeds(r, s) /\ req'[r].judged = Here(r, s)
      /\ req'[r].counted = req[r].counted \cup {Here(r, s)}
  BY <1>4 DEF IInv, TypeOK, Record
<1>7. JudgedInv'
  <2> SUFFICES ASSUME NEW q \in Request
               PROVE  /\ req'[q].pc \in {"none", "unauthorized", "consume"} =>
                             req'[q].judged = Nowhere /\ req'[q].counted = {}
                      /\ req'[q].judged # Nowhere =>
                             /\ req'[q].judged \in req'[q].counted
                             /\ req'[q].judged[1] \in {"redis", Of(q).proc}
                      /\ req'[q].pc = "replied" => req'[q].counted = {req'[q].judged}
                                                   /\ req'[q].judged[1] = "redis"
                      /\ req'[q].pc = "refused" => req'[q].judged # Nowhere /\ req'[q].over
                      /\ req'[q].pc = "passed" /\ req'[q].judged # Nowhere => ~req'[q].over
    BY <1>4 DEF JudgedInv
  <2>1. CASE q # r
    BY <2>1, <1>4 DEF IInv, JudgedInv
  <2>2. req[r].pc = "consume" => req[r].counted = {}
    BY DEF IInv, JudgedInv
  <2>3. CASE q = r
    BY <2>2, <2>3, <1>2, <1>3, <1>6 DEF Verdict
  <2> QED BY <2>1, <2>3
<1>8. StartInv'
  <2> SUFFICES ASSUME NEW q \in Request, Of(q).proc \in Initializing
               PROVE  /\ req'[q].pc = "consume" => limiter'[Of(q).proc] # "none"
                      /\ req'[q].pc = "passed" => req'[q].judged # Nowhere
    BY <1>4 DEF StartInv
  <2> QED BY <1>2, <1>3, <1>4, <1>6 DEF IInv, StartInv
<1> QED BY <1>5, <1>7, <1>8

LEMMA MemoryInv ==
    ASSUME IInv, NEW r \in Request, ConsumeMemory(r) \/ RedisError(r) PROVE IInv'
<1> DEFINE p == Of(r).proc
<1>1. Judges(r, p, Verdict(Exceeds(r, p))) /\ limiter' = limiter
  BY DEF ConsumeMemory, RedisError, Insure, JudgedInMemory, Judges
<1>2. req[r].pc \in {"consume", "replied"} /\ faults' \in 0..MaxFaults
  BY DEF ConsumeMemory, RedisError, Fault, IInv, TypeOK, Record
<1>3. Of(r) \in Sends /\ p \in Proc
  BY <1>2 DEF IInv, TypeOK, Record
<1>4. Here(r, p) \notin req[r].counted
  BY <1>2, <1>3 DEF IInv, JudgedInv, Here
<1>5. TypeOK' /\ JudgedInv' /\ StartInv'
  BY <1>1, <1>2, JudgesTypes
<1>6. CountInv' /\ LimitInv' /\ OverInv'
  BY <1>1, <1>3, <1>4, CountKeeps DEF Store
<1> QED BY <1>5, <1>6 DEF IInv

LEMMA RedisInv ==
    ASSUME IInv, NEW r \in Request, ConsumeRedis(r) PROVE IInv'
<1>1. Judges(r, "redis", "replied") /\ limiter' = limiter
  BY DEF ConsumeRedis, Judges
<1>2. req[r].pc = "consume" /\ faults' \in 0..MaxFaults /\ limiter[Of(r).proc] = "redis"
  BY DEF ConsumeRedis, IInv, TypeOK, Record
<1>3. Of(r) \in Sends /\ Here(r, "redis") \notin req[r].counted
  BY <1>2 DEF IInv, TypeOK, Record, JudgedInv
<1>4. TypeOK' /\ JudgedInv' /\ StartInv'
  BY <1>1, <1>2, JudgesTypes
<1>5. CountInv' /\ LimitInv' /\ OverInv'
  BY <1>1, <1>3, CountKeeps DEF Store
<1> QED BY <1>4, <1>5 DEF IInv

(* Every step keeps the invariant.                                         *)
LEMMA NextInv == IInv /\ [Next]_vars => IInv'
<1> SUFFICES ASSUME IInv, [Next]_vars PROVE IInv'
  OBVIOUS
<1>1. ASSUME NEW r \in Request, NEW m \in Sends, Arrive(r, m) PROVE IInv'
  BY <1>1, ArriveInv
<1>2. ASSUME NEW r \in Request, Decide(r) PROVE IInv'
  BY <1>2, PassInv, MemoryInv, RedisInv DEF Decide
<1>3. ASSUME NEW r \in Request, RedisError(r) PROVE IInv'
  BY <1>3, MemoryInv
<1>4. ASSUME NEW p \in Proc, Initialize(p) PROVE IInv'
  BY <1>4, InitializeInv
<1>5. ASSUME NEW p \in Proc, Restart(p) PROVE IInv'
  BY <1>5, RestartInv
<1>6. ASSUME NEW s \in Store, NEW b \in Bucket, Expire(s, b) PROVE IInv'
  BY <1>6, ExpireInv
<1>7. CASE UNCHANGED vars
  <2>1. TypeOK' /\ JudgedInv' /\ StartInv'
    BY <1>7 DEF vars, IInv, TypeOK, Record, JudgedInv, StartInv, Of
  <2>2. Steady /\ OnOrAnew
    BY <1>7 DEF vars, Steady, OnOrAnew, Of
  <2> QED BY <2>1, <2>2, SteadyKeeps DEF IInv
<1> QED BY <1>1, <1>2, <1>3, <1>4, <1>5, <1>6, <1>7 DEF Next

(* The invariant holds for good.                                           *)
LEMMA SpecInv == Spec => []IInv
BY InitInv, NextInv, PTL DEF Spec

(***************************************************************************)
(* The theorems.                                                           *)
(***************************************************************************)
(* The model is type correct, and a request waits for Redis only in a      *)
(* process whose limiter asks Redis.                                       *)
THEOREM TypeCorrect == Spec => []TypeOK
BY SpecInv, PTL DEF IInv

(* Where the start initializes the limiters no request passes uncounted.   *)
THEOREM NobodySlipsThrough == Spec => []PassedCounted
<1>1. IInv => PassedCounted
  BY DEF IInv, JudgedInv, StartInv, PassedCounted
<1> QED BY <1>1, SpecInv, PTL

(* What SameBucket says of two requests that were judged.                  *)
LEMMA BucketsAgree == \A q, r \in Request : SameBucket(q, r) <=> BucketOf(Of(q)) = BucketOf(Of(r))
BY DEF SameBucket, BucketOf

(* No counter lets more requests of a kind and key pass than its points.   *)
THEOREM LimitIsKept == Spec => []LimitHolds
<1>1. IInv => LimitHolds
  <2> SUFFICES ASSUME IInv, NEW r \in Request, req[r].pc = "passed", req[r].judged # Nowhere
               PROVE  Cardinality({q \in Request : /\ req[q].pc = "passed" /\ SameBucket(q, r)
                                                   /\ req[q].judged = req[r].judged})
                          <= Points[Of(r).kind]
    BY DEF LimitHolds
  <2> DEFINE Passed == {q \in Request : /\ req[q].pc = "passed" /\ SameBucket(q, r)
                                        /\ req[q].judged = req[r].judged}
             b == BucketOf(Of(r))
  <2>1. b \in Bucket /\ b[1] = Of(r).kind /\ Points[b[1]] \in Nat
    BY BucketType DEF IInv, TypeOK, Bucket
  <2>2. PICK s \in Store, n \in Nat : req[r].judged = <<s, n>>
    <3>1. req[r].judged \in Store \X Nat
      BY DEF IInv, TypeOK, Record
    <3> QED BY <3>1
  <2>3. Passed \subseteq Within(s, b, n)
    BY <2>2, BucketsAgree DEF IInv, JudgedInv, Within, Spent
  <2>4. IsFiniteSet(Within(s, b, n))
    <3>1. Within(s, b, n) \subseteq Spent(s, b, n) /\ IsFiniteSet(Spent(s, b, n))
      BY <2>1 DEF Within, IInv, CountInv
    <3> QED BY <3>1, FS_Subset
  <2>5. Cardinality(Within(s, b, n)) <= Points[b[1]]
    BY <2>1 DEF IInv, LimitInv
  <2> HIDE DEF Passed, b
  <2>6. Cardinality(Passed) <= Cardinality(Within(s, b, n))
        /\ Cardinality(Passed) \in Nat /\ Cardinality(Within(s, b, n)) \in Nat
    BY <2>3, <2>4, FS_Subset, FS_CardinalityType
  <2> QED BY <2>1, <2>5, <2>6 DEF Passed
<1> QED BY <1>1, SpecInv, PTL

(* Every refusal is earned: more requests than the points were counted.    *)
THEOREM RefusalIsEarned == Spec => []RefusedOnlySpent
<1>1. IInv => RefusedOnlySpent
  <2> SUFFICES ASSUME IInv, NEW r \in Request, req[r].pc = "refused"
               PROVE  Cardinality({q \in Request : /\ req[q].pc # "none" /\ SameBucket(q, r)
                                                   /\ req[r].judged \in req[q].counted})
                          > Points[Of(r).kind]
    BY DEF RefusedOnlySpent
  <2> DEFINE b == BucketOf(Of(r))
  <2>1. req[r].judged # Nowhere /\ req[r].over
    BY DEF IInv, JudgedInv
  <2>2. PICK s \in Store, n \in Nat : req[r].judged = <<s, n>>
    <3>1. req[r].judged \in Store \X Nat
      BY <2>1 DEF IInv, TypeOK, Record
    <3> QED BY <3>1
  <2>3. {q \in Request : /\ req[q].pc # "none" /\ SameBucket(q, r)
                         /\ req[r].judged \in req[q].counted} = Spent(s, b, n)
    <3>1. \A q \in Request : <<s, n>> \in req[q].counted => req[q].pc # "none"
      BY DEF IInv, JudgedInv
    <3> QED BY <3>1, <2>2, BucketsAgree DEF Spent
  <2>4. Cardinality(Spent(s, b, n)) > Points[Of(r).kind]
    <3>1. req[r].judged[1] = s /\ req[r].judged[2] = n
      BY <2>2
    <3> QED BY <3>1, <2>1 DEF IInv, OverInv
  <2> QED BY <2>3, <2>4
<1> QED BY <1>1, SpecInv, PTL
===============================================================================
