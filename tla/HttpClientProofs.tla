--------------------------- MODULE HttpClientProofs ---------------------------
(***************************************************************************)
(* Proofs about HttpClient, for any number of calls, retries and failures: *)
(* what a request may carry, and how often the server executes a call.     *)
(***************************************************************************)
EXTENDS HttpClient, TLAPS

USE CallAssumption, WantAssumption, BoundAssumption

(* Calls in flight together know of each other.                            *)
OverlapInv == \A c, d \in InFlight : d # c => d \in overlap[c]

(* The data source holds only what calls in flight have set; its Request,  *)
(* while a call waits, only what it or a call it overlapped has set.       *)
SourceInv == source.params \subseteq InFlight /\ source.headers \subseteq InFlight

From(c, f) == f.params \subseteq overlap[c] \cup {c} /\ f.headers \subseteq overlap[c] \cup {c}

RequestInv ==
    \A c \in Direct : /\ pc[c] \in {"waiting", "failed"} => From(c, request[Shared])
                      /\ pc[c] \in {"idle", "before"} => sent[c] = Empty
                      /\ From(c, sent[c])

(* The Http instance holds the params of all its calls and the headers of  *)
(* at most one; a call of it sends what its own Request was made with.     *)
Made == {c \in Facade : pc[c] # "idle"}
HttpInv ==
    /\ http.params = Querying \cap Made
    /\ http.headers \in {{}} \cup {{d} : d \in Made}
    /\ \A c \in Facade : /\ pc[c] \notin {"before", "finally"}
                         /\ pc[c] # "idle" => /\ request[c] = sent[c]
                                              /\ earlier[c] \subseteq Made
    /\ FacadeSendsAllSoFar

(* A call that has overlapped no other finds its own fields at each step.  *)
AloneInv ==
    \A c \in InFlight : overlap[c] = {} =>
        /\ pc[c] = "before" => source = Own(c)
        /\ pc[c] \in {"waiting", "failed"} => request[Shared] = Own(c)
        /\ pc[c] \in {"waiting", "failed", "finally"} => sent[c] = Own(c)

(* Before its answer a call was executed only by attempts that were lost.  *)
CountInv ==
    \A c \in Call :
        executed[c] <= lost[c] + (IF pc[c] \in {"finally", "done"} THEN 1 ELSE 0)

IInv == TypeOK /\ OverlapInv /\ SourceInv /\ RequestInv /\ AloneInv /\ CountInv /\ HttpInv

(* At the start no call has been made.                                     *)
LEMMA InitInv == Init => IInv
BY DEF Init, IInv, TypeOK, Fields, Empty, OverlapInv, SourceInv, RequestInv, From,
       AloneInv, CountInv, InFlight, Direct, HttpInv, Made, FacadeSendsAllSoFar

(* What a call sets are fields.                                            *)
LEMMA OwnFields == \A c \in Call : Own(c) \in Fields
BY DEF Own, Fields

(* Begin: the new call overlaps every call in flight, and they it; alone,  *)
(* it finds the data source empty.                                         *)
LEMMA BeginInv == ASSUME IInv, NEW c \in Call, Begin(c) PROVE IInv'
<1> USE DEF IInv, Begin, Goto
<1>1. TypeOK'
  BY OwnFields DEF TypeOK, With, Own, Fields, InFlight, Direct
<1>2. InFlight' = InFlight \cup {c} /\ c \notin InFlight
  BY DEF InFlight, Direct, TypeOK
<1>3. /\ overlap'[c] = InFlight
      /\ \A d \in InFlight : overlap'[d] = overlap[d] \cup {c}
      /\ \A d \in Call : d # c => overlap[d] \subseteq overlap'[d]
  BY <1>2 DEF TypeOK, InFlight, Direct
<1>4. OverlapInv'
  BY <1>2, <1>3 DEF OverlapInv
<1>5. SourceInv'
  BY <1>2 DEF SourceInv, With, Own
<1>6. RequestInv'
  BY <1>2, <1>3 DEF RequestInv, From, TypeOK, Empty, Direct
<1>7. AloneInv'
  <2> SUFFICES ASSUME NEW d \in InFlight', overlap'[d] = {}
               PROVE  /\ pc'[d] = "before" => source' = Own(d)
                      /\ pc'[d] \in {"waiting", "failed"} => request'[Shared] = Own(d)
                      /\ pc'[d] \in {"waiting", "failed", "finally"} => sent'[d] = Own(d)
    BY DEF AloneInv, Own
  <2>1. d = c /\ InFlight = {}
    BY <1>2, <1>3
  <2>2. source.params = {} /\ source.headers = {}
    BY <2>1 DEF SourceInv
  <2>3. With(c) = Own(c)
    BY <2>2 DEF With, Own
  <2> QED BY <2>1, <2>3 DEF TypeOK, Direct
<1>8. CountInv'
  BY DEF CountInv, TypeOK
<1>9. HttpInv'
  <2>1. \A d \in Facade : pc'[d] = pc[d]
    BY DEF Direct, TypeOK
  <2>2. Made' = Made
    BY <2>1 DEF Made
  <2> QED BY <2>1, <2>2 DEF HttpInv, FacadeSendsAllSoFar
<1> QED BY <1>1, <1>4, <1>5, <1>6, <1>7, <1>8, <1>9

(* BeginHttp: the data source and its Request see nothing of it.           *)
LEMMA BeginHttpInv == ASSUME IInv, NEW c \in Call, BeginHttp(c) PROVE IInv'
<1> USE DEF IInv, BeginHttp, Goto, Put
<1>1. WithHttp(c) \in Fields /\ RequestOf(c) = c /\ c # Shared
  BY OwnFields DEF WithHttp, Own, Fields, TypeOK, RequestOf
<1>2. TypeOK'
  BY <1>1 DEF TypeOK
<1>3. InFlight' = InFlight
  BY DEF InFlight, Direct, TypeOK
<1>4. request'[Shared] = request[Shared] /\ \A d \in Direct : d # c
  BY <1>1 DEF TypeOK, Direct
<1>5. OverlapInv' /\ SourceInv'
  BY <1>3 DEF OverlapInv, SourceInv
<1>6. RequestInv'
  BY <1>4 DEF RequestInv, From, TypeOK, Direct, Empty
<1>7. AloneInv'
  BY <1>3, <1>4 DEF AloneInv, InFlight, Direct, TypeOK, Own
<1>8. CountInv'
  BY DEF CountInv, TypeOK
<1>9. HttpInv'
  <2>1. Made' = Made \cup {c} /\ c \in Facade /\ c \notin Made
    BY DEF Made, TypeOK
  <2>2. earlier'[c] = Made
    BY DEF Made, TypeOK
  <2>3. sent'[c] = WithHttp(c) /\ request'[c] = WithHttp(c) /\ http' = WithHttp(c)
    BY <1>1, <2>1 DEF TypeOK
  <2>4. \A d \in Facade : d # c => /\ sent'[d] = sent[d] /\ request'[d] = request[d]
                                   /\ earlier'[d] = earlier[d] /\ pc'[d] = pc[d]
    BY <1>1, <2>1 DEF TypeOK
  <2>5. WithHttp(c).params = Querying \cap Made'
    BY <2>1 DEF WithHttp, Own, HttpInv
  <2>6. WithHttp(c).headers \in {{}} \cup {{d} : d \in Made'}
    BY <2>1 DEF WithHttp, HttpInv
  <2>7. c \in Labelling => WithHttp(c).headers = {c}
    BY DEF WithHttp
  <2>8. FacadeSendsAllSoFar'
    <3>1. /\ sent'[c].params = Querying \cap (earlier'[c] \cup {c})
          /\ sent'[c].headers \in {{}} \cup {{d} : d \in earlier'[c] \cup {c}}
          /\ c \in Labelling => sent'[c].headers = {c}
      BY <2>1, <2>2, <2>3, <2>5, <2>6, <2>7
    <3>2. ASSUME NEW d \in Facade, d # c, pc'[d] # "idle"
          PROVE  /\ sent'[d].params = Querying \cap (earlier'[d] \cup {d})
                 /\ sent'[d].headers \in {{}} \cup {{f} : f \in earlier'[d] \cup {d}}
                 /\ d \in Labelling => sent'[d].headers = {d}
      <4>1. /\ sent'[d] = sent[d] /\ earlier'[d] = earlier[d] /\ pc[d] # "idle"
        BY <2>4, <3>2
      <4>2. /\ sent[d].params = Querying \cap (earlier[d] \cup {d})
            /\ sent[d].headers \in {{}} \cup {{f} : f \in earlier[d] \cup {d}}
            /\ d \in Labelling => sent[d].headers = {d}
        BY <4>1, Zenon DEF FacadeSendsAllSoFar, HttpInv
      <4> HIDE DEF IInv, BeginHttp
      <4> QED BY <4>1, <4>2, Zenon
    <3>3. ASSUME NEW d \in Facade, pc'[d] # "idle"
          PROVE  /\ sent'[d].params = Querying \cap (earlier'[d] \cup {d})
                 /\ sent'[d].headers \in {{}} \cup {{f} : f \in earlier'[d] \cup {d}}
                 /\ d \in Labelling => sent'[d].headers = {d}
      <4>1. CASE d = c
        BY <3>1, <4>1
      <4> QED BY <3>2, <3>3, <4>1
    <3> QED BY <3>3 DEF FacadeSendsAllSoFar
  <2>9. \A d \in Facade : /\ pc'[d] \notin {"before", "finally"}
                          /\ pc'[d] # "idle" => /\ request'[d] = sent'[d]
                                                /\ earlier'[d] \subseteq Made'
    BY <2>1, <2>2, <2>3, <2>4 DEF HttpInv, TypeOK
  <2> QED BY <2>3, <2>5, <2>6, <2>8, <2>9 DEF HttpInv
<1> QED BY <1>2, <1>5, <1>6, <1>7, <1>8, <1>9

(* Send: what is copied belongs to calls in flight.                        *)
LEMMA SendInv == ASSUME IInv, NEW c \in Call, Send(c) PROVE IInv'
<1> USE DEF IInv, Send, Goto, Put, ghosts
<1>0. c \in Direct /\ RequestOf(c) = Shared
  BY DEF HttpInv, Direct, RequestOf
<1>1. TypeOK'
  BY <1>0 DEF TypeOK
<1>2. InFlight' = InFlight /\ c \in InFlight
  BY <1>0 DEF InFlight, TypeOK
<1>3. OverlapInv' /\ SourceInv'
  BY <1>2 DEF OverlapInv, SourceInv
<1>4. request'[Shared] = source /\ \A d \in InFlight : From(d, source)
  BY <1>0 DEF From, SourceInv, OverlapInv, TypeOK
<1>5. RequestInv'
  <2> SUFFICES ASSUME NEW d \in Direct
               PROVE  /\ pc'[d] \in {"waiting", "failed"} => From(d, request'[Shared])
                      /\ pc'[d] \in {"idle", "before"} => sent'[d] = Empty
                      /\ From(d, sent'[d])
    BY DEF RequestInv, From, Empty
  <2>1. CASE d = c
    BY <2>1, <1>2, <1>4 DEF TypeOK, Direct
  <2>2. CASE d # c
    BY <2>2, <1>4 DEF TypeOK, RequestInv, InFlight, Direct
  <2> QED BY <2>1, <2>2
<1>6. AloneInv'
  <2> SUFFICES ASSUME NEW d \in InFlight, overlap[d] = {}
               PROVE  /\ pc'[d] = "before" => source = Own(d)
                      /\ pc'[d] \in {"waiting", "failed"} => request'[Shared] = Own(d)
                      /\ pc'[d] \in {"waiting", "failed", "finally"} => sent'[d] = Own(d)
    BY <1>2 DEF AloneInv, Own
  <2>1. d = c
    BY <1>2 DEF OverlapInv
  <2> QED BY <2>1, <1>2, <1>4 DEF AloneInv, TypeOK, Own
<1>7. CountInv'
  BY DEF CountInv, TypeOK
<1>8. HttpInv'
  <2>1. /\ Made' = Made /\ http' = http
        /\ \A d \in Facade : /\ pc'[d] = pc[d] /\ request'[d] = request[d]
                             /\ sent'[d] = sent[d] /\ earlier'[d] = earlier[d]
    BY <1>0 DEF Made, TypeOK, Direct
  <2>2. FacadeSendsAllSoFar'
    BY <2>1 DEF HttpInv, FacadeSendsAllSoFar
  <2> QED BY <2>1, <2>2 DEF HttpInv
<1> QED BY <1>1, <1>3, <1>5, <1>6, <1>7, <1>8

(* An attempt fails or ends the call; after a failure the call ends or is  *)
(* sent again with the fields its Request has.                             *)
LEMMA AttemptInv ==
    ASSUME IInv, NEW c \in Call, pc[c] \in {"waiting", "failed"},
           UNCHANGED <<source, http, request, overlap, earlier>>, losses' \in 0..MaxLost,
           attempt' \in [Call -> 0..RetryTimes],
           reply' \in [Call -> {"none", "response", "error"}],
           lost' \in [Call -> Nat], executed' \in [Call -> Nat],
           \A d \in Call : d # c => lost'[d] = lost[d] /\ executed'[d] = executed[d],
           \/ /\ Ends(c)
              /\ executed'[c] <= lost'[c] + 1
              /\ UNCHANGED sent
           \/ /\ Goto(c, "waiting") \/ Goto(c, "failed")
              /\ Put(c, request[RequestOf(c)]) \/ UNCHANGED sent
              /\ executed'[c] <= lost'[c]
    PROVE  IInv'
<1> USE DEF IInv, Ends, Goto, Put
<1>0. RequestOf(c) \in Facade \cup {Shared}
  BY DEF RequestOf
<1>1. TypeOK'
  BY <1>0 DEF TypeOK
<1>2. InFlight' = InFlight /\ (c \in Direct => c \in InFlight)
  BY DEF InFlight, Direct, TypeOK
<1>3. OverlapInv' /\ SourceInv'
  BY <1>2 DEF OverlapInv, SourceInv
<1>4. c \in Direct => RequestOf(c) = Shared
  BY DEF Direct, RequestOf
<1>5. RequestInv'
  BY <1>4 DEF RequestInv, From, TypeOK, Direct
<1>6. AloneInv'
  <2> SUFFICES ASSUME NEW d \in InFlight, overlap[d] = {}
               PROVE  /\ pc'[d] = "before" => source = Own(d)
                      /\ pc'[d] \in {"waiting", "failed"} => request[Shared] = Own(d)
                      /\ pc'[d] \in {"waiting", "failed", "finally"} => sent'[d] = Own(d)
    BY <1>2 DEF AloneInv, Own
  <2>1. CASE d = c
    BY <2>1, <1>4 DEF AloneInv, TypeOK, InFlight
  <2>2. CASE d # c
    BY <2>2 DEF AloneInv, TypeOK, InFlight, Direct
  <2> QED BY <2>1, <2>2
<1>7. CountInv'
  BY DEF CountInv, TypeOK
<1>8. HttpInv'
  <2>1. Made' = Made
    BY DEF Made, TypeOK
  <2>2. UNCHANGED sent \/ \A d \in Facade : sent'[d] = sent[d]
    BY DEF HttpInv, RequestOf, TypeOK
  <2>3. \A d \in Facade : /\ pc'[d] \notin {"before", "finally"}
                          /\ pc'[d] # "idle" => pc[d] # "idle"
    BY DEF HttpInv, TypeOK
  <2> QED BY <2>1, <2>2, <2>3 DEF HttpInv, FacadeSendsAllSoFar
<1> QED BY <1>1, <1>3, <1>5, <1>6, <1>7, <1>8

(* The outcomes of an attempt and the reaction to a failure are such steps.*)
LEMMA OutcomeInv ==
    ASSUME IInv, NEW c \in Call, Outcome(c) \/ Retry(c) PROVE IInv'
<1>0. /\ executed[c] \in Nat /\ lost[c] \in Nat /\ attempt[c] \in 0..RetryTimes
      /\ pc[c] \in {"waiting", "failed"} => executed[c] <= lost[c]
  BY DEF IInv, TypeOK, CountInv
<1>1. CASE Answer(c)
  BY <1>0, <1>1, AttemptInv DEF Answer, fields, IInv, TypeOK
<1>2. CASE Refused(c)
  BY <1>0, <1>2, AttemptInv DEF Refused, fields, ghosts, IInv, TypeOK
<1>3. CASE TimedOut(c)
  <2>1. /\ lost' \in [Call -> Nat] /\ executed' \in [Call -> Nat]
        /\ \A d \in Call : d # c => lost'[d] = lost[d] /\ executed'[d] = executed[d]
        /\ executed'[c] <= lost'[c]
    BY <1>0, <1>3 DEF TimedOut, IInv, TypeOK
  <2>2. losses' \in 0..MaxLost
    BY <1>3 DEF TimedOut, IInv, TypeOK
  <2> QED BY <1>3, <2>1, <2>2, AttemptInv DEF TimedOut, fields, IInv, TypeOK
<1>4. CASE Retry(c)
  <2>1. /\ attempt' \in [Call -> 0..RetryTimes]
        /\ reply' \in [Call -> {"none", "response", "error"}]
        /\ \/ Ends(c) /\ UNCHANGED sent
           \/ Goto(c, "waiting") /\ Put(c, request[RequestOf(c)])
    BY <1>0, <1>4 DEF Retry, GiveUp, SendAgain, Counted, IInv, TypeOK
  <2>2. pc[c] = "failed" /\ UNCHANGED <<fields, ghosts, losses>>
    BY <1>4 DEF Retry, GiveUp, SendAgain
  <2> QED BY <1>0, <2>1, <2>2, AttemptInv DEF fields, ghosts, IInv, TypeOK
<1> QED BY <1>1, <1>2, <1>3, <1>4 DEF Outcome

(* Finally empties the data source: no call is left that was alone on it.  *)
LEMMA FinallyInv == ASSUME IInv, NEW c \in Call, Finally(c) PROVE IInv'
<1> USE DEF IInv, Finally, Goto, ghosts
<1>1. TypeOK'
  BY DEF TypeOK, Fields, Empty
<1>0. c \in Direct
  BY DEF HttpInv, Direct
<1>2. InFlight' = InFlight \ {c} /\ c \in InFlight
  BY <1>0 DEF InFlight, TypeOK
<1>3. OverlapInv' /\ SourceInv'
  BY <1>2 DEF OverlapInv, SourceInv, Empty
<1>4. RequestInv'
  BY DEF RequestInv, From, TypeOK, Direct
<1>5. AloneInv'
  BY <1>2 DEF AloneInv, OverlapInv, TypeOK
<1>6. CountInv'
  BY DEF CountInv, TypeOK
<1>7. HttpInv'
  BY <1>0 DEF HttpInv, Made, FacadeSendsAllSoFar, TypeOK, Direct
<1> QED BY <1>1, <1>3, <1>4, <1>5, <1>6, <1>7

(* The invariant of the data source.                                       *)
THEOREM Invariance == Spec => []IInv
<1>1. IInv /\ [Next]_vars => IInv'
  <2> SUFFICES ASSUME IInv, [Next]_vars PROVE IInv'
    OBVIOUS
  <2>1. CASE UNCHANGED vars
    <3> USE <2>1 DEF vars, fields, ghosts, IInv
    <3>1. TypeOK'
      BY DEF TypeOK
    <3>2. InFlight' = InFlight
      BY DEF InFlight
    <3>3. OverlapInv' /\ SourceInv' /\ RequestInv'
      BY <3>2 DEF OverlapInv, SourceInv, RequestInv, From
    <3>4. AloneInv' /\ CountInv'
      BY <3>2 DEF AloneInv, CountInv
    <3>5. HttpInv'
      BY DEF HttpInv, Made, FacadeSendsAllSoFar
    <3> QED BY <3>1, <3>3, <3>4, <3>5
  <2>2. CASE Next
    <3> PICK c \in Call : Begin(c) \/ BeginHttp(c) \/ Step(c)
      BY <2>2 DEF Next
    <3> QED BY BeginInv, BeginHttpInv, SendInv, OutcomeInv, FinallyInv DEF Step
  <2> QED BY <2>1, <2>2
<1> QED BY InitInv, <1>1, PTL DEF Spec

(* Types, for any number of calls and retries.                             *)
THEOREM TypeCorrect == Spec => []TypeOK
<1>1. IInv => TypeOK
  BY DEF IInv
<1> QED BY Invariance, <1>1, PTL

(* A request never carries what a call that was over left behind.          *)
THEOREM NothingIsLeftOver == Spec => []NoLeftovers
<1>1. IInv => NoLeftovers
  BY DEF IInv, RequestInv, From, NoLeftovers
<1> QED BY Invariance, <1>1, PTL

(* A call that is alone on the data source sends what it set.              *)
THEOREM AloneIsClean == Spec => []AloneSendsItsOwn
<1>1. IInv => AloneSendsItsOwn
  BY DEF IInv, AloneInv, AloneSendsItsOwn, InFlight, Direct
<1> QED BY Invariance, <1>1, PTL

(* Each attempt of a facade call sends what was set up to that call.       *)
THEOREM FacadeIsFaithful == Spec => []FacadeSendsAllSoFar
<1>1. IInv => FacadeSendsAllSoFar
  BY DEF IInv, HttpInv
<1> QED BY Invariance, <1>1, PTL

(* Only a lost answer lets the server execute a call again.                *)
THEOREM ExecutionsBounded == Spec => []ExecutedOncePerLoss
<1>1. IInv => ExecutedOncePerLoss
  BY DEF IInv, TypeOK, CountInv, ExecutedOncePerLoss
<1> QED BY Invariance, <1>1, PTL
==============================================================================
