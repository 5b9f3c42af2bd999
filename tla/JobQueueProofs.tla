--------------------------- MODULE JobQueueProofs ----------------------------
(***************************************************************************)
(* The inductive invariant of JobQueue and what follows from it: types, the*)
(* attempts of a retry demo, the bound on starts, the clean shutdown, and  *)
(* the finality of a finished job.                                         *)
(***************************************************************************)
EXTENDS JobQueue, TLAPS

USE FailUntilAssumption, ConfigAssumption, RunAssumption, BoundAssumption

(* The lock of a job is the run its counters describe.                     *)
LockOK(j) ==
    /\ job[j].state = "active" <=> job[j].lock # NoRun
    /\ job[j].lock # NoRun =>
          /\ job[j].lock.job = j
          /\ job[j].lock.made = job[j].made /\ job[j].lock.stalls = job[j].stalls

(* Every start has ended in a failed attempt, in a stall or in completion, *)
(* or is under way, and only the last of them may use the counters up.     *)
Budget(j) ==
    /\ started[j] = job[j].made + job[j].stalls +
          (IF job[j].state \in {"active", "completed"} THEN 1 ELSE 0)
    /\ job[j].state = "none" => job[j].made = 0
    /\ IF job[j].state = "failed"
       THEN \/ job[j].made <= job[j].attempts /\ job[j].stalls <= MaxStalls
            \/ job[j].made < job[j].attempts /\ job[j].stalls = MaxStalls + 1
       ELSE job[j].made < job[j].attempts /\ job[j].stalls <= MaxStalls

(* Without a Redis error an attempt fails only below failUntil, which is   *)
(* less than the attempts.                                                 *)
Blame(j) ==
    /\ job[j].failUntil < job[j].attempts
    /\ job[j].made <= job[j].failUntil \/ j \in spoiled
    /\ job[j].state = "failed" => j \in spoiled \/ job[j].stalls > MaxStalls

JobOK(j) == LockOK(j) /\ Budget(j) /\ Blame(j)

(* Without a fault nothing has stalled, and the runs under way are the     *)
(* locks of the active jobs.                                               *)
Clean ==
    faults = 0 => /\ \A j \in Job : job[j].stalls = 0
                  /\ \A j \in Job : job[j].lock # NoRun => job[j].lock \in runs
                  /\ \A x \in runs : job[x.job].lock = x

IInv == TypeOK /\ (\A j \in Job : JobOK(j)) /\ Clean

(* At the start there is no job, no run and no fault.                      *)
LEMMA InitInv == Init => IInv
BY DEF Init, IInv, TypeOK, JobType, JobOK, LockOK, Budget, Blame, Clean, Finished

(* A step that gives job j the record v, and leaves every other job alone, *)
(* has to be looked at for j only.                                         *)
LEMMA OneJob ==
    ASSUME IInv, NEW j \in Job, NEW v \in JobType,
           job' = [job EXCEPT ![j] = v],
           \A i \in Job \ {j} : started'[i] = started[i] /\ (i \in spoiled <=> i \in spoiled')
    PROVE  /\ job' \in [Job -> JobType]
           /\ job'[j] = v
           /\ \A i \in Job \ {j} : job'[i] = job[i] /\ JobOK(i)'
<1>1. /\ job' \in [Job -> JobType] /\ job'[j] = v
      /\ \A i \in Job \ {j} : job'[i] = job[i]
  BY DEF IInv, TypeOK
<1>2. \A i \in Job \ {j} : JobOK(i)'
  BY <1>1 DEF IInv, JobOK, LockOK, Budget, Blame
<1> QED BY <1>1, <1>2

(* A client adds a job that is not on the queue yet.                       *)
LEMMA EnqueueInv ==
    ASSUME IInv, NEW j \in Job, Enqueue(j)
    PROVE  IInv'
<1>1. PICK s \in {"wait", "delayed"}, f \in FailUntil \cup {0}, n \in Nat \ {0} :
          n > f /\ Add(j, s, f, n)
  BY DEF Enqueue, EnqueueImmediate, EnqueueDelayed, EnqueueRetryDemo, RetryAttempts, Max
<1> DEFINE v == [job[j] EXCEPT !.state = s, !.failUntil = f, !.attempts = n]
<1>2. job[j] \in JobType /\ job[j].state = "none"
  BY <1>1 DEF IInv, TypeOK, Add
<1>3. /\ v \in JobType
      /\ v.state = s /\ v.failUntil = f /\ v.attempts = n
      /\ v.made = job[j].made /\ v.stalls = job[j].stalls /\ v.lock = job[j].lock
  BY <1>2 DEF JobType, Finished
<1>4. job' = [job EXCEPT ![j] = v]
  BY <1>1 DEF Add, IInv, TypeOK
<1>5. /\ job' \in [Job -> JobType] /\ job'[j] = v
      /\ \A i \in Job \ {j} : job'[i] = job[i] /\ JobOK(i)'
  BY <1>1, <1>3, <1>4, OneJob DEF Add
<1> HIDE DEF v
<1>6. JobOK(j)'
  <2>0. /\ job[j].lock = NoRun /\ job[j].made = 0 /\ started[j] = job[j].stalls
        /\ job[j].stalls \in Nat /\ job[j].stalls <= MaxStalls
    BY <1>2 DEF IInv, JobOK, LockOK, Budget, JobType
  <2>1. LockOK(j)'
    BY <1>3, <1>5, <2>0 DEF LockOK
  <2>2. Budget(j)'
    BY <1>1, <1>3, <1>5, <2>0 DEF Add, Budget
  <2>3. f \in Nat
    OBVIOUS
  <2>4. Blame(j)'
    BY <1>1, <1>3, <1>5, <2>0, <2>3 DEF Blame
  <2> QED BY <2>1, <2>2, <2>4 DEF JobOK
<1>7. TypeOK'
  BY <1>1, <1>5, <1>6 DEF Add, IInv, TypeOK, JobOK, LockOK
<1>8. Clean'
  BY <1>1, <1>3, <1>5 DEF Add, IInv, TypeOK, Clean, Runs
<1> QED BY <1>5, <1>6, <1>7, <1>8 DEF IInv

(* A delayed job is due.                                                   *)
LEMMA PromoteInv ==
    ASSUME IInv, NEW j \in Job, Promote(j)
    PROVE  IInv'
<1> DEFINE v == [job[j] EXCEPT !.state = "wait"]
<1>1. job[j] \in JobType /\ job[j].state = "delayed"
  BY DEF IInv, TypeOK, Promote
<1>2. /\ v \in JobType /\ v.state = "wait"
      /\ v.failUntil = job[j].failUntil /\ v.attempts = job[j].attempts
      /\ v.made = job[j].made /\ v.stalls = job[j].stalls /\ v.lock = job[j].lock
  BY <1>1 DEF JobType
<1>3. job' = [job EXCEPT ![j] = v]
  BY DEF Promote, IInv, TypeOK
<1>4. /\ job' \in [Job -> JobType] /\ job'[j] = v
      /\ \A i \in Job \ {j} : job'[i] = job[i] /\ JobOK(i)'
  BY <1>2, <1>3, OneJob DEF Promote
<1> HIDE DEF v
<1>5. JobOK(j)'
  BY <1>1, <1>2, <1>4 DEF Promote, IInv, TypeOK, JobType, JobOK, LockOK, Budget, Blame
<1>6. TypeOK'
  BY <1>4 DEF Promote, IInv, TypeOK
<1>7. Clean'
  BY <1>2, <1>4 DEF Promote, IInv, TypeOK, Clean, Runs
<1> QED BY <1>4, <1>5, <1>6, <1>7 DEF IInv

(* A worker takes the job up: the lock is the new run.                     *)
LEMMA FetchInv ==
    ASSUME IInv, NEW j \in Job, FetchJob(j)
    PROVE  IInv'
<1>1. PICK w \in Worker : Fetch(w, j)
  BY DEF FetchJob
<1> DEFINE x == NewRun(w, j)
           v == [job[j] EXCEPT !.state = "active", !.lock = x]
<1>2. job[j] \in JobType /\ job[j].state = "wait" /\ JobOK(j)
  BY <1>1 DEF IInv, TypeOK, Fetch
<1>3. /\ x \in Runs /\ x # NoRun /\ x.job = j
      /\ x.made = job[j].made /\ x.stalls = job[j].stalls
  BY <1>2 DEF NewRun, Runs, JobType
<1>4. /\ v \in JobType /\ v.state = "active" /\ v.lock = x
      /\ v.failUntil = job[j].failUntil /\ v.attempts = job[j].attempts
      /\ v.made = job[j].made /\ v.stalls = job[j].stalls
  BY <1>2, <1>3 DEF JobType
<1>5. job' = [job EXCEPT ![j] = v]
  BY <1>1 DEF Fetch, IInv, TypeOK
<1>6. /\ runs' = runs \cup {x} /\ started' = [started EXCEPT ![j] = started[j] + 1]
      /\ UNCHANGED <<up, spoiled, signals, faults>>
  BY <1>1 DEF Fetch
<1> HIDE DEF v, x
<1>7. /\ job' \in [Job -> JobType] /\ job'[j] = v
      /\ \A i \in Job \ {j} : job'[i] = job[i] /\ JobOK(i)'
  BY <1>4, <1>5, <1>6, OneJob DEF IInv, TypeOK
<1>8. JobOK(j)'
  <2>1. LockOK(j)'
    BY <1>2, <1>3, <1>4, <1>6, <1>7 DEF IInv, TypeOK, JobType, JobOK, LockOK
  <2>2. Budget(j)'
    BY <1>2, <1>3, <1>4, <1>6, <1>7 DEF IInv, TypeOK, JobType, JobOK, LockOK, Budget
  <2>3. Blame(j)'
    BY <1>2, <1>3, <1>4, <1>6, <1>7 DEF IInv, TypeOK, JobType, JobOK, Budget, Blame
  <2> QED BY <2>1, <2>2, <2>3 DEF JobOK
<1>9. TypeOK'
  <2>1. started' \in [Job -> Nat]
    BY <1>6 DEF IInv, TypeOK
  <2> QED BY <1>3, <1>6, <1>7, <2>1 DEF IInv, TypeOK
<1>10. Clean'
  <2>1. ASSUME faults = 0, NEW y \in runs PROVE y.job # j
    <3>1. job[y.job].lock = y /\ y # NoRun
      BY <2>1 DEF IInv, TypeOK, Clean
    <3> QED BY <3>1, <1>2 DEF JobOK, LockOK
  <2> SUFFICES ASSUME faults = 0 PROVE Clean'
    BY <1>6 DEF Clean
  <2>2. \A i \in Job : job'[i].stalls = 0
    BY <1>4, <1>7 DEF IInv, Clean
  <2>3. \A i \in Job : job'[i].lock # NoRun => job'[i].lock \in runs'
    BY <1>4, <1>6, <1>7 DEF IInv, Clean
  <2>4. \A y \in runs' : job'[y.job].lock = y
    BY <1>3, <1>4, <1>6, <1>7, <2>1 DEF IInv, TypeOK, Clean, Runs
  <2> QED BY <2>2, <2>3, <2>4 DEF Clean
<1> QED BY <1>7, <1>8, <1>9, <1>10 DEF IInv

(* The counters of a job are numbers.                                      *)
LEMMA JobNumbers ==
    ASSUME NEW v \in JobType
    PROVE  v.made \in Nat /\ v.stalls \in Nat /\ v.failUntil \in Nat /\ v.attempts \in Nat \ {0}
<1>1. v.made \in Nat /\ v.stalls \in Nat /\ v.failUntil \in FailUntil \cup {0}
      /\ v.attempts \in Nat \ {0}
  BY DEF JobType
<1>2. \A n \in FailUntil \cup {0} : n \in Nat
  OBVIOUS
<1> QED BY <1>1, <1>2

(* What the end of a run may make of its job, if the run still holds it:   *)
(* completed, or one attempt more that is not blamed on failUntil alone.   *)
Outcome(j, v) ==
    /\ v \in JobType /\ v.lock = NoRun /\ v.stalls = job[j].stalls
    /\ v.failUntil = job[j].failUntil /\ v.attempts = job[j].attempts
    /\ \/ v.state = "completed" /\ v.made = job[j].made
       \/ /\ v.made = job[j].made + 1
          /\ v.state = IF job[j].made + 1 < job[j].attempts THEN "delayed" ELSE "failed"
          /\ job[j].made < job[j].failUntil \/ j \in spoiled'

(* The end of a run, by success or failure.                                *)
LEMMA LeaveInv ==
    ASSUME IInv, NEW x \in runs, NEW v, Leave(x, v),
           Holds(x) => Outcome(x.job, v),
           UNCHANGED <<up, started, signals>>,
           spoiled' \in {spoiled, spoiled \cup {x.job}},
           faults' \in 0..MaxFaults, faults' >= faults
    PROVE  IInv'
<1>1. PICK j \in Job : j = x.job
  BY DEF IInv, TypeOK, Runs
<1>2. x \in Runs /\ x.job \in Job /\ x # NoRun
  BY DEF IInv, TypeOK, Runs
<1>3. runs' = runs \ {x} /\ runs' \subseteq Runs /\ spoiled' \subseteq Job /\ spoiled \subseteq spoiled'
  BY <1>2 DEF Leave, IInv, TypeOK
<1>4. started' = started /\ started \in [Job -> Nat]
  BY DEF IInv, TypeOK
<1>5. \A i \in Job \ {x.job} : i \in spoiled <=> i \in spoiled'
  OBVIOUS
<1>6. faults' = 0 => faults = 0
  BY DEF IInv, TypeOK
<1>7. CASE ~Holds(x)
  <2>1. job' = job
    BY <1>7 DEF Leave
  <2>2. faults' # 0
    BY <1>6, <1>7 DEF IInv, Clean, Holds
  <2>3. \A i \in Job : JobOK(i)'
    BY <1>3, <2>1 DEF IInv, JobOK, LockOK, Budget, Blame
  <2> QED BY <1>3, <2>1, <2>2, <2>3 DEF IInv, TypeOK, Clean
<1>8. CASE Holds(x)
  <2>1. Outcome(j, v) /\ v \in JobType /\ job' = [job EXCEPT ![j] = v]
    BY <1>1, <1>8 DEF Leave, Outcome
  <2>2. /\ job' \in [Job -> JobType] /\ job'[j] = v
        /\ \A i \in Job \ {j} : job'[i] = job[i] /\ JobOK(i)'
    BY <1>1, <2>1, <1>4, OneJob, <1>5
  <2>3. /\ job[j] \in JobType /\ job[j].state = "active" /\ job[j].lock = x /\ JobOK(j)
    BY <1>1, <1>2, <1>8 DEF Holds, IInv, TypeOK, JobOK, LockOK
  <2>4. /\ job[j].made \in Nat /\ job[j].stalls \in Nat /\ job[j].attempts \in Nat \ {0}
        /\ job[j].failUntil \in Nat /\ started[j] \in Nat /\ started'[j] = started[j]
    <3>1. /\ job[j].made \in Nat /\ job[j].stalls \in Nat /\ job[j].attempts \in Nat \ {0}
          /\ job[j].failUntil \in Nat
      BY <2>3, JobNumbers
    <3>2. started[j] \in Nat /\ started'[j] = started[j]
      BY <1>1, <1>4
    <3> QED BY <3>1, <3>2
  <2>5. LockOK(j)'
    BY <2>1, <2>2 DEF Outcome, LockOK
  <2>6. Budget(j)'
    <3>1. /\ job[j].made < job[j].attempts /\ job[j].stalls <= MaxStalls
          /\ started[j] = job[j].made + job[j].stalls + 1
      BY <2>3 DEF JobOK, Budget
    <3>2. CASE v.state = "completed" /\ v.made = job[j].made
      <4>1. /\ job'[j].state = "completed" /\ job'[j].made = job[j].made
            /\ job'[j].stalls = job[j].stalls /\ job'[j].attempts = job[j].attempts
        BY <2>1, <2>2, <3>2 DEF Outcome
      <4> QED BY <2>4, <3>1, <4>1 DEF Budget
    <3>3. CASE /\ v.made = job[j].made + 1
               /\ v.state = IF job[j].made + 1 < job[j].attempts THEN "delayed" ELSE "failed"
      <4>1. /\ job'[j].made = job[j].made + 1 /\ job'[j].stalls = job[j].stalls
            /\ job'[j].state = IF job[j].made + 1 < job[j].attempts THEN "delayed" ELSE "failed"
            /\ job'[j].attempts = job[j].attempts
        BY <2>1, <2>2, <3>3 DEF Outcome
      <4> QED BY <2>4, <3>1, <4>1 DEF Budget
    <3> QED BY <2>1, <3>2, <3>3 DEF Outcome
  <2>7. Blame(j)'
    BY <1>1, <1>3, <2>4, <2>1, <2>2, <2>3 DEF Outcome, JobOK, Blame, Budget
  <2>8. TypeOK'
    BY <1>3, <2>2 DEF IInv, TypeOK
  <2>9. Clean'
    <3> SUFFICES ASSUME faults = 0 PROVE Clean'
      BY <1>6 DEF Clean
    <3>1. \A i \in Job : job'[i].stalls = 0
      BY <1>2, <2>1, <2>2 DEF IInv, Clean, Outcome
    <3>2. ASSUME NEW i \in Job, job'[i].lock # NoRun PROVE job'[i].lock \in runs'
      <4>1. i # j
        BY <2>1, <2>2, <3>2 DEF Outcome
      <4>2. job[i].lock \in runs /\ job[i].lock.job = i
        BY <2>2, <3>2, <4>1 DEF IInv, Clean, JobOK, LockOK
      <4> QED BY <1>1, <1>3, <2>2, <4>1, <4>2
    <3>3. ASSUME NEW y \in runs' PROVE job'[y.job].lock = y
      <4>1. y \in runs /\ y # x /\ y.job \in Job /\ job[y.job].lock = y
        BY <1>3, <3>3 DEF IInv, Clean, Runs
      <4>2. y.job # j
        BY <2>3, <4>1
      <4> QED BY <2>2, <4>1, <4>2
    <3> QED BY <3>1, <3>2, <3>3 DEF Clean
  <2> QED BY <2>2, <2>5, <2>6, <2>7, <2>8, <2>9 DEF IInv, JobOK
<1> QED BY <1>7, <1>8

(* Unlocked changes the state and the lock of a job, and nothing else.     *)
LEMMA UnlockedFields ==
    ASSUME NEW j \in Job, job[j] \in JobType,
           NEW s \in {"none", "delayed", "wait", "active"} \cup Finished
    PROVE  /\ Unlocked(j, s) \in JobType
           /\ Unlocked(j, s).state = s /\ Unlocked(j, s).lock = NoRun
           /\ Unlocked(j, s).failUntil = job[j].failUntil
           /\ Unlocked(j, s).attempts = job[j].attempts
           /\ Unlocked(j, s).made = job[j].made /\ Unlocked(j, s).stalls = job[j].stalls
BY DEF Unlocked, JobType

(* A failed attempt has an outcome the lemma allows.                       *)
LEMMA AttemptOutcome ==
    ASSUME IInv, NEW j \in Job, job[j].made < job[j].failUntil \/ j \in spoiled'
    PROVE  Outcome(j, Attempt(j))
<1>1. job[j] \in JobType
  BY DEF IInv, TypeOK
<1> DEFINE s == IF job[j].made + 1 < job[j].attempts THEN "delayed" ELSE "failed"
           u == Unlocked(j, s)
<1>2. /\ u \in JobType /\ u.state = s /\ u.lock = NoRun /\ u.stalls = job[j].stalls
      /\ u.failUntil = job[j].failUntil /\ u.attempts = job[j].attempts /\ u.made = job[j].made
  BY <1>1, UnlockedFields DEF Finished
<1>3. Attempt(j) = [u EXCEPT !.made = @ + 1]
  BY DEF Attempt
<1> HIDE DEF u
<1> QED BY <1>1, <1>2, <1>3 DEF Outcome, JobType

(* A run throws, completes or meets a Redis error.                         *)
LEMMA RunInv ==
    ASSUME IInv, NEW x \in runs, Throw(x) \/ Complete(x) \/ RunError(x) \/ SettleError(x)
    PROVE  IInv'
<1>1. x \in Runs /\ x.job \in Job /\ job[x.job] \in JobType /\ faults \in 0..MaxFaults
  BY DEF IInv, TypeOK, Runs
<1>2. Holds(x) => x.made = job[x.job].made
  BY <1>1 DEF Holds, IInv, JobOK, LockOK
<1>3. CASE Throw(x)
  <2>1. Holds(x) => Outcome(x.job, Attempt(x.job))
    BY <1>1, <1>2, <1>3, AttemptOutcome DEF Throw
  <2> QED BY <1>1, <1>3, <2>1, LeaveInv DEF Throw
<1>4. CASE Complete(x)
  <2>1. Outcome(x.job, Unlocked(x.job, "completed"))
    BY <1>1 DEF Outcome, Unlocked, JobType, Finished
  <2> QED BY <1>1, <1>4, <2>1, LeaveInv DEF Complete
<1>5. CASE RunError(x)
  <2>1. Outcome(x.job, Attempt(x.job))
    BY <1>1, <1>5, AttemptOutcome DEF RunError
  <2>2. faults' \in 0..MaxFaults /\ faults' >= faults
    BY <1>1, <1>5 DEF RunError, Fault
  <2> QED BY <1>1, <1>5, <2>1, <2>2, LeaveInv DEF RunError
<1>6. CASE SettleError(x)
  <2>1. faults' \in 0..MaxFaults /\ faults' # 0
    BY <1>1, <1>6 DEF SettleError, Fault
  <2> QED BY <1>6, <2>1 DEF SettleError, IInv, TypeOK, JobOK, LockOK, Budget, Blame, Clean
<1> QED BY <1>3, <1>4, <1>5, <1>6

(* The lock of a job is taken from it: only after a fault, since without   *)
(* one every lock is a run under way.                                      *)
LEMMA StallInv ==
    ASSUME IInv, NEW j \in Job, Recover(j) \/ LoseLock(j)
    PROVE  IInv'
<1> DEFINE next == IF job[j].stalls >= MaxStalls THEN "failed" ELSE "wait"
           u == Unlocked(j, next)
           v == [u EXCEPT !.stalls = @ + 1]
<1>1. job[j] \in JobType /\ job[j].state = "active" /\ JobOK(j)
  BY DEF IInv, TypeOK, Recover, LoseLock, Stall
<1>2. /\ v \in JobType /\ v.state = next /\ v.lock = NoRun /\ v.stalls = job[j].stalls + 1
      /\ v.failUntil = job[j].failUntil /\ v.attempts = job[j].attempts /\ v.made = job[j].made
  <2>1. /\ u \in JobType /\ u.state = next /\ u.lock = NoRun /\ u.stalls = job[j].stalls
        /\ u.failUntil = job[j].failUntil /\ u.attempts = job[j].attempts /\ u.made = job[j].made
    BY <1>1, UnlockedFields DEF Finished
  <2> HIDE DEF u
  <2> QED BY <2>1 DEF JobType
<1>3. /\ job' = [job EXCEPT ![j] = v]
      /\ UNCHANGED <<runs, up, started, spoiled, signals>>
  BY DEF Recover, LoseLock, Stall, IInv, TypeOK
<1>4. faults' \in 0..MaxFaults /\ faults' # 0
  BY <1>1 DEF Recover, LoseLock, Fault, IInv, TypeOK, Clean, JobOK, LockOK
<1> HIDE DEF v
<1>5. /\ job' \in [Job -> JobType] /\ job'[j] = v
      /\ \A i \in Job \ {j} : job'[i] = job[i] /\ JobOK(i)'
  BY <1>2, <1>3, OneJob
<1>6. JobOK(j)'
  <2>1. /\ started[j] = job[j].made + job[j].stalls + 1 /\ job[j].made \in Nat
        /\ job[j].stalls \in Nat /\ job[j].attempts \in Nat
        /\ job[j].made < job[j].attempts /\ job[j].stalls <= MaxStalls /\ started' = started
    BY <1>1, <1>3 DEF JobOK, Budget, JobType
  <2>2. LockOK(j)'
    BY <1>2, <1>5 DEF LockOK
  <2>3. Budget(j)'
    BY <1>2, <1>5, <2>1 DEF Budget
  <2>4. Blame(j)'
    BY <1>1, <1>2, <1>3, <1>5, <2>1 DEF JobOK, Blame
  <2> QED BY <2>2, <2>3, <2>4 DEF JobOK
<1> QED BY <1>3, <1>4, <1>5, <1>6 DEF IInv, TypeOK, Clean

(* Signals, exits, crashes and restarts of a worker.                       *)
LEMMA WorkerInv ==
    ASSUME IInv, NEW w \in Worker, Signal(w) \/ Exit(w) \/ Crash(w) \/ Restart(w)
    PROVE  IInv'
<1>1. UNCHANGED <<job, started, spoiled>>
  BY DEF Signal, Exit, Crash, Restart
<1>2. \A i \in Job : JobOK(i)'
  BY <1>1 DEF IInv, JobOK, LockOK, Budget, Blame
<1>3. TypeOK'
  BY DEF Signal, Exit, Crash, Restart, Fault, IInv, TypeOK
<1>4. Clean'
  BY <1>1 DEF Signal, Exit, Crash, Restart, Fault, IInv, TypeOK, Clean
<1> QED BY <1>2, <1>3, <1>4 DEF IInv

(* The invariant is inductive.                                             *)
THEOREM Invariance == Spec => []IInv
<1>1. ASSUME IInv, [Next]_vars PROVE IInv'
  <2>1. CASE UNCHANGED vars
    BY <1>1, <2>1 DEF vars, IInv, TypeOK, JobOK, LockOK, Budget, Blame, Clean
  <2>2. ASSUME NEW j \in Job, Enqueue(j) \/ Promote(j) \/ FetchJob(j) \/ Recover(j) \/ LoseLock(j)
        PROVE  IInv'
    BY <1>1, <2>2, EnqueueInv, PromoteInv, FetchInv, StallInv
  <2>3. ASSUME NEW j \in Job, RunJob(j) PROVE IInv'
    BY <1>1, <2>3, RunInv DEF RunJob
  <2>4. ASSUME NEW x \in runs, RunError(x) \/ SettleError(x) PROVE IInv'
    BY <1>1, <2>4, RunInv
  <2>5. ASSUME NEW w \in Worker, Signal(w) \/ Exit(w) \/ Crash(w) \/ Restart(w) PROVE IInv'
    BY <1>1, <2>5, WorkerInv
  <2> QED BY <1>1, <2>1, <2>2, <2>3, <2>4, <2>5 DEF Next
<1> QED BY <1>1, InitInv, PTL DEF Spec

(* Every variable keeps its type.                                          *)
THEOREM TypeCorrect == Spec => []TypeOK
BY Invariance, PTL DEF IInv

(* RetriesSuffice, for any number of jobs, workers, attempts and failures. *)
THEOREM RetryDemoCompletes == Spec => []RetriesSuffice
<1>1. IInv => RetriesSuffice
  BY DEF IInv, JobOK, Blame, RetriesSuffice
<1> QED BY <1>1, Invariance, PTL

(* StartsBounded, for any number of jobs, workers, attempts and failures.  *)
THEOREM StartsStayBounded == Spec => []StartsBounded
<1>1. ASSUME IInv, NEW j \in Job PROVE started[j] <= job[j].attempts + MaxStalls
  <2>1. job[j] \in JobType /\ started[j] \in Nat /\ Budget(j)
    BY <1>1 DEF IInv, TypeOK, JobOK
  <2> QED BY <2>1 DEF Budget, JobType
<1>2. IInv => StartsBounded
  BY <1>1 DEF StartsBounded
<1> QED BY <1>2, Invariance, PTL

(* CleanShutdown, for any number of workers and signals.                   *)
THEOREM ShutdownIsClean == Spec => []CleanShutdown
<1>1. IInv => CleanShutdown
  BY DEF IInv, Clean, CleanShutdown
<1> QED BY <1>1, Invariance, PTL

(* FinishedForGood: no step touches the record of a finished job, because  *)
(* a finished job has no lock and a run without the lock changes nothing.  *)
THEOREM FinishedStaysFinished == Spec => FinishedForGood
<1>1. ASSUME IInv, [Next]_vars, NEW j \in Job, job[j].state \in Finished
      PROVE  job'[j] = job[j]
  <2>1. job \in [Job -> JobType] /\ job[j].lock = NoRun
    BY <1>1 DEF IInv, TypeOK, JobOK, LockOK, Finished
  <2>2. ASSUME NEW i \in Job, Enqueue(i) \/ Promote(i) \/ FetchJob(i) \/ Recover(i) \/ LoseLock(i)
        PROVE  job'[j] = job[j]
    <3>1. i # j
      BY <1>1, <2>2 DEF Finished, Enqueue, EnqueueImmediate, EnqueueDelayed, EnqueueRetryDemo,
                        Add, Promote, FetchJob, Fetch, Recover, LoseLock, Stall
    <3> QED BY <2>1, <2>2, <3>1 DEF Enqueue, EnqueueImmediate, EnqueueDelayed, EnqueueRetryDemo,
                        Add, Promote, FetchJob, Fetch, Recover, LoseLock, Stall
  <2>3. ASSUME NEW x \in runs, Throw(x) \/ Complete(x) \/ RunError(x) \/ SettleError(x)
        PROVE  job'[j] = job[j]
    <3>1. x.job = j => ~Holds(x)
      BY <1>1, <2>1 DEF Holds, IInv, TypeOK
    <3> QED BY <2>1, <2>3, <3>1 DEF Throw, Complete, RunError, SettleError, Leave
  <2>4. ASSUME NEW w \in Worker, Signal(w) \/ Exit(w) \/ Crash(w) \/ Restart(w)
        PROVE  job'[j] = job[j]
    BY <2>4 DEF Signal, Exit, Crash, Restart
  <2>5. CASE UNCHANGED vars
    BY <2>5 DEF vars
  <2> QED BY <1>1, <2>2, <2>3, <2>4, <2>5 DEF Next, RunJob
<1>2. IInv /\ [Next]_vars => [\A j \in Job : job[j].state \in Finished => job'[j] = job[j]]_vars
  BY <1>1
<1> QED BY <1>2, Invariance, PTL DEF Spec, FinishedForGood
==============================================================================
