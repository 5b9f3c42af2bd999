------------------------------- MODULE JobQueue -------------------------------
(***************************************************************************)
(* The example background jobs: the API puts jobs on a BullMQ queue, worker*)
(* processes run them, with retries after a failure, a lock that each run  *)
(* has to hold, recovery of the jobs of a dead worker and a shutdown that  *)
(* waits for the jobs under way.  What BullMQ does is modelled from how    *)
(* the service and the worker use it; a job is one record in Redis.        *)
(***************************************************************************)
EXTENDS Naturals, FiniteSets

CONSTANTS
    Job,               \* jobs that may be put on the queue
    Worker,            \* worker processes
    NoRun,             \* the lock of a job nobody runs
    FailUntil,         \* the failUntilAttempt values clients send (1..10 in the code)
    DefaultAttempts,   \* BULLMQ_DEFAULT_ATTEMPTS
    Concurrency,       \* BULLMQ_DEFAULT_WORKER_CONCURRENCY
    MaxStalls,         \* BullMQ's maxStalledCount, 1 unless configured
    MaxSignals,        \* bound: SIGTERMs and SIGINTs sent to workers
    MaxFaults          \* bound: Redis calls that err, crashes, locks lost by a live run

ASSUME FailUntilAssumption == FailUntil \subseteq Nat \ {0}
ASSUME ConfigAssumption ==
    DefaultAttempts \in Nat \ {0} /\ Concurrency \in Nat \ {0} /\ MaxStalls \in Nat
(* A run is told from every other run of its job by the attempts and the   *)
(* stalls it found: each run ends by adding to one of them.                *)
Runs == [worker : Worker, job : Job, made : Nat, stalls : Nat]
ASSUME RunAssumption == NoRun \notin Runs
ASSUME BoundAssumption == MaxSignals \in Nat /\ MaxFaults \in Nat

VARIABLES
    job,        \* Redis: per job, its record
    runs,       \* the runs under way in the worker processes
    up,         \* per worker: "running", "closing" (signalled) or "down"
    started,    \* ghost: per job, how often a worker started it
    spoiled,    \* ghost: the jobs that failed an attempt because of a Redis error
    signals, faults

vars == <<job, runs, up, started, spoiled, signals, faults>>

Max(m, n)  == IF m >= n THEN m ELSE n
Fault      == faults < MaxFaults /\ faults' = faults + 1
Finished   == {"completed", "failed"}
RunsOf(w)  == {x \in runs : x.worker = w}
NewRun(w, j) == [worker |-> w, job |-> j, made |-> job[j].made, stalls |-> job[j].stalls]

Init ==
    /\ job = [j \in Job |-> [state |-> "none", failUntil |-> 0, attempts |-> DefaultAttempts,
                             made |-> 0, stalls |-> 0, lock |-> NoRun]]
    /\ runs = {} /\ up = [w \in Worker |-> "running"]
    /\ started = [j \in Job |-> 0] /\ spoiled = {}
    /\ signals = 0 /\ faults = 0

(***************************************************************************)
(* The API: ExampleBackgroundJobService.                                   *)
(***************************************************************************)
Add(j, state, failUntil, attempts) ==
    /\ job[j].state = "none"
    /\ job' = [job EXCEPT ![j].state = state, ![j].failUntil = failUntil,
                          ![j].attempts = attempts]
    /\ UNCHANGED <<runs, up, started, spoiled, signals, faults>>

EnqueueImmediate(j) == Add(j, "wait", 0, DefaultAttempts)
EnqueueDelayed(j)   == Add(j, "delayed", 0, DefaultAttempts)

(* Mutant: one attempt too few.                                            *)
RetryAttemptsShort(f) == Max(DefaultAttempts, f)

RetryAttempts(f) == Max(DefaultAttempts, f + 1)
EnqueueRetryDemo(j, f) == Add(j, "wait", f, RetryAttempts(f))

(* A delay or a backoff is over.                                           *)
Promote(j) ==
    /\ job[j].state = "delayed"
    /\ job' = [job EXCEPT ![j].state = "wait"]
    /\ UNCHANGED <<runs, up, started, spoiled, signals, faults>>

(***************************************************************************)
(* A worker process.                                                       *)
(***************************************************************************)
Fetch(w, j) ==
    /\ up[w] = "running" /\ Cardinality(RunsOf(w)) < Concurrency
    /\ job[j].state = "wait"
    /\ job' = [job EXCEPT ![j].state = "active", ![j].lock = NewRun(w, j)]
    /\ runs' = runs \cup {NewRun(w, j)}
    /\ started' = [started EXCEPT ![j] = @ + 1]
    /\ UNCHANGED <<up, spoiled, signals, faults>>

(* Mutant: the outcome of a run that lost its lock counts.                 *)
LeaveAnyway(x, outcome) ==
    /\ runs' = runs \ {x}
    /\ job' = [job EXCEPT ![x.job] = outcome]

(* The run is over; its outcome counts only while the run holds the lock.  *)
Holds(x) == job[x.job].lock = x
Leave(x, outcome) ==
    /\ runs' = runs \ {x}
    /\ job' = IF Holds(x) THEN [job EXCEPT ![x.job] = outcome] ELSE job

Unlocked(j, state) == [job[j] EXCEPT !.state = state, !.lock = NoRun]

(* Mutant: a failed attempt is retried without being counted.              *)
AttemptUncounted(j) == Unlocked(j, "delayed")

(* A failed attempt: retried after a backoff while attempts are left.      *)
Attempt(j) ==
    [Unlocked(j, IF job[j].made + 1 < job[j].attempts THEN "delayed" ELSE "failed")
        EXCEPT !.made = @ + 1]

(* The simulated failure of a job that has not had enough attempts.        *)
Throw(x) ==
    /\ x \in runs /\ x.made < job[x.job].failUntil
    /\ Leave(x, Attempt(x.job))
    /\ UNCHANGED <<up, started, spoiled, signals, faults>>

Complete(x) ==
    /\ x \in runs /\ x.made >= job[x.job].failUntil
    /\ Leave(x, Unlocked(x.job, "completed"))
    /\ UNCHANGED <<up, started, spoiled, signals, faults>>

(* updateProgress or the move to completed errs: the attempt has failed.   *)
RunError(x) ==
    /\ x \in runs
    /\ Fault
    /\ Leave(x, Attempt(x.job))
    /\ spoiled' = spoiled \cup {x.job}
    /\ UNCHANGED <<up, started, signals>>

(* The outcome cannot be stored: the job stays active, its lock unrenewed. *)
SettleError(x) ==
    /\ x \in runs
    /\ Fault
    /\ runs' = runs \ {x}
    /\ UNCHANGED <<job, up, started, spoiled, signals>>

(* The stalled check of any live worker takes a job whose lock has expired *)
(* away from its run, back to the queue or, the second time, to failed.    *)
Stall(j) ==
    LET next == IF job[j].stalls >= MaxStalls THEN "failed" ELSE "wait"
    IN  /\ job[j].state = "active"
        /\ \E w \in Worker : up[w] = "running"
        /\ job' = [job EXCEPT ![j] = [Unlocked(j, next) EXCEPT !.stalls = @ + 1]]
        /\ UNCHANGED <<runs, up, started, spoiled, signals>>

(* The run is gone, and the lock it no longer renews expires.              *)
Recover(j) == job[j].lock \notin runs /\ Stall(j) /\ UNCHANGED faults

(* The run is alive, and could not renew its lock in time.                 *)
LoseLock(j) == job[j].lock \in runs /\ Stall(j) /\ Fault

Signal(w) ==
    /\ up[w] = "running" /\ signals < MaxSignals
    /\ signals' = signals + 1
    /\ up' = [up EXCEPT ![w] = "closing"]
    /\ UNCHANGED <<job, runs, started, spoiled, faults>>

(* Mutant: process.exit without the await of closeResources.               *)
ExitAtOnce(w) ==
    /\ up[w] = "closing"
    /\ up' = [up EXCEPT ![w] = "down"]
    /\ runs' = runs \ RunsOf(w)
    /\ UNCHANGED <<job, started, spoiled, signals, faults>>

(* Mutant: no process.exit after closeResources.                           *)
ExitLingers(w) ==
    /\ up[w] = "closing" /\ RunsOf(w) = {}
    /\ up' = [up EXCEPT ![w] = "closed"]
    /\ UNCHANGED <<job, runs, started, spoiled, signals, faults>>

(* worker.close resolves when no run is under way; then the process exits. *)
Exit(w) ==
    /\ up[w] = "closing" /\ RunsOf(w) = {}
    /\ up' = [up EXCEPT ![w] = "down"]
    /\ UNCHANGED <<job, runs, started, spoiled, signals, faults>>

Crash(w) ==
    /\ up[w] # "down"
    /\ Fault
    /\ up' = [up EXCEPT ![w] = "down"]
    /\ runs' = runs \ RunsOf(w)
    /\ UNCHANGED <<job, started, spoiled, signals>>

Restart(w) ==
    /\ up[w] = "down"
    /\ up' = [up EXCEPT ![w] = "running"]
    /\ UNCHANGED <<job, runs, started, spoiled, signals, faults>>

Enqueue(j) ==
    \/ EnqueueImmediate(j) \/ EnqueueDelayed(j)
    \/ \E f \in FailUntil : EnqueueRetryDemo(j, f)
FetchJob(j) == \E w \in Worker : Fetch(w, j)
RunJob(j)   == \E x \in runs : x.job = j /\ (Throw(x) \/ Complete(x))

Next ==
    \/ \E j \in Job : Enqueue(j) \/ Promote(j) \/ FetchJob(j) \/ RunJob(j)
                      \/ Recover(j) \/ LoseLock(j)
    \/ \E x \in runs : RunError(x) \/ SettleError(x)
    \/ \E w \in Worker : Signal(w) \/ Exit(w) \/ Crash(w) \/ Restart(w)

Spec == Init /\ [][Next]_vars

(* BullMQ promotes delayed jobs and checks for stalled ones periodically,  *)
(* an idle worker fetches, a run ends, a worker that exited is started     *)
(* again by whatever deploys it.                                           *)
FairSpec ==
    /\ Spec
    /\ \A j \in Job : /\ WF_vars(Promote(j)) /\ WF_vars(FetchJob(j))
                      /\ WF_vars(RunJob(j)) /\ WF_vars(Recover(j))
    /\ \A w \in Worker : WF_vars(Exit(w)) /\ WF_vars(Restart(w))

-----------------------------------------------------------------------------
JobType == [state : {"none", "delayed", "wait", "active"} \cup Finished,
            failUntil : FailUntil \cup {0}, attempts : Nat \ {0},
            made : Nat, stalls : Nat, lock : Runs \cup {NoRun}]

(* Every variable holds what the code can put in it.                       *)
TypeOK ==
    /\ job \in [Job -> JobType]
    /\ runs \subseteq Runs
    /\ up \in [Worker -> {"running", "closing", "down"}]
    /\ started \in [Job -> Nat] /\ spoiled \subseteq Job
    /\ signals \in 0..MaxSignals /\ faults \in 0..MaxFaults

(* The attempts of a retry demo are enough for it: a job ends as failed    *)
(* only if a Redis error spoiled an attempt or it stalled too often.       *)
RetriesSuffice ==
    \A j \in Job : job[j].state = "failed" => j \in spoiled \/ job[j].stalls > MaxStalls

(* However often jobs fail, stall, lose their worker or run twice at once, *)
(* no job is started more often than its attempts and stalls allow.        *)
StartsBounded == \A j \in Job : started[j] <= job[j].attempts + MaxStalls

(* While nothing fails, signals to the workers alone never make a job      *)
(* stall or run twice at the same time.                                    *)
CleanShutdown ==
    faults = 0 => \A j \in Job : /\ job[j].stalls = 0
                                 /\ \A x, y \in runs : x.job = j /\ y.job = j => x = y

(* A job that is completed or failed stays as it is, whatever the late     *)
(* runs of a stalled job report.                                           *)
FinishedForGood ==
    [][\A j \in Job : job[j].state \in Finished => job'[j] = job[j]]_vars

(* Every job on the queue ends as completed or failed.                     *)
EveryJobFinishes ==
    \A j \in Job : job[j].state # "none" ~> job[j].state \in Finished
==============================================================================
