------------------------------- MODULE Engine -------------------------------
(***************************************************************************)
(* The worker pool of internal/crawler/worker.go: SubmitJob, Worker,       *)
(* ResultProcessor and Stop over the three bounded channels Jobs, Results  *)
(* and UserResults.  It implements JobService, which is all the            *)
(* coordinator relies on.  Init is the state Start leaves behind.          *)
(***************************************************************************)
EXTENDS Integers, Sequences, FiniteSets, Functions

CONSTANTS
    Job,                            \* the jobs, each submitted once
    Submitter, Worker,              \* goroutines
    JobsCap, ResultsCap, UserCap    \* capacities of the channels

ASSUME EngineAssumption ==
    /\ JobsCap \in Nat \ {0} /\ ResultsCap \in Nat \ {0} /\ UserCap \in Nat \ {0}

VARIABLES
    fresh,      \* jobs nobody has submitted yet
    submitter,  \* where each call of SubmitJob is
    offer,      \* the job each call submits, as a set
    running,    \* Running; Jobs is open exactly as long
    locking,    \* whether Stop waits for, or has passed, RunningMutex.Lock
    jobs,       \* the channel Jobs
    worker,     \* where each worker is
    held,       \* the job, or its result, each worker has in hand, as a set
    results, resultsOpen,   \* the channel Results
    processor,  \* where the result processor is
    routing,    \* the result it is routing, as a set
    user, userOpen,         \* the channel UserResults
    stopper,    \* where Stop is
    cancelled,  \* whether the context given to Start is cancelled
    panicked,   \* the closed channels a goroutine has sent on
    hurried     \* history: which timeouts have fired

submitVars == <<fresh, submitter, offer>>
workerVars == <<worker, held>>
routeVars == <<processor, routing, user, userOpen>>
vars == <<fresh, submitter, offer, running, locking, jobs, worker, held, results,
          resultsOpen, processor, routing, user, userOpen, stopper, cancelled,
          panicked, hurried>>

\* Stop cancels the engine's context before anything else.
ContextDone == cancelled \/ stopper \notin {"idle", "cancel"}

Init ==
    /\ fresh = Job
    /\ submitter = [s \in Submitter |-> "idle"] /\ offer = [s \in Submitter |-> {}]
    /\ running = TRUE /\ locking = FALSE
    /\ jobs = <<>>
    /\ worker = [w \in Worker |-> "idle"] /\ held = [w \in Worker |-> {}]
    /\ results = <<>> /\ resultsOpen = TRUE
    /\ processor = "run" /\ routing = {}
    /\ user = <<>> /\ userOpen = TRUE
    /\ stopper = "idle"
    /\ cancelled = FALSE /\ panicked = {} /\ hurried = {}

-----------------------------------------------------------------------------
(* SubmitJob *)

Readers == {s \in Submitter : submitter[s] = "sending"}

\* A pending RunningMutex.Lock holds back new readers.
CanRLock == ~locking \/ ~running

SubmitCheck(s) ==
    /\ submitter[s] = "idle"
    /\ CanRLock
    /\ running
    /\ \E job \in fresh :
          /\ fresh' = fresh \ {job}
          /\ offer' = [offer EXCEPT ![s] = {job}]
    /\ submitter' = [submitter EXCEPT ![s] = "limited"]
    /\ UNCHANGED <<running, locking, jobs, workerVars, results, resultsOpen,
                   routeVars, stopper, cancelled, panicked, hurried>>

\* The call fails: in robots.txt, in the rate-limit wait, at the second look at
\* Running, or because the context is done.
Unreleased(s) == submitter[s] = "limited"
Released(s) == submitter[s] = "limited" \/ (submitter[s] = "sending" /\ ContextDone)

SubmitFails(s) ==
    /\ Released(s)
    /\ submitter' = [submitter EXCEPT ![s] = "idle"]
    /\ offer' = [offer EXCEPT ![s] = {}]
    /\ UNCHANGED <<fresh, running, locking, jobs, workerVars, results, resultsOpen,
                   routeVars, stopper, cancelled, panicked, hurried>>

\* RLock and the second look at Running.
StillRunning == running

SubmitLock(s) ==
    /\ submitter[s] = "limited"
    /\ CanRLock
    /\ StillRunning
    /\ submitter' = [submitter EXCEPT ![s] = "sending"]
    /\ UNCHANGED <<fresh, offer, running, locking, jobs, workerVars, results,
                   resultsOpen, routeVars, stopper, cancelled, panicked, hurried>>

RoomInJobs == Len(jobs) < JobsCap

SubmitSend(s) ==
    /\ submitter[s] = "sending"
    /\ \/ /\ running /\ RoomInJobs
          /\ \E job \in offer[s] : jobs' = Append(jobs, job)
          /\ UNCHANGED panicked
       \/ /\ ~running
          /\ panicked' = panicked \union {"Jobs"}
          /\ UNCHANGED jobs
    /\ submitter' = [submitter EXCEPT ![s] = "idle"]
    /\ offer' = [offer EXCEPT ![s] = {}]
    /\ UNCHANGED <<fresh, running, locking, workerVars, results, resultsOpen,
                   routeVars, stopper, cancelled, hurried>>

-----------------------------------------------------------------------------
(* Worker *)

WorkerTake(w) ==
    /\ worker[w] = "idle" /\ jobs # <<>>
    /\ jobs' = Tail(jobs)
    /\ held' = [held EXCEPT ![w] = {Head(jobs)}]
    /\ worker' = [worker EXCEPT ![w] = "busy"]
    /\ UNCHANGED <<submitVars, running, locking, results, resultsOpen, routeVars,
                   stopper, cancelled, panicked, hurried>>

\* ProcessJob always returns a result, of a failure or a cancelled fetch too.
WorkerProcess(w) ==
    /\ worker[w] = "busy"
    /\ worker' = [worker EXCEPT ![w] = "sending"]
    /\ UNCHANGED <<submitVars, running, locking, jobs, held, results, resultsOpen,
                   routeVars, stopper, cancelled, panicked, hurried>>

WorkerSend(w) ==
    /\ worker[w] = "sending"
    /\ \/ /\ resultsOpen /\ Len(results) < ResultsCap
          /\ \E job \in held[w] : results' = Append(results, job)
          /\ UNCHANGED panicked
       \/ /\ ~resultsOpen
          /\ panicked' = panicked \union {"Results"}
          /\ UNCHANGED results
    /\ worker' = [worker EXCEPT ![w] = "idle"]
    /\ held' = [held EXCEPT ![w] = {}]
    /\ UNCHANGED <<submitVars, running, locking, jobs, resultsOpen, routeVars, stopper,
                   cancelled, hurried>>

\* The context ends the idle worker and the one blocked on Results, whose result
\* is lost; a closed and empty Jobs ends the idle one.
EagerlyLeaves(w) == worker[w] \in {"idle", "sending"}
WorkerLeaves(w) ==
    \/ worker[w] \in {"idle", "sending"} /\ ContextDone
    \/ worker[w] = "idle" /\ ~running /\ jobs = <<>>

WorkerExit(w) ==
    /\ WorkerLeaves(w)
    /\ worker' = [worker EXCEPT ![w] = "exited"]
    /\ held' = [held EXCEPT ![w] = {}]
    /\ UNCHANGED <<submitVars, running, locking, jobs, results, resultsOpen, routeVars,
                   stopper, cancelled, panicked, hurried>>

-----------------------------------------------------------------------------
(* ResultProcessor *)

ProcessorDrain ==
    /\ processor = "run" /\ routing = {} /\ ContextDone
    /\ processor' = "drain"
    /\ UNCHANGED <<submitVars, running, locking, jobs, workerVars, results, resultsOpen,
                   routing, user, userOpen, stopper, cancelled, panicked, hurried>>

ProcessorTake ==
    /\ processor \in {"run", "drain"} /\ routing = {} /\ results # <<>>
    /\ results' = Tail(results)
    /\ routing' = {Head(results)}
    /\ UNCHANGED <<submitVars, running, locking, jobs, workerVars, resultsOpen,
                   processor, user, userOpen, stopper, cancelled, panicked, hurried>>

\* handleResultRouting gives up only when the context is done.
DropsWhenFull == ContextDone \/ Len(user) = UserCap
MayDrop == ContextDone

ProcessorRoute ==
    /\ routing # {}
    /\ routing' = {}
    /\ \/ /\ Len(user) < UserCap
          /\ \E job \in routing : user' = Append(user, job)
       \/ MayDrop /\ UNCHANGED user
    /\ UNCHANGED <<submitVars, running, locking, jobs, workerVars, results, resultsOpen,
                   processor, userOpen, stopper, cancelled, panicked, hurried>>

\* Results is closed and empty, or the ten seconds of draining are over.
ProcessorExit ==
    /\ processor \in {"run", "drain"} /\ routing = {}
    /\ \/ ~resultsOpen /\ results = <<>> /\ UNCHANGED hurried
       \/ processor = "drain" /\ hurried' = hurried \union {"processor"}
    /\ processor' = "exited"
    /\ userOpen' = FALSE
    /\ UNCHANGED <<submitVars, running, locking, jobs, workerVars, results, resultsOpen,
                   routing, user, stopper, cancelled, panicked>>

-----------------------------------------------------------------------------
(* Stop, called once as Run does *)

StopCall ==
    /\ stopper = "idle" /\ running
    /\ stopper' = "cancel"
    /\ UNCHANGED <<submitVars, running, locking, jobs, workerVars, results, resultsOpen,
                   routeVars, cancelled, panicked, hurried>>

StopCancel ==
    /\ stopper = "cancel"
    /\ stopper' = "lock"
    /\ locking' = TRUE
    /\ UNCHANGED <<submitVars, running, jobs, workerVars, results, resultsOpen,
                   routeVars, cancelled, panicked, hurried>>

\* RunningMutex.Lock waits for the readers.
LockTaken == TRUE
LockFree == Readers = {}

StopCloseJobs ==
    /\ stopper = "lock" /\ LockFree
    /\ running' = FALSE
    /\ stopper' = "workers"
    /\ UNCHANGED <<submitVars, locking, jobs, workerVars, results, resultsOpen,
                   routeVars, cancelled, panicked, hurried>>

WorkersDone == \A w \in Worker : worker[w] = "exited"

StopCloseResults ==
    /\ stopper = "workers"
    /\ \/ WorkersDone /\ UNCHANGED hurried
       \/ ~WorkersDone /\ hurried' = hurried \union {"workers"}
    /\ resultsOpen' = FALSE
    /\ stopper' = "tasks"
    /\ UNCHANGED <<submitVars, running, locking, jobs, workerVars, results, routeVars,
                   cancelled, panicked>>

StopReturn ==
    /\ stopper = "tasks"
    /\ \/ processor = "exited" /\ UNCHANGED hurried
       \/ processor # "exited" /\ hurried' = hurried \union {"tasks"}
    /\ stopper' = "returned"
    /\ UNCHANGED <<submitVars, running, locking, jobs, workerVars, results, resultsOpen,
                   routeVars, cancelled, panicked>>

-----------------------------------------------------------------------------
(* The reader of UserResults and the context of the caller *)

Consume ==
    /\ user # <<>>
    /\ user' = Tail(user)
    /\ UNCHANGED <<submitVars, running, locking, jobs, workerVars, results, resultsOpen,
                   processor, routing, userOpen, stopper, cancelled, panicked, hurried>>

Cancel ==
    /\ ~cancelled
    /\ cancelled' = TRUE
    /\ UNCHANGED <<submitVars, running, locking, jobs, workerVars, results, resultsOpen,
                   routeVars, stopper, panicked, hurried>>

Submit(s) == SubmitCheck(s) \/ SubmitFails(s) \/ SubmitLock(s) \/ SubmitSend(s)
Work(w) == WorkerTake(w) \/ WorkerProcess(w) \/ WorkerSend(w) \/ WorkerExit(w)
Route == ProcessorDrain \/ ProcessorTake \/ ProcessorRoute \/ ProcessorExit
StopSteps == StopCancel \/ StopCloseJobs \/ StopCloseResults \/ StopReturn

\* Every goroutine has done all it will do.
Quiet ==
    /\ stopper = "returned" /\ processor = "exited" /\ WorkersDone
    /\ \A s \in Submitter : submitter[s] = "idle"
    /\ UNCHANGED vars

Next ==
    \/ \E s \in Submitter : Submit(s)
    \/ \E w \in Worker : Work(w)
    \/ Route \/ StopCall \/ StopSteps \/ Consume \/ Cancel \/ Quiet

Spec == Init /\ [][Next]_vars

\* The goroutines are scheduled, fetches end, and calls of SubmitJob get past
\* the limiters; the caller stops the engine at some time, as Run does, but
\* the reader of UserResults may stop reading once the context is done.  No
\* timeout has to fire.
Fairness ==
    /\ \A s \in Submitter : WF_vars(SubmitFails(s) \/ SubmitLock(s) \/ SubmitSend(s))
    /\ \A w \in Worker : WF_vars(Work(w))
    /\ WF_vars(Route /\ hurried' = hurried)
    /\ WF_vars(StopSteps /\ hurried' = hurried)
    /\ WF_vars(Consume /\ ~ContextDone)

FairSpec == Spec /\ Fairness

-----------------------------------------------------------------------------
(* Properties *)

TypeOK ==
    /\ fresh \subseteq Job
    /\ submitter \in [Submitter -> {"idle", "limited", "sending"}]
    /\ offer \in [Submitter -> SUBSET Job]
    /\ running \in BOOLEAN /\ locking \in BOOLEAN
    /\ jobs \in Seq(Job) /\ Len(jobs) <= JobsCap
    /\ worker \in [Worker -> {"idle", "busy", "sending", "exited"}]
    /\ held \in [Worker -> SUBSET Job]
    /\ results \in Seq(Job) /\ Len(results) <= ResultsCap /\ resultsOpen \in BOOLEAN
    /\ processor \in {"run", "drain", "exited"} /\ routing \subseteq Job
    /\ user \in Seq(Job) /\ Len(user) <= UserCap /\ userOpen \in BOOLEAN
    /\ stopper \in {"idle", "cancel", "lock", "workers", "tasks", "returned"}
    /\ cancelled \in BOOLEAN
    /\ panicked \subseteq {"Jobs", "Results"}
    /\ hurried \subseteq {"processor", "workers", "tasks"}

\* No call of SubmitJob sends on Jobs after Stop closes it, which would panic,
\* and no worker on Results, as long as the workers end within the fifteen
\* seconds Stop waits for them, however they and Stop interleave.
NoSendOnClosed ==
    "Jobs" \notin panicked /\ ("workers" \notin hurried => "Results" \notin panicked)

Working ==
    Range(jobs) \union (UNION Range(held)) \union Range(results) \union routing

\* The pool keeps the promise of JobService: a job is in the pool or answered,
\* once, and is lost only after the context is done.
Service == INSTANCE JobService WITH
    Result <- [job: Job],
    working <- Working,
    ready <- [job: Range(user)],
    engine <- IF ~running THEN "stopped"
              ELSE IF stopper \in {"idle", "cancel"} THEN "running" ELSE "stopping",
    closed <- ~userOpen

ServiceSpec == Service!ServiceSpec

\* An accepted job is answered unless the context ends: full channels only slow
\* the pool down.
EveryJobAnswered ==
    \A job \in Job : job \in Working ~> job \notin Working \/ ContextDone

\* Stop returns without its timeouts, whatever is full and whoever is blocked,
\* and leaves no worker behind unless its patience ended; and a submitter
\* parked on a full Jobs gets through or is released.
CallsReturn ==
    /\ stopper = "cancel" ~> stopper = "returned" /\ (WorkersDone \/ "workers" \in hurried)
    /\ \A s \in Submitter : submitter[s] = "sending" ~> submitter[s] = "idle"
=============================================================================
