----------------------------- MODULE JobService -----------------------------
(***************************************************************************)
(* What the crawler engine promises the coordinator: a job accepted by     *)
(* SubmitJob produces exactly one result on the result channel, unless the *)
(* engine's context ends first, in which case the job or its result may be *)
(* lost.  Results come back in any order.  Workers, buffers and the result *)
(* processor are hidden here; Engine.tla has them and implements this.     *)
(***************************************************************************)
CONSTANTS
    Job,        \* the jobs that can be submitted
    Result      \* the results, each with the job it answers in field job

VARIABLES
    working,    \* jobs accepted and not yet answered
    ready,      \* results produced and not yet received by the consumer
    engine,     \* "running", "stopping" once Stop is called, "stopped" once it
                \* has closed the job channel
    closed,     \* whether the result channel is closed
    cancelled   \* whether the context given to Start is cancelled

serviceVars == <<working, ready, engine, closed, cancelled>>

ServiceTypeOK ==
    /\ working \subseteq Job
    /\ ready \subseteq Result
    /\ engine \in {"running", "stopping", "stopped"}
    /\ closed \in BOOLEAN
    /\ cancelled \in BOOLEAN

ServiceInit ==
    /\ working = {}
    /\ ready = {}
    /\ engine = "running"
    /\ closed = FALSE
    /\ cancelled = FALSE

\* The engine's own context is a child of the one given to Start, and Stop
\* cancels it first of all.
ContextDone == cancelled \/ engine # "running"

Accept(job) ==
    /\ engine # "stopped"
    /\ working' = working \union {job}
    /\ UNCHANGED <<ready, engine, closed, cancelled>>

Answer(result) ==
    /\ ~closed
    /\ result.job \in working
    /\ working' = working \ {result.job}
    /\ ready' = ready \union {result}
    /\ UNCHANGED <<engine, closed, cancelled>>

Receive(result) ==
    /\ result \in ready
    /\ ready' = ready \ {result}
    /\ UNCHANGED <<working, engine, closed, cancelled>>

\* A worker or the result processor gives a job up.
Lose(job) ==
    /\ ContextDone
    /\ job \in working
    /\ working' = working \ {job}
    /\ UNCHANGED <<ready, engine, closed, cancelled>>

Cancel ==
    /\ ~cancelled
    /\ cancelled' = TRUE
    /\ UNCHANGED <<working, ready, engine, closed>>

Stop ==
    /\ engine = "running"
    /\ engine' = "stopping"
    /\ UNCHANGED <<working, ready, closed, cancelled>>

CloseJobs ==
    /\ engine = "stopping"
    /\ engine' = "stopped"
    /\ UNCHANGED <<working, ready, closed, cancelled>>

\* What is in the channel's buffer can still be received after this.
CloseResults ==
    /\ ContextDone /\ ~closed
    /\ closed' = TRUE
    /\ UNCHANGED <<working, ready, engine, cancelled>>

Held(job) == job \in working \/ \E result \in ready : result.job = job

ServiceNext ==
    \/ \E job \in Job : ~Held(job) /\ Accept(job)
    \/ \E result \in Result : Answer(result) \/ Receive(result)
    \/ \E job \in Job : Lose(job)
    \/ Cancel \/ Stop \/ CloseJobs \/ CloseResults

ServiceSpec ==
    /\ ServiceInit
    /\ [][ServiceNext]_serviceVars
=============================================================================
